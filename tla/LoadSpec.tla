------------------------------ MODULE LoadSpec ------------------------------
(***************************************************************************)
(* What initializing a hive promises (spec.md: corrupt input is rejected, *)
(* never loaded and never crashed on): HvInitialize ends, in one step as *)
(* far as its caller can tell.  An image the writer produced is loaded,   *)
(* from a file or copied from memory, with exactly its free cells on the  *)
(* free lists, or the load fails for want of memory or a read; a corrupt  *)
(* image is rejected, or fails the same way.  A flat hive is adopted when *)
(* its header is sound, with no free lists; a new hive is created empty,  *)
(* or fails; the other operations are unsupported.                        *)
(***************************************************************************)
EXTENDS HiveImage

CONSTANTS
    Images,         \* the images the hive may be initialized from
    Operations      \* the operations HvInitialize may be given

VARIABLES
    operation,      \* the operation HvInitialize was given
    image,          \* the image the hive is initialized from
    status,         \* "loading", then "loaded", "rejected", "failed" or "unsupported"
    free            \* the free cells on the hive's free lists once loaded

vars == <<operation, image, status, free>>

Loaders == {"HINIT_MEMORY", "HINIT_FILE"}
Supported == Loaders \cup {"HINIT_CREATE", "HINIT_FLAT"}

\* The images an operation must accept.
Loadable(op, img) ==
    CASE op = "HINIT_CREATE" -> TRUE
      [] op = "HINIT_FLAT"   -> img.hdrOk
      [] OTHER               -> img.intact

Init ==
    /\ operation \in Operations
    /\ image \in Images
    /\ status = "loading"
    /\ free = {}

Load ==
    /\ status = "loading"
    /\ status' \in CASE operation \notin Supported  -> {"unsupported"}
                    [] Loadable(operation, image) -> {"loaded", "failed"}
                    [] OTHER                      -> {"rejected", "failed"}
    /\ free' = IF status' = "loaded" /\ operation \in Loaders THEN image.free ELSE {}
    /\ UNCHANGED <<operation, image>>

Spec == Init /\ [][Load]_vars /\ WF_vars(Load)
=============================================================================
