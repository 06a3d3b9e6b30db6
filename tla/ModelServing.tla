---------------------------- MODULE ModelServing ----------------------------
(***************************************************************************)
(* The two kinds of callers of ModelRegistry.get: the serving slots, and   *)
(* requests to promote a version, which make it the latest one in          *)
(* ModelCatalog.  The catalog has one model name here, and Models are its  *)
(* versions, built in or from catalog.json.  Every step is one of          *)
(* ModelRegistry; this module adds what it does to the catalog.            *)
(***************************************************************************)
EXTENDS ModelRegistry

CONSTANTS
    Promoters,   \* the callers that promote; the others are slots
    Configured,  \* the latest version as configured, not checked to be one
    Unpinned     \* a request that names no version

ASSUME ServingAssumption == Promoters \subseteq Callers /\ Unpinned \notin Models

VARIABLES
    latest,    \* _latest of the catalog
    warm       \* versions the backend has ever loaded and warmed up

servingVars == <<vars, latest, warm>>

ServingTypeOK == latest \in Models \cup {Configured} /\ warm \subseteq Models

ServingInit == Init /\ latest = Configured /\ warm = {}

(* A slip: promote makes the version the latest one and then warms it. *)
FlipsFirst(c) == c \in Promoters /\ pc[c] = "idle" /\ pc'[c] = "look"

(* promote: set_latest where get has returned, with no await in between; an *)
(* exception out of get, the loader's or a waiter's, leaves the alias.     *)
Flips(c) == c \in Promoters /\ pc[c] # "use" /\ pc'[c] = "use"

(* load and warmup of the backend have succeeded *)
Warms(c) == pc[c] = "load" /\ pc'[c] = "insert"

(* What a step of get by c does to the catalog and the backend. *)
Beside(c) ==
    /\ latest' = IF Flips(c) THEN want'[c] ELSE latest
    /\ warm' = IF Warms(c) THEN warm \cup {want[c]} ELSE warm

(* resolve raises, before get takes a lock, when there is no such version; *)
(* promote always names one.                                               *)
Resolve(c) ==
    /\ Ask(c) /\ Beside(c)
    /\ \E asked \in Models \cup {Unpinned} :
           LET version == IF asked = Unpinned THEN latest ELSE asked
           IN /\ asked = Unpinned => c \notin Promoters
              /\ version \in Models
              /\ want'[c] = version

Go(c) == GetStep(c) /\ Beside(c)

Break(c) == GetFault(c) /\ Beside(c)

ServingNext == \E c \in Callers : Resolve(c) \/ Go(c) \/ Break(c)

ServingSpec == ServingInit /\ [][ServingNext]_servingVars

(* As FairSpec of ModelRegistry *)
FairServing == ServingSpec /\ \A c \in Callers : SF_servingVars(Go(c))

(* The latest version is one that was loaded and warmed up, also when the  *)
(* promotion waited for another caller's load, and that one failed.        *)
PromotedIsWarm == [][latest' # latest => latest' \in warm]_servingVars
=============================================================================
