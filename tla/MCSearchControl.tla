--------------------------- MODULE MCSearchControl ---------------------------
(* SearchControl for TLC: in one run, each behaviour is of one scene.  Only   *)
(* the layouts start with a table of the last session.                        *)
(*   commands   searches against two commands that switch or clear            *)
(*   layouts    searches and a layout against one such command                *)
(*   snapshots  searches that load while two commands write and reset         *)
(*   deletions  searches that load while two commands write and delete        *)
EXTENDS SearchControl

VARIABLE scene

Loads    == scene \in {"snapshots", "deletions"}
Takes(k) == CASE scene = "snapshots" -> k \in {"reset", "flush"}
              [] scene = "deletions" -> k \in {"flush", "scan"}
              [] OTHER               -> k \in {"switch", "clear"}

MCInit ==
    /\ Init
    /\ active = CHOOSE m \in Model : TRUE
    /\ scene \in {"commands", "layouts", "snapshots", "deletions"}
    /\ scene = "layouts" \/ table = NoTable

\* Where snapshots are loaded the second model is not written, and there is one
\* registration or revocation less.
Calls(o) ==
    /\ OpStep(o)
    /\ Loads => nextSeq' < MaxSeq /\ \A m \in Model \ {active} : emb'[m] = 0

\* Idle searches and idle commands are interchangeable: one of them starts.
MCNext ==
    /\ \/ \E r \in Request : SearchStep(r)
       \/ \E r \in Request :
              /\ At(r, "idle") /\ r = CHOOSE i \in Request : At(i, "idle")
              /\ Register(r)
              /\ Loads => nextSeq' < MaxSeq
       \/ \E o \in Op : Calls(o)
       \/ \E o \in Op, k \in Kinds :
              /\ op[o] = NoOp /\ o = CHOOSE i \in Op : op[i] = NoOp
              /\ Takes(k) /\ Begin(o, k)
              /\ scene = "layouts" => \A i \in Op \ {o} : op[i] = NoOp
       \/ scene = "layouts" /\ \E v \in View : Probe(v) \/ Query(v) \/ Publish(v)
    /\ UNCHANGED scene

MCSpec == MCInit /\ [][MCNext]_<<vars, scene>> /\ \A r \in Request : WF_vars(SearchStep(r))
=============================================================================
