------------------------------ MODULE MCDirMove ------------------------------
EXTENDS DirMove

\* Every platform, near and far, alone and with what may come between.
MCWorlds == {[windows |-> w, near |-> n, events |-> e] :
               w \in BOOLEAN, n \in BOOLEAN,
               e \in {{}, {"edit", "foreign", "scan", "unroot"}, {"edit", "sourceAway", "targetAway"},
                     {"edit", "foreign", "targetAway"}}}

\* Two volumes on Unix, the source on a removable one.
MCRemovable == {[windows |-> FALSE, near |-> FALSE, events |-> {"sourceAway"}]}
=============================================================================
