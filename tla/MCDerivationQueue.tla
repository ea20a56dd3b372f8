-------------------------- MODULE MCDerivationQueue --------------------------
EXTENDS DerivationQueue, TLC

\* One item for two runs that overlap, with one upset; all items for one run,
\* which they fill: a job and both channels; and no upset.
MCScenes == [items : {{i} : i \in Items}, runs : {2}, upsets : {1}]
            \cup [items : {Items}, runs : {1}, upsets : {0}]

\* Two runs that overlap, and nothing goes wrong around them.
MCCalm == [items : {Items}, runs : {2}, upsets : {0}]

\* Every item is like every other.
Interchangeable == Permutations(Items)
=============================================================================
