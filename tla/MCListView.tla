----------------------------- MODULE MCListView -----------------------------
EXTENDS ListView

MCWatching == {{"first", "pattern"}, {"pattern", "array"}}
\* Arrays without the same element twice.
MCMergeable(old, new) ==
    \A array \in {old, new} : \A i, j \in DOMAIN array : array[i] = array[j] => i = j

ASSUME MCPageAssumption == Apart /\ Unrepeated

\* Without what ObserversTold excepts: the observer of list.* knows what is there
\* after any merge.  It does not (PatternObserver.shuffle).
MergesTold ==
    Idle /\ "pattern" \in watching =>
      \A k \in Present(View) : k \in DOMAIN pattern.told /\ pattern.told[k] = list[k]
=============================================================================
