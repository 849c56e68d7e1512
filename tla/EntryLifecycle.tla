--------------------------- MODULE EntryLifecycle ---------------------------
(***************************************************************************)
(* What the delete, restore and purge operations of a share promise about  *)
(* each entry, without a word on how Trash is stored.                      *)
(***************************************************************************)
CONSTANT Entries    \* versions of files and folders

VARIABLE phase      \* where each of them is

Phases == {"unborn", "shared", "trashed", "doomed", "gone", "taken"}

\* An entry is created in the share, moved to Trash and restored any number of
\* times.  Only one in Trash can be doomed, and only a doomed one destroyed;
\* from there nothing comes back.  Another process may take one of the share.
Edges == {<<"unborn", "shared">>, <<"shared", "trashed">>, <<"trashed", "shared">>,
          <<"trashed", "doomed">>, <<"doomed", "gone">>, <<"shared", "taken">>}

Init == phase \in [Entries -> {"unborn", "shared", "trashed"}]

Next ==
    /\ phase' \in [Entries -> Phases]
    /\ \A e \in Entries : phase'[e] # phase[e] => <<phase[e], phase'[e]>> \in Edges

Spec == Init /\ [][Next]_phase
=============================================================================
