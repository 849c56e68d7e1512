------------------------------ MODULE MCBrowse ------------------------------
(* Instances of Browse: a root with one folder, and two files in each.       *)
EXTENDS Browse

Tree == {<<>>, <<1>>}
Places == {<<2>>, <<1, 2>>, <<1, 3>>}
AtStart == {<<2>>, <<1, 2>>, <<1, 3>>}
Folder == <<1>>
Links == {<<1, 4>>}
Top == <<>>
One == {CHOOSE w \in Walkers : TRUE}
Work == {[walkers |-> Walkers, asked |-> {Folder}, stream |-> FALSE, list |-> FALSE,
          changes |-> 2, time |-> 0],
         [walkers |-> One, asked |-> Tree, stream |-> FALSE, list |-> FALSE,
          changes |-> 1, time |-> 2],
         [walkers |-> One, asked |-> {Folder}, stream |-> TRUE, list |-> FALSE,
          changes |-> 1, time |-> 2],
         [walkers |-> {}, asked |-> {}, stream |-> FALSE, list |-> TRUE,
          changes |-> 2, time |-> 0]}

=============================================================================
