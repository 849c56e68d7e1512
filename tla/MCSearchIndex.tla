--------------------------- MODULE MCSearchIndex ---------------------------
EXTENDS SearchIndex

CONSTANTS a, b

OneFolder == << [parent |-> 0, name |-> a, kind |-> "directory"],
                [parent |-> 1, name |-> b, kind |-> "file"] >>
Few == {<<a>>, <<a, b>>}
Tops == {<<a>>, <<b>>}
=============================================================================
