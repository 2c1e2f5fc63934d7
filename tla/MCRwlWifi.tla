------------------------------ MODULE MCRwlWifi ------------------------------
EXTENDS RwlWifi

\* One fragment, two full ones, and three, of two units each.
IoctlMenu == {Get(1), Get(4), Get(5), Set}
SmallMenu == {Get(3), Set, Shell(<<1>>)}
\* A FOUND_PEER sent again by the server, and a number out of range.
Bogus == {[sub |-> 0, len |-> FragSize], [sub |-> FragCount, len |-> 0]}
=============================================================================
