---------------------------- MODULE MCFindServer ----------------------------
EXTENDS FindServer

\* Two that overlap and one apart; the server may be on one that is not searched.
ThreeChannels == <<1, 2, 36>>
OneAndTwo == {<<1, 2>>}
SomeHomes == {2, 36, 64}
=============================================================================
