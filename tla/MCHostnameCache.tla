--------------------------- MODULE MCHostnameCache ---------------------------
(* HostnameCache with buffers of 6 and 10 bytes for names and their escaped form: as with
   the code's 64 and 128, an escaped name may not fit. *)
EXTENDS HostnameCache

(* One that fills the buffer to the last byte with a whole character, one that loses
   its last byte, one that would be cut inside its last character. *)
ThreeNames == {<<"c", "M", "C", "C">>, <<"L", "C", "c", "q">>, <<"c", "E", "C", "C", "C">>}
MacSymmetry == Permutations(Macs)
=============================================================================
