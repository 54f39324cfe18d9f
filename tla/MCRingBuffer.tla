---------------------------- MODULE MCRingBuffer ----------------------------
(***************************************************************************)
(* A ring of four bytes; sizes from 0 to one more than the writable        *)
(* capacity; enough bytes to go round the buffer several times.            *)
(***************************************************************************)
EXTENDS RingBuffer

MCSizes == 0 .. m_capacity

=============================================================================
