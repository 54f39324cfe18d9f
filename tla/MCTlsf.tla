------------------------------- MODULE MCTlsf -------------------------------
(***************************************************************************)
(* A small instance of the allocator in the shape of a 64-bit build: words *)
(* of 8 bytes, user data aligned to 16.  The word is cut to 14 bits and a  *)
(* row to 8 second level classes, so that a pool of a few hundred bytes    *)
(* reaches the linear row, rows with one size per class and rows in which  *)
(* a class holds several sizes.                                            *)
(***************************************************************************)
EXTENDS Tlsf

\* Too small by one byte, a pool of 400 bytes, one of 512 with a tail that is
\* rounded off, too big by one byte.
MCArenaSizes ==
  {ARENA_SIZE + MINIMUM_BLOCK_SIZE - 1, ARENA_SIZE + 400, ARENA_SIZE + 517,
   ARENA_SIZE + MAXIMUM_BLOCK_SIZE + 1}

\* Blocks of 48 (in the linear row), 256 and 272 bytes (in one class), a
\* request whose rounding leaves the table and one that adjust_size refuses.
MCRequests == {20, 235, 250, 4040, 4090}

\* The instance is within the limits under which the allocator is proved.
ASSUME MCWithinLimits == Limits /\ NoWrap /\ HeaderAligned

\* A request that wraps around once the header is added.
WrapRequests == {32, UWORD_MOD - 8}

=============================================================================
