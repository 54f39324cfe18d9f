---------------------------- MODULE TlsfMapping ----------------------------
(***************************************************************************)
(* The two-level size classes of the TLSF allocator                        *)
(* (librtl/memory.incl): how a block size, or a request, is mapped to a    *)
(* pair <<fli, sli>> of first and second level index, and how a request is *)
(* padded before it is mapped.                                             *)
(*                                                                         *)
(* RTL_UWORD arithmetic is taken modulo 2^WORD_SIZE_BITS.  The bitmaps of  *)
(* the arena are represented by the sets of their 1 bits, so FFS(x) of the *)
(* code is the least element of a set here.                                *)
(***************************************************************************)
EXTENDS Integers

CONSTANTS
  WORD_SIZE_BYTES_LOG2,   \* log2 of the size of RTL_UWORD (and of a pointer)
  WORD_SIZE_BITS,         \* RTL_TARGET_WORD_SIZE_BITS
  SLI_COUNT_LOG2,         \* log2 of the second level subdivisions
  ALIGNMENT_REQUIREMENT,  \* offset of the union in struct alignment_struct
  INT_BITS                \* width of int, the type of the literal 1 in "1 << n"

ASSUME MappingConstants ==
  /\ {WORD_SIZE_BYTES_LOG2, WORD_SIZE_BITS, SLI_COUNT_LOG2,
      ALIGNMENT_REQUIREMENT, INT_BITS} \subseteq Nat \ {0}
  /\ WORD_SIZE_BITS > WORD_SIZE_BYTES_LOG2 + SLI_COUNT_LOG2 + 2

WORD_SIZE_BYTES        == 2^WORD_SIZE_BYTES_LOG2
SLI_COUNT              == 2^SLI_COUNT_LOG2
MAXIMUM_FLI            == WORD_SIZE_BITS - 2
MINIMUM_FLI            == WORD_SIZE_BYTES_LOG2 + SLI_COUNT_LOG2
MINIMUM_FLI_ALLOCATION == 2^MINIMUM_FLI
FLI_SHIFT_VAL          == MINIMUM_FLI - 1
FLI_COUNT              == MAXIMUM_FLI - MINIMUM_FLI + 1

\* sizeof(tlsf_blk_hdr): size, prev_physical_block, next_free, prev_free.
MINIMUM_BLOCK_SIZE        == 4 * WORD_SIZE_BYTES
MAXIMUM_BLOCK_SIZE        == 2^MAXIMUM_FLI
START_OF_USER_DATA_OFFSET == 2 * WORD_SIZE_BYTES

\* The union of alignment_struct holds a pointer, and a header is as long as
\* its strictest member needs.
ASSUME AlignmentConstants ==
  /\ ALIGNMENT_REQUIREMENT >= WORD_SIZE_BYTES
  /\ MINIMUM_BLOCK_SIZE % ALIGNMENT_REQUIREMENT = 0

UWORD_MOD == 2^WORD_SIZE_BITS

\* The rows of sl_bitmap and free_blocks.  The code stores row fli at index
\* fli - FLI_SHIFT_VAL of arrays of length FLI_COUNT.
Rows    == FLI_SHIFT_VAL .. (FLI_SHIFT_VAL + FLI_COUNT - 1)
Columns == 0 .. (SLI_COUNT - 1)
Classes == Rows \X Columns

\* Position of the most significant bit of x, 0 for x = 0.
FLS(x) ==
  IF x = 0 THEN 0
  ELSE CHOOSE n \in 0 .. (WORD_SIZE_BITS - 1) : 2^n <= x /\ x < 2^(n + 1)

\* Position of the least significant bit of a bitmap, 0 for the empty one.
FFS(bits) ==
  IF bits = {} THEN 0 ELSE CHOOSE i \in bits : \A j \in bits : i <= j

\* size - (size & (ALIGNMENT_REQUIREMENT - 1))
AlignDown(size) == size - (size % ALIGNMENT_REQUIREMENT)

mapping_insert(request) ==
  IF request < MINIMUM_FLI_ALLOCATION
    THEN <<MINIMUM_FLI - 1, request \div WORD_SIZE_BYTES>>
    ELSE LET fli == FLS(request)
         IN  <<fli, (request \div 2^(fli - SLI_COUNT_LOG2)) - SLI_COUNT>>

\* The value of the int expression "1 << n" once converted to RTL_UWORD.  A
\* shift that does not fit in int is undefined in C; this is the result of
\* the targets whose shift instruction takes its count modulo the width.
IntShift(n) ==
  LET k == n % INT_BITS
  IN  IF k = INT_BITS - 1 THEN (UWORD_MOD - 2^k) % UWORD_MOD ELSE 2^k

\* Mutant: the request is not rounded up to the next class.
mapping_search_unrounded(request) == mapping_insert(request)

\* Mutant: the request is rounded up by a whole row.
mapping_search_row(request) ==
  IF request >= MINIMUM_FLI_ALLOCATION
    THEN mapping_insert(request + 2^FLS(request) - 1)
    ELSE mapping_insert(request)

mapping_search(request) ==
  IF request >= MINIMUM_FLI_ALLOCATION
    THEN mapping_insert(
           (request + IntShift(FLS(request) - SLI_COUNT_LOG2) - 1) % UWORD_MOD)
    ELSE mapping_insert(request)

\* The shift by which mapping_search rounds size up fits in an int.
Roundable(size) == FLS(size) - SLI_COUNT_LOG2 < INT_BITS - 1

\* Mutant: requests are padded to words only.
adjust_size_words(request) ==
  LET padded == request + WORD_SIZE_BYTES - 1
      rval   == padded - (padded % WORD_SIZE_BYTES)
  IN  IF rval < MINIMUM_BLOCK_SIZE THEN MINIMUM_BLOCK_SIZE ELSE rval

adjust_size(request) ==
  LET rval == AlignDown((request + ALIGNMENT_REQUIREMENT - 1) % UWORD_MOD)
  IN  CASE request = 0                -> 0
        [] request # 0 /\ rval > MAXIMUM_BLOCK_SIZE -> 0
        [] request # 0 /\ rval < MINIMUM_BLOCK_SIZE -> MINIMUM_BLOCK_SIZE
        [] OTHER                      -> rval

\* The block size rtl_tlsf_alloc looks for: the request and its header,
\* padded.  0 stands for a request that is refused.
BlockSizeFor(sz) == adjust_size((sz + START_OF_USER_DATA_OFFSET) % UWORD_MOD)

=============================================================================
