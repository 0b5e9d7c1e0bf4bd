-------------------------------- MODULE Soa --------------------------------
(***************************************************************************)
(* ftl::soa: several arrays of the same length in one block of bytes.  The *)
(* object is default-constructed, resized, destroyed, read and at last     *)
(* destructed, in any order that a caller may choose; the block, where its *)
(* arrays lie, what get_array makes of that and who deletes the block are  *)
(* what can go wrong.  A pointer is the number of the byte it points to.   *)
(*                                                                         *)
(* The copy and move members are left out: the copy constructor names a    *)
(* function where a member must be, and the swap the class befriends is    *)
(* not the template that is defined.                                       *)
(*                                                                         *)
(* The names of the specification begin with Soa so that its proofs can    *)
(* stand in one module with the log's.                                     *)
(***************************************************************************)
EXTENDS Naturals

CONSTANTS
    Blocks,      \* blocks that new may return, each as the address of its first byte
    ByteValues,  \* values a byte of a block may have
    NumTypes,    \* NUM_TYPES
    TypeSizes,   \* sizes of types
    Counts,      \* numbers of elements a caller asks for
    Modulus,     \* how many values uint64_t has
    Null         \* nullptr, and the address of no block

ASSUME ModulusAssumption == Modulus \in Nat \ {0} /\ NumTypes \in Nat \ {0}
ASSUME NullAssumption == Null \notin Blocks
\* The lowest page of the address space is never given out.
ASSUME AddressAssumption ==
    /\ Blocks \subseteq Nat /\ ByteValues \subseteq Nat
    /\ \A b \in Blocks, v \in ByteValues : v < b
ASSUME SizesAssumption == TypeSizes \subseteq Nat \ {0} /\ Counts \subseteq Nat

VARIABLES
    sizeOf,   \* TYPES_SIZEOF
    data,     \* m_Data
    num,      \* m_NumElements
    bytes,    \* how long each block is that new returned
    deleted,  \* blocks that were deleted
    misused,  \* a block was deleted twice, read after it was deleted or past its end
    gone,     \* the object's life is over
    span      \* history: what get_array returned, while nothing was called since

soaVars == <<sizeOf, data, num, bytes, deleted, misused, gone, span>>

Wrap(n) == n % Modulus
Types == 1 .. NumTypes

\* The sum that calculate_allocated_bytes and the loop of calculate_offset_bytes
\* form: what the first types take for n elements.
BytesOf(n) ==
    LET sum[i \in 0 .. NumTypes] ==
            IF i = 0 THEN 0 ELSE Wrap(sum[i - 1] + Wrap(sizeOf[i] * n))
    IN  sum

\* For the type with index i - 1.
AllocatedBytes(n) == BytesOf(n)[NumTypes]
OffsetOfNext(i, e, n) == Wrap(BytesOf(n)[i] + Wrap(sizeOf[i] * e))
OffsetBytes(i, e, n) == Wrap(BytesOf(n)[i - 1] + Wrap(sizeOf[i] * e))

Allocated == DOMAIN bytes

NoSpan == [type |-> 0, at |-> Null, len |-> 0]

SoaInit ==
    /\ sizeOf \in [Types -> TypeSizes]
    /\ data = Null /\ num = 0
    /\ bytes = [b \in {} |-> 0] /\ deleted = {}
    /\ misused = FALSE /\ gone = FALSE /\ span = NoSpan

\* What happens after a misuse is not the program's any more.
Usable == ~misused /\ ~gone

\* delete[] m_Data: nothing for a null pointer; the pointer keeps its value.
Delete ==
    /\ misused' = (data \in deleted)
    /\ deleted' = IF data = Null THEN deleted ELSE deleted \cup {data}
    /\ span' = NoSpan

Destroy ==
    /\ Usable /\ Delete
    /\ num' = 0
    /\ UNCHANGED <<sizeOf, data, bytes, gone>>

\* destroy(), then the new block; new may throw.
NoNew == num' = 0 /\ UNCHANGED <<data, bytes>>
New(n) ==
    \/ NoNew
    \/ /\ n > 0
       /\ \E b \in Blocks \ Allocated :
              /\ data' = b /\ num' = n
              /\ bytes' = [x \in Allocated \cup {b} |-> IF x = b THEN AllocatedBytes(n) ELSE bytes[x]]

ResizeOnly(n) ==
    /\ Usable /\ New(n)
    /\ span' = NoSpan
    /\ UNCHANGED <<sizeOf, deleted, misused, gone>>
Resize(n) ==
    /\ Usable /\ Delete /\ New(n)
    /\ UNCHANGED <<sizeOf, gone>>

\* get_array reads the byte where the array begins, and makes a pointer of its VALUE.
GetArray(i) ==
    /\ Usable
    /\ \/ data = Null /\ span' = NoSpan /\ UNCHANGED misused
       \/ /\ data # Null
          /\ misused' = (data \in deleted \/ OffsetBytes(i, 0, num) >= bytes[data])
          /\ \E v \in ByteValues : span' = [type |-> i, at |-> v, len |-> num]
    /\ UNCHANGED <<sizeOf, data, num, bytes, deleted, gone>>

Destructor ==
    /\ Usable /\ Delete
    /\ gone' = TRUE
    /\ UNCHANGED <<sizeOf, data, num, bytes>>

SoaNext ==
    \/ Destroy \/ (\E n \in Counts : Resize(n)) \/ (\E i \in Types : GetArray(i)) \/ Destructor

SoaSpec == SoaInit /\ [][SoaNext]_soaVars

-----------------------------------------------------------------------------
(* What must hold.                                                         *)

\* No block is leaked: all but the one m_Data points to are deleted, and that
\* one too when the object is gone.
NoLeak == \A b \in Allocated : b \in deleted \/ (b = data /\ ~gone)

\* Where calculate_offset_bytes puts the arrays, and what they take when nothing wraps.
FirstByte(i) == OffsetBytes(i, 0, num)
EndByte(i) == FirstByte(i) + sizeOf[i] * num
Totals ==
    LET sum[i \in 0 .. NumTypes] == IF i = 0 THEN 0 ELSE sum[i - 1] + sizeOf[i] * num
    IN  sum
TotalBytes == Totals[NumTypes]
ArraysFit ==
    \A i, j \in Types :
        /\ EndByte(i) <= bytes[data]
        /\ i < j => EndByte(i) <= FirstByte(j)
        /\ \A e \in 0 .. num - 1 : OffsetBytes(i, e, num) \in FirstByte(i) .. EndByte(i) - 1

\* calculate_allocated_bytes and calculate_offset_bytes agree: the places of the arrays lie
\* in the block and one after the other exactly if uint64_t can hold the number of bytes.
\* It says nothing of get_array, which does not return the places.
FitUnlessWrapped == num > 0 => (ArraysFit <=> TotalBytes < Modulus)

\* The block can hold its arrays: "Can hold multiple arrays" (soa.h:16).  This the code does
\* not keep: the number of bytes wraps around, and the block is short.
HoldsItsArrays == num > 0 => TotalBytes <= bytes[data]

\* What get_array returned is the array of the type it was asked for: "Stored array retrieval
\* functions" (soa.h:46).  This the code does not keep: the pointer is made of the value of
\* the first byte of the array instead of its address.
SpanInBlock ==
    span # NoSpan => span.at = data + FirstByte(span.type) /\ span.len = num

\* "Clear and deallocate memory" (soa.h:41): what destroy deallocated is
\* neither deallocated again nor read.  This the code does not keep: m_Data is left
\* as it is.
DestroyedForGood == ~(misused /\ data \in deleted)
=============================================================================
