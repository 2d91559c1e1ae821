----------------------------- MODULE BlockPools -----------------------------
(* The pools of one thread that keep free blocks or objects on a stack.  They
   differ in how they start, in what they do when the stack is empty, and in
   what they take for granted:

     fixed    pool/mem_pool.hpp            a given number of blocks, no more
     chunked  pool/mem_pool_base.hpp       grows by the size of the first chunk
     object   pool/object_alloc_pool.hpp   grows by twice the number of chunks
     array    pool/mem_pool_alloc.hpp      an Allocator; grows like chunked
     bounded  pool/object_pool.hpp         objects made singly, up to a maximum
     reuse    pool/partical_pool.hpp       objects made singly, without limit

   A block is a number.  Garbage stands for the pointer that a variable nobody
   initialised may hold.  After undefined behaviour nothing more happens. *)
EXTENDS Integers, FiniteSets, Sequences, SequencesExt

CONSTANTS Sizes,      \* what the constructors are called with
          MaxSize,    \* the maximum of the bounded pool
          MaxBlocks,  \* bound of the model
          Garbage

BlockPoolsAssumption ==
    Sizes \subseteq Nat /\ MaxSize \in Nat /\ MaxBlocks \in Nat /\ Garbage \notin Nat

VARIABLES
    kind, first,  \* which pool, and the argument of its constructor
    stack,        \* the free blocks, as they are linked
    chunks,       \* how often memory was obtained from the system
    blocks,       \* how many blocks there are
    used,         \* the blocks the program holds
    undefined     \* has something undefined happened?

vars == <<kind, first, stack, chunks, blocks, used, undefined>>

(* Mutant: the new chunk is numbered from the last block of the old one. *)
NewOverlapping(n) == [i \in 1..n |-> blocks + n - i]

(* expand(n): the new blocks are pushed one by one, so the last is on top. *)
New(n) == [i \in 1..n |-> blocks + n + 1 - i]
AtLeastOne(n) == IF n = 0 THEN 1 ELSE n

(* MemoryPool(block_size, num_blocks) links the blocks upwards; with none,
   num_blocks - 1 wraps and the loop writes past the buffer. *)
StartFixed == /\ stack = [i \in 1..first |-> i]
              /\ blocks = first
              /\ undefined = (first = 0)
StartChunked == /\ blocks = AtLeastOne(first)
                /\ stack = Reverse([i \in 1..blocks |-> i])
                /\ undefined = FALSE
(* ObjectPool(chunk_size) pushes onto a list head that it has not set. *)
StartObject == /\ blocks = AtLeastOne(first)
               /\ \E bottom \in {<<>>, <<Garbage>>} :
                      stack = Reverse([i \in 1..blocks |-> i]) \o bottom
               /\ undefined = FALSE
StartArray == /\ blocks = first
              /\ stack = Reverse([i \in 1..blocks |-> i])
              /\ undefined = FALSE
StartBounded == /\ blocks = first
                /\ stack = Reverse([i \in 1..blocks |-> i])
                /\ undefined = FALSE
StartReuse == /\ blocks = first
              /\ stack = Reverse([i \in 1..blocks |-> i])
              /\ undefined = FALSE

Init ==
    /\ kind \in {"fixed", "chunked", "object", "array", "bounded", "reuse"}
    /\ first \in Sizes
    /\ chunks = 1 /\ used = {}
    /\ CASE kind = "fixed"   -> StartFixed
         [] kind = "chunked" -> StartChunked
         [] kind = "object"  -> StartObject
         [] kind = "array"   -> StartArray
         [] kind = "bounded" -> StartBounded
         [] kind = "reuse"   -> StartReuse

(* Get n new blocks, then take the top of the stack for an array of length
   len.  It is undefined to go through a null or garbage pointer, and to write
   more than one object into a block. *)
Take(n, len) ==
    LET s == New(n) \o stack IN
    /\ ~undefined /\ blocks + n <= MaxBlocks
    /\ blocks' = blocks + n
    /\ chunks' = chunks + (IF n > 0 THEN 1 ELSE 0)
    /\ IF s = <<>> \/ Head(s) = Garbage
       THEN undefined' = TRUE /\ UNCHANGED <<stack, used>>
       ELSE /\ stack' = Tail(s)
            /\ used' = used \union {Head(s)}
            /\ undefined' = (len # 1)
    /\ UNCHANGED <<kind, first>>

(* An empty stack: bad_alloc is thrown. *)
AllocateFixed == kind = "fixed" /\ stack # <<>> /\ Take(0, 1)

(* Mutant: the pool does not grow. *)
AllocateChunkedNoExpand == kind = "chunked" /\ Take(0, 1)

AllocateChunked ==
    kind = "chunked" /\ Take(IF stack = <<>> THEN AtLeastOne(first) ELSE 0, 1)

AllocateObject ==
    kind = "object" /\ Take(IF stack = <<>> THEN AtLeastOne(2 * chunks) ELSE 0, 1)

(* allocate(len) obtains memory for every array, and hands out one block. *)
AllocateArray(len) ==
    kind = "array" /\ Take(IF stack = <<>> \/ len # 1 THEN first ELSE 0, len)

(* acquire() throws when all objects up to the maximum are in use. *)
Acquire ==
    /\ kind = "bounded"
    /\ \/ stack # <<>> /\ Take(0, 1)
       \/ stack = <<>> /\ blocks < MaxSize /\ Take(1, 1)

AcquireParticle == kind = "reuse" /\ Take(IF stack = <<>> THEN 1 ELSE 0, 1)

(* deallocate, release or the deleter of the pointer that acquire returns. *)
Deallocate(b) ==
    /\ ~undefined
    /\ b \in used
    /\ used' = used \ {b}
    /\ stack' = <<b>> \o stack
    /\ UNCHANGED <<kind, first, chunks, blocks, undefined>>

Next ==
    \/ AllocateFixed
    \/ AllocateChunked
    \/ AllocateObject
    \/ \E len \in 1..2 : AllocateArray(len)
    \/ Acquire
    \/ AcquireParticle
    \/ \E b \in used : Deallocate(b)

Spec == Init /\ [][Next]_vars
-----------------------------------------------------------------------------
TypeOK ==
    /\ first \in Sizes /\ blocks \in 0..MaxBlocks /\ chunks \in 1..(MaxBlocks + 1)
    /\ stack \in Seq(1..MaxBlocks \union {Garbage})
    /\ undefined \in BOOLEAN

(* Whatever the order of the calls and however often the pool has grown, a
   block is on the stack once or in use, never both, and none is lost; and a
   bounded pool never has more objects than its maximum (or its start). *)
BlocksUsedOnce ==
    ~undefined =>
        /\ IsInjective(stack) /\ used \intersect ToSet(stack) = {}
        /\ (used \union ToSet(stack)) \ {Garbage} = 1..blocks
        /\ kind = "bounded" => blocks <= MaxSize \/ blocks = first

(* Undefined behaviour comes from four places only: a MemoryPool of no blocks
   (mem_pool.hpp:48), an ObjectPool whose list head was not set and has been
   reached (object_alloc_pool.hpp:37 and 50), and an Allocator of chunks of no
   blocks or that is asked for an array (mem_pool_alloc.hpp:40-45). *)
UndefinedOnlyWhere ==
    undefined => \/ kind = "fixed" /\ first = 0
                 \/ kind = "object" /\ stack # <<>> /\ Head(stack) = Garbage
                 \/ kind = "array" /\ first = 0 /\ stack = <<>>
                 \/ kind = "array" /\ used # {}
=============================================================================
