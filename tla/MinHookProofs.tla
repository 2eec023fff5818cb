---------------------------- MODULE MinHookProofs ----------------------------
(* For any targets, blocks, slots, threads and failures, and any calls a       *)
(* program makes of MinHook's API: the slots are accounted for, the code bytes *)
(* are those of the table, and threads are moved out of what is overwritten.   *)
EXTENDS MCMinHook, FiniteSetTheorems, SequenceTheorems, WellFoundedInduction, TLAPS

(* The slots that hooks hold, and those of them in one block. A block counts   *)
(* them and has the others free; a list of blocks accounts for the slots held  *)
(* if they all are in it and it has no block without one.                      *)
Held == {hooks[n].tramp : n \in DOMAIN hooks}
InBlock(held, id) == {a \in held : a[1] = id}

BlockRecords == [id: Blocks, free: SUBSET Slots, used: Nat]

Counts(b, held) ==
    /\ b.used = Cardinality(InBlock(held, b.id))
    /\ b.free = Slots \ {a[2] : a \in InBlock(held, b.id)}

Accounts(list, held) ==
    /\ list \in Seq(BlockRecords)
    /\ held \in SUBSET Addresses /\ IsFiniteSet(held)
    /\ \A m, n \in DOMAIN list : list[m].id = list[n].id => m = n
    /\ \A n \in DOMAIN list : Counts(list[n], held) /\ InBlock(held, list[n].id) # {}
    /\ \A a \in held : \E n \in DOMAIN list : list[n].id = a[1]

(* The table has one entry for a target and one for a slot, and the detour of  *)
(* a target calls through the pointer its entry was created with.              *)
TableOK ==
    /\ heap \in BOOLEAN
    /\ hooks \in Seq(Entries)
    /\ original \in [Targets -> Addresses \cup {NoSlot}]
    /\ \A m, n \in DOMAIN hooks :
         hooks[m].target = hooks[n].target \/ hooks[m].tramp = hooks[n].tramp => m = n
    /\ \A n \in DOMAIN hooks : /\ hooks[n].tramp[1] \in Reach[hooks[n].target]
                               /\ original[hooks[n].target] = hooks[n].tramp

(* A target is patched as its entry says, and not at all without one.          *)
CodeOK ==
    /\ patched \in [Targets -> Addresses \cup {NoSlot}]
    /\ \A n \in DOMAIN hooks :
         patched[hooks[n].target] = IF hooks[n].enabled THEN hooks[n].tramp ELSE NoSlot
    /\ \A t \in Targets : patched[t] # NoSlot => \E n \in DOMAIN hooks : hooks[n].target = t

IInv == /\ TableOK /\ CodeOK /\ Accounts(blocks, Held)
        /\ ip \in [Threads -> Places] /\ unwritable \in BOOLEAN

(* Where a thread can be, and that its next step finds its code there.         *)
PlaceOK(p) ==
    p # Idle =>
        /\ p.at # "lost"
        /\ p.at = "target" /\ p.i = 1 => patched[p.fn] = NoSlot
        /\ p.at = "above" => p.fn \in Above /\ patched[p.fn] # NoSlot
        /\ p.at = "relay" => Live(p.slot, p.fn) /\ patched[p.fn] # NoSlot
        /\ p.at = "tramp" => Live(p.slot, p.fn)
        /\ p.at = "detour" => Live(original[p.fn], p.fn)

PlacesOK == unwritable \/ \A th \in Threads \ Shielded : PlaceOK(ip[th])

-----------------------------------------------------------------------------
(* Slots and blocks.                                                          *)
LEMMA FirstIn ==
    ASSUME NEW S \in SUBSET Nat, S # {}
    PROVE  First(S) \in S
<1>1. PICK n \in S : \A m \in S : ~(<<m, n>> \in OpToRel(<, Nat))
  BY NatLessThanWellFounded, WFMin
<1>2. ASSUME NEW m \in S PROVE n <= m
  <2>1. m \in Nat /\ n \in Nat
    OBVIOUS
  <2>2. m < n => <<m, n>> \in OpToRel(<, Nat)
    BY <2>1 DEF OpToRel
  <2>3. ~(m < n)
    BY <1>1, <2>2, Zenon
  <2> QED
    BY <2>1, <2>3
<1> QED
  BY <1>2 DEF First

LEMMA AddressParts ==
    \A a \in Addresses : a[1] \in Blocks /\ a[2] \in Slots /\ a = <<a[1], a[2]>>
BY DEF Addresses

(* What a slot taken from a block, or given back to it, makes of the count.    *)
LEMMA BlockTakes ==
    ASSUME NEW held \in SUBSET Addresses, IsFiniteSet(held),
           NEW b \in BlockRecords, Counts(b, held), NEW s \in b.free,
           NEW c \in BlockRecords, c.id = b.id, c.free = b.free \ {s}, c.used = b.used + 1
    PROVE  /\ <<b.id, s>> \notin held /\ Counts(c, held \cup {<<b.id, s>>})
           /\ InBlock(held \cup {<<b.id, s>>}, b.id) # {}
<1> DEFINE a == <<b.id, s>>
           I == InBlock(held, b.id)
<1>1. a[1] = b.id /\ a[2] = s
  OBVIOUS
<1>2. b.used = Cardinality(I) /\ b.free = Slots \ {x[2] : x \in I}
  BY DEF Counts
<1>3. \A x \in I : x[1] = b.id /\ x[2] # s
  BY <1>2 DEF InBlock
<1> HIDE DEF a
<1>4. a \notin I /\ a \notin held
  BY <1>1, <1>3 DEF InBlock
<1>5. InBlock(held \cup {a}, b.id) = I \cup {a}
  BY <1>1 DEF InBlock
<1>6. IsFiniteSet(I)
  BY FS_Subset DEF InBlock
<1> HIDE DEF I
<1>7. Cardinality(I \cup {a}) = Cardinality(I) + 1
  BY <1>4, <1>6, FS_AddElement
<1>8. {x[2] : x \in I \cup {a}} = {x[2] : x \in I} \cup {s}
  BY <1>1
<1> QED
  BY <1>2, <1>4, <1>5, <1>7, <1>8 DEF Counts, a

LEMMA BlockGives ==
    ASSUME NEW held \in SUBSET Addresses, IsFiniteSet(held),
           NEW b \in BlockRecords, Counts(b, held), NEW a \in held, a[1] = b.id
    PROVE  /\ b.used = 1 <=> InBlock(held \ {a}, b.id) = {}
           /\ \A c \in BlockRecords :
                c.id = b.id /\ c.free = b.free \cup {a[2]} /\ c.used = b.used - 1 => Counts(c, held \ {a})
<1> DEFINE I == InBlock(held, b.id)
<1>1. b.used = Cardinality(I) /\ b.free = Slots \ {x[2] : x \in I}
  BY DEF Counts
<1>2. a \in I /\ a[2] \in Slots
  BY AddressParts DEF InBlock
<1>3. InBlock(held \ {a}, b.id) = I \ {a}
  BY DEF InBlock
<1>4. IsFiniteSet(I)
  BY FS_Subset DEF InBlock
<1>5. \A x \in I : x[2] = a[2] => x = a
  BY AddressParts DEF InBlock
<1> HIDE DEF I
<1>6. Cardinality(I \ {a}) = Cardinality(I) - 1 /\ IsFiniteSet(I \ {a}) /\ Cardinality(I) \in Nat
  BY <1>2, <1>4, FS_RemoveElement, FS_CardinalityType
<1>7. Cardinality(I \ {a}) = 0 <=> I \ {a} = {}
  BY <1>6, FS_EmptySet
<1>8. b.used = 1 <=> I \ {a} = {}
  BY <1>1, <1>6, <1>7
<1>9. Slots \ {x[2] : x \in I \ {a}} = (Slots \ {x[2] : x \in I}) \cup {a[2]}
  BY <1>2, <1>5
<1> QED
  BY <1>1, <1>3, <1>6, <1>8, <1>9 DEF Counts

LEMMA Taken ==
    ASSUME NEW b \in BlockRecords, NEW s, NEW c, c = [b EXCEPT !.free = @ \ {s}, !.used = @ + 1]
    PROVE  c \in BlockRecords /\ c.id = b.id /\ c.free = b.free \ {s} /\ c.used = b.used + 1
<1> DEFINE free == b.free \ {s}
           used == b.used + 1
<1>1. free \in SUBSET Slots /\ used \in Nat
  BY DEF BlockRecords
<1>2. c = [b EXCEPT !.free = free, !.used = used]
  BY DEF BlockRecords
<1> HIDE DEF free, used
<1>3. c \in BlockRecords /\ c.id = b.id /\ c.free = free /\ c.used = used
  BY <1>1, <1>2 DEF BlockRecords
<1> QED
  BY <1>3 DEF free, used

LEMMA GivenBack ==
    ASSUME NEW b \in BlockRecords, b.used # 0, NEW s \in Slots,
           NEW c, c = [b EXCEPT !.free = @ \cup {s}, !.used = @ - 1]
    PROVE  c \in BlockRecords /\ c.id = b.id /\ c.free = b.free \cup {s} /\ c.used = b.used - 1
<1> DEFINE free == b.free \cup {s}
           used == b.used - 1
<1>1. free \in SUBSET Slots /\ used \in Nat
  BY DEF BlockRecords
<1>2. c = [b EXCEPT !.free = free, !.used = used]
  BY DEF BlockRecords
<1> HIDE DEF free, used
<1>3. c \in BlockRecords /\ c.id = b.id /\ c.free = free /\ c.used = used
  BY <1>1, <1>2 DEF BlockRecords
<1> QED
  BY <1>3 DEF free, used

LEMMA OthersKeep ==
    ASSUME NEW held, NEW a, NEW id, a[1] # id
    PROVE  InBlock(held \cup {a}, id) = InBlock(held, id) /\ InBlock(held \ {a}, id) = InBlock(held, id)
BY DEF InBlock

(* A list whose block n becomes c.                                             *)
LEMMA BlockReplaced ==
    ASSUME NEW list \in Seq(BlockRecords), NEW n \in DOMAIN list, NEW c \in BlockRecords,
           NEW l, l = [list EXCEPT ![n] = c]
    PROVE  /\ l \in Seq(BlockRecords) /\ DOMAIN l = DOMAIN list /\ l[n] = c
           /\ \A m \in DOMAIN list : m # n => l[m] = list[m]
<1>1. n \in 1..Len(list)
  BY LenProperties
<1> QED
  BY <1>1, ExceptSeq, LenProperties

LEMMA BlockRemoved ==
    ASSUME NEW list \in Seq(BlockRecords), NEW n \in DOMAIN list
    PROVE  /\ Without(list, n) \in Seq(BlockRecords)
           /\ \A m \in DOMAIN Without(list, n) :
                \E i \in DOMAIN list : i # n /\ i = (IF m < n THEN m ELSE m + 1)
                                      /\ Without(list, n)[m] = list[i]
           /\ \A i \in DOMAIN list : i # n =>
                \E m \in DOMAIN Without(list, n) : Without(list, n)[m] = list[i]
<1> DEFINE l == Without(list, n)
           N == Len(list)
           At(m) == IF m < n THEN m ELSE m + 1
<1>1. N \in Nat /\ DOMAIN list = 1..N /\ \A i \in 1..N : list[i] \in BlockRecords
  BY LenProperties
<1>2. n \in 1..N /\ N - 1 \in Nat
  BY <1>1
<1>3. DOMAIN l = 1..(N - 1) /\ \A m \in 1..(N - 1) : l[m] = list[At(m)]
  BY DEF Without
<1>4. l = [m \in 1..(N - 1) |-> l[m]]
  BY DEF Without
<1> HIDE DEF l, N
<1>5. \A m \in 1..(N - 1) : At(m) \in 1..N /\ At(m) # n
  BY <1>1, <1>2
<1>6. \A m \in 1..(N - 1) : l[m] \in BlockRecords
  BY <1>1, <1>3, <1>5
<1>7. l \in Seq(BlockRecords)
  <2>1. l \in [1..(N - 1) -> BlockRecords]
    BY <1>4, <1>6
  <2> QED
    BY <1>2, <2>1, SeqDef
<1>8. ASSUME NEW i \in 1..N, i # n PROVE \E m \in 1..(N - 1) : At(m) = i
  <2>1. CASE i < n
    <3>1. i \in 1..(N - 1) /\ At(i) = i
      BY <1>1, <1>2, <2>1
    <3> QED
      BY <3>1
  <2>2. CASE i > n
    <3>1. i - 1 \in 1..(N - 1) /\ At(i - 1) = i
      BY <1>1, <1>2, <2>2
    <3> QED
      BY <3>1
  <2> QED
    BY <1>2, <1>8, <2>1, <2>2
<1>9. \A m \in DOMAIN l : \E i \in DOMAIN list : i # n /\ i = At(m) /\ l[m] = list[i]
  BY <1>1, <1>3, <1>5
<1>10. \A i \in DOMAIN list : i # n => \E m \in DOMAIN l : l[m] = list[i]
  <2> HIDE DEF At
  <2> QED
    BY <1>1, <1>3, <1>8
<1> QED
  BY <1>7, <1>9, <1>10 DEF l

(* A slot comes back.                                                          *)
LEMMA FreeAccounts ==
    ASSUME NEW list, NEW held, Accounts(list, held), NEW a \in held
    PROVE  Accounts(FreeBuffer(list, a), held \ {a})
<1> DEFINE of == {n \in DOMAIN list : list[n].id = a[1]}
           n == First(of)
           b == list[n]
           c == [b EXCEPT !.free = @ \cup {a[2]}, !.used = @ - 1]
           rest == held \ {a}
<1>1. list \in Seq(BlockRecords) /\ held \in SUBSET Addresses /\ IsFiniteSet(held)
  BY DEF Accounts
<1>2. of # {} /\ of \in SUBSET Nat
  <2>1. DOMAIN list \subseteq Nat
    BY <1>1, LenProperties
  <2> QED
    BY <2>1 DEF Accounts
<1>3. n \in DOMAIN list /\ b.id = a[1]
  BY <1>2, FirstIn
<1>4. b \in BlockRecords /\ Counts(b, held)
  BY <1>1, <1>3, LenProperties DEF Accounts
<1>5. FreeBuffer(list, a) = IF b.used = 1 THEN Without(list, n) ELSE [list EXCEPT ![n] = c]
  BY <1>2, <1>3, <1>4 DEF FreeBuffer, BlockRecords
<1>6. rest \in SUBSET Addresses /\ IsFiniteSet(rest)
  BY <1>1, FS_RemoveElement
<1>7. b.used = 1 <=> InBlock(rest, b.id) = {}
  BY <1>1, <1>3, <1>4, BlockGives
<1>8. \A m \in DOMAIN list : m # n => /\ list[m].id # a[1]
                                       /\ Counts(list[m], rest) /\ InBlock(rest, list[m].id) # {}
  <2>1. \A m \in DOMAIN list : m # n => list[m].id # a[1]
    BY <1>3 DEF Accounts
  <2> HIDE DEF n
  <2> QED
    BY <2>1, OthersKeep DEF Accounts, Counts
<1>9. \A x \in rest : \E m \in DOMAIN list : list[m].id = x[1]
  BY DEF Accounts
<1>10. CASE b.used = 1
  <2> DEFINE l == Without(list, n)
  <2>1. /\ l \in Seq(BlockRecords)
        /\ \A m \in DOMAIN l : \E i \in DOMAIN list : /\ i # n /\ i = (IF m < n THEN m ELSE m + 1)
                                                      /\ l[m] = list[i]
        /\ \A i \in DOMAIN list : i # n => \E m \in DOMAIN l : l[m] = list[i]
    BY <1>1, <1>3, BlockRemoved
  <2>2. n \in Nat /\ DOMAIN l \subseteq Nat
    <3> HIDE DEF l, n
    <3>1. DOMAIN list = 1..Len(list) /\ DOMAIN l = 1..Len(l)
      BY <1>1, <2>1, LenProperties
    <3> QED
      BY <1>3, <3>1
  <2>3. \A x \in rest : x[1] # b.id
    BY <1>7, <1>10 DEF InBlock
  <2> HIDE DEF l, n, b, c, of, rest
  <2>4. \A m \in DOMAIN l : Counts(l[m], rest) /\ InBlock(rest, l[m].id) # {}
    BY <1>8, <2>1
  <2>5. ASSUME NEW m \in DOMAIN l, NEW k \in DOMAIN l, l[m].id = l[k].id PROVE m = k
    <3>1. PICK i \in DOMAIN list : i = (IF m < n THEN m ELSE m + 1) /\ l[m] = list[i]
      BY <2>1
    <3>2. PICK j \in DOMAIN list : j = (IF k < n THEN k ELSE k + 1) /\ l[k] = list[j]
      BY <2>1
    <3>3. i = j
      BY <2>5, <3>1, <3>2 DEF Accounts
    <3>4. m \in Nat /\ k \in Nat
      BY <2>2
    <3> QED
      BY <2>2, <3>1, <3>2, <3>3, <3>4
  <2>6. \A x \in rest : \E m \in DOMAIN l : l[m].id = x[1]
    BY <1>3, <1>9, <2>1, <2>3 DEF b
  <2>7. FreeBuffer(list, a) = l
    BY <1>5, <1>10 DEF l
  <2>8. Accounts(l, rest)
    BY <1>6, <2>1, <2>4, <2>5, <2>6 DEF Accounts
  <2> QED
    BY <2>7, <2>8 DEF rest
<1>11. CASE b.used # 1
  <2> DEFINE l == [list EXCEPT ![n] = c]
  <2>1. b.used # 0
    <3>1. IsFiniteSet(InBlock(held, b.id)) /\ InBlock(held, b.id) # {}
      BY <1>1, <1>3, FS_Subset DEF InBlock
    <3> QED
      BY <1>4, <3>1, FS_EmptySet DEF Counts
  <2>2. c \in BlockRecords /\ c.id = b.id /\ c.free = b.free \cup {a[2]} /\ c.used = b.used - 1
    <3>1. a[2] \in Slots
      BY <1>1, AddressParts
    <3> HIDE DEF b, n
    <3> QED
      BY <1>4, <2>1, <3>1, GivenBack
  <2>3. Counts(c, rest)
    BY <1>1, <1>3, <1>4, <2>2, BlockGives
  <2>4. /\ l \in Seq(BlockRecords) /\ DOMAIN l = DOMAIN list /\ l[n] = c
        /\ \A m \in DOMAIN list : m # n => l[m] = list[m]
    BY <1>1, <1>3, <2>2, BlockReplaced
  <2>5. FreeBuffer(list, a) = l
    BY <1>5, <1>11
  <2> HIDE DEF l, n, c, of, rest
  <2>6. \A m \in DOMAIN list : l[m].id = list[m].id
    BY <2>2, <2>4 DEF b
  <2>7. \A m \in DOMAIN l : Counts(l[m], rest) /\ InBlock(rest, l[m].id) # {}
    BY <1>7, <1>8, <1>11, <2>2, <2>3, <2>4
  <2>8. Accounts(l, rest)
    BY <1>6, <1>9, <2>4, <2>6, <2>7 DEF Accounts
  <2> QED
    BY <2>5, <2>8 DEF rest
<1> QED
  BY <1>10, <1>11

LEMMA BlockPutFront ==
    ASSUME NEW list \in Seq(BlockRecords), NEW c \in BlockRecords, NEW l, l = <<c>> \o list
    PROVE  /\ l \in Seq(BlockRecords) /\ 1 \in DOMAIN l /\ l[1] = c
           /\ \A m \in DOMAIN l : m # 1 => m - 1 \in DOMAIN list /\ l[m] = list[m - 1]
           /\ \A m \in DOMAIN list : m + 1 \in DOMAIN l /\ l[m + 1] = list[m]
           /\ DOMAIN l \subseteq Nat
<1> DEFINE N == Len(list)
<1>1. N \in Nat /\ DOMAIN list = 1..N
  BY LenProperties
<1>2. <<c>> \in Seq(BlockRecords) /\ Len(<<c>>) = 1 /\ <<c>>[1] = c
  OBVIOUS
<1>3. /\ l \in Seq(BlockRecords) /\ Len(l) = 1 + N
      /\ \A i \in 1..(1 + N) : l[i] = IF i <= 1 THEN c ELSE list[i - 1]
  BY <1>2, ConcatProperties
<1>4. DOMAIN l = 1..(1 + N)
  BY <1>3, LenProperties
<1> HIDE DEF N
<1> QED
  BY <1>1, <1>3, <1>4

(* A slot is taken: it is near the target and nobody's, and it is accounted    *)
(* for.                                                                        *)
LEMMA AllocateAccounts ==
    ASSUME NEW t \in Targets, NEW held, Accounts(blocks, held), NEW a \in AllocateBuffer(t)
    PROVE  /\ a.slot \in Addresses /\ a.slot[1] \in Reach[t] /\ a.slot \notin held
           /\ Accounts(a.list, held \cup {a.slot})
<1>1. blocks \in Seq(BlockRecords) /\ held \in SUBSET Addresses /\ IsFiniteSet(held)
  BY DEF Accounts
<1>2. Reach[t] \subseteq Blocks
  BY HookAssumption
<1>3. CASE Usable(t) # {}
  <2> DEFINE n == First(Usable(t))
             b == blocks[n]
             c(s) == [b EXCEPT !.free = @ \ {s}, !.used = @ + 1]
             l(s) == [blocks EXCEPT ![n].free = @ \ {s}, ![n].used = @ + 1]
             Result(s) == [list |-> l(s), slot |-> <<b.id, s>>]
  <2>1. n \in Usable(t)
    <3>1. DOMAIN blocks \subseteq Nat
      BY <1>1, LenProperties
    <3>2. Usable(t) \in SUBSET Nat
      BY <3>1 DEF Usable
    <3> QED
      BY <1>3, <3>2, FirstIn
  <2>2. n \in DOMAIN blocks /\ b.id \in Reach[t]
    BY <2>1 DEF Usable
  <2>3. PICK s \in b.free : a = Result(s)
    <3>1. AllocateBuffer(t) = {Result(s) : s \in b.free}
      BY <1>3 DEF AllocateBuffer
    <3> HIDE DEF Result, b
    <3> QED
      BY <3>1
  <2>4. a.slot = <<b.id, s>> /\ a.list = l(s)
    BY <2>3
  <2>5. b \in BlockRecords /\ Counts(b, held)
    BY <1>1, <2>2, LenProperties DEF Accounts
  <2>6. l(s) = [blocks EXCEPT ![n] = c(s)]
    BY <1>1, <2>2
  <2> DEFINE d == c(s)
             new == l(s)
             more == held \cup {a.slot}
  <2>7. d \in BlockRecords /\ d.id = b.id /\ d.free = b.free \ {s} /\ d.used = b.used + 1
    <3> HIDE DEF b
    <3> QED
      BY <2>5, Taken
  <2> HIDE DEF d, n, b
  <2>8. a.slot \notin held /\ Counts(d, more) /\ InBlock(more, b.id) # {}
    <3> DEFINE x == <<b.id, s>>
    <3>1. x \notin held /\ Counts(d, held \cup {x}) /\ InBlock(held \cup {x}, b.id) # {}
      BY <1>1, <2>3, <2>5, <2>7, BlockTakes
    <3> HIDE DEF x
    <3>2. a.slot = x
      BY <2>4 DEF x
    <3> QED
      BY <3>1, <3>2
  <2>9. a.slot \in Addresses /\ a.slot[1] = b.id
    BY <1>2, <2>2, <2>3, <2>4, <2>5 DEF Addresses, BlockRecords
  <2>10. /\ new \in Seq(BlockRecords) /\ DOMAIN new = DOMAIN blocks /\ new[n] = d
         /\ \A m \in DOMAIN blocks : m # n => new[m] = blocks[m]
    <3>1. new = [blocks EXCEPT ![n] = d]
      BY <2>6 DEF d
    <3> HIDE DEF new
    <3> QED
      BY <1>1, <2>2, <2>7, <3>1, BlockReplaced
  <2> HIDE DEF l, c, Result
  <2>11. more \in SUBSET Addresses /\ IsFiniteSet(more)
    BY <1>1, <2>9, FS_AddElement
  <2> DEFINE slot == a.slot
  <2> HIDE DEF new, slot
  <2>12. \A m \in DOMAIN blocks : new[m].id = blocks[m].id
    BY <2>7, <2>10 DEF b
  <2>13. \A m \in DOMAIN new : Counts(new[m], more) /\ InBlock(more, new[m].id) # {}
    <3>1. \A m \in DOMAIN blocks : m # n => blocks[m].id # a.slot[1]
      BY <2>2, <2>9 DEF Accounts, b
    <3>2. ASSUME NEW m \in DOMAIN blocks, m # n
          PROVE  Counts(blocks[m], more) /\ InBlock(more, blocks[m].id) # {}
      <4>1. PICK id : id = blocks[m].id
        OBVIOUS
      <4>2. id # a.slot[1]
        BY <3>1, <3>2, <4>1
      <4>3. InBlock(more, id) = InBlock(held, id)
        BY <4>2, OthersKeep
      <4> HIDE DEF more
      <4> QED
        BY <3>2, <4>1, <4>3 DEF Accounts, Counts
    <3> HIDE DEF more
    <3>3. Counts(new[n], more) /\ InBlock(more, new[n].id) # {}
      BY <2>7, <2>8, <2>10
    <3>4. \A m \in DOMAIN new : m # n => m \in DOMAIN blocks /\ new[m] = blocks[m]
      BY <2>10
    <3> QED
      BY <3>2, <3>3, <3>4
  <2>14. \A x \in more : \E m \in DOMAIN new : new[m].id = x[1]
    <3>1. new[n].id = a.slot[1] /\ n \in DOMAIN new
      BY <2>2, <2>7, <2>9, <2>10
    <3>2. \A x \in held : \E m \in DOMAIN new : new[m].id = x[1]
      BY <2>10, <2>12 DEF Accounts
    <3> QED
      BY <3>1, <3>2
  <2>15. \A m, k \in DOMAIN new : new[m].id = new[k].id => m = k
    BY <2>10, <2>12 DEF Accounts
  <2> HIDE DEF more
  <2>16. Accounts(new, more)
    BY <2>10, <2>11, <2>13, <2>14, <2>15 DEF Accounts
  <2> QED
    BY <2>2, <2>4, <2>8, <2>9, <2>16 DEF new, more
<1>4. CASE Usable(t) = {}
  <2> DEFINE c(b, s) == [id |-> b, free |-> Slots \ {s}, used |-> 1]
             Result(b, s) == [list |-> <<c(b, s)>> \o blocks, slot |-> <<b, s>>]
  <2>1. PICK b \in Fresh(t), s \in Slots : a = Result(b, s)
    <3>1. AllocateBuffer(t) = {Result(b, s) : b \in Fresh(t), s \in Slots}
      BY <1>4 DEF AllocateBuffer
    <3> HIDE DEF Result
    <3> QED
      BY <3>1
  <2>2. a.slot = <<b, s>> /\ a.list = <<c(b, s)>> \o blocks
    BY <2>1
  <2>3. b \in Reach[t] /\ b \in Blocks /\ \A m \in DOMAIN blocks : blocks[m].id # b
    BY <1>2, <2>1 DEF Fresh
  <2>4. InBlock(held, b) = {}
    BY <2>3 DEF Accounts, InBlock
  <2> DEFINE empty == [id |-> b, free |-> Slots, used |-> 0]
             d == c(b, s)
             new == a.list
             more == held \cup {a.slot}
  <2>5. empty \in BlockRecords /\ Counts(empty, held) /\ empty.id = b /\ empty.free = Slots /\ empty.used = 0
    <3>1. empty \in BlockRecords /\ empty.id = b /\ empty.free = Slots /\ empty.used = 0
      BY <2>3 DEF BlockRecords
    <3> QED
      BY <2>4, <3>1, FS_EmptySet DEF Counts
  <2>6. d \in BlockRecords /\ d.id = b /\ d.free = Slots \ {s} /\ d.used = 1
    BY <2>3 DEF BlockRecords
  <2> HIDE DEF empty, d
  <2>7. a.slot \notin held /\ Counts(d, more) /\ InBlock(more, b) # {}
    <3>1. d.used = empty.used + 1
      BY <2>5, <2>6
    <3> DEFINE x == <<empty.id, s>>
    <3>2. /\ s \in empty.free /\ d.id = empty.id /\ d.free = empty.free \ {s}
          /\ d \in BlockRecords /\ empty \in BlockRecords /\ Counts(empty, held)
      BY <2>1, <2>5, <2>6
    <3>3. x \notin held /\ Counts(d, held \cup {x}) /\ InBlock(held \cup {x}, empty.id) # {}
      BY <1>1, <3>1, <3>2, BlockTakes
    <3>4. a.slot = x
      BY <2>2, <2>5
    <3> HIDE DEF x
    <3> QED
      BY <2>5, <3>3, <3>4
  <2>8. a.slot \in Addresses /\ a.slot[1] = b
    BY <2>1, <2>2, <2>3 DEF Addresses
  <2>9. /\ new \in Seq(BlockRecords) /\ 1 \in DOMAIN new /\ new[1] = d /\ DOMAIN new \subseteq Nat
        /\ \A m \in DOMAIN new : m # 1 => m - 1 \in DOMAIN blocks /\ new[m] = blocks[m - 1]
        /\ \A m \in DOMAIN blocks : m + 1 \in DOMAIN new /\ new[m + 1] = blocks[m]
    BY <1>1, <2>2, <2>6, BlockPutFront DEF d
  <2>10. more \in SUBSET Addresses /\ IsFiniteSet(more)
    BY <1>1, <2>8, FS_AddElement
  <2> HIDE DEF new, c, Result
  <2>11. \A m \in DOMAIN blocks : Counts(blocks[m], more) /\ InBlock(more, blocks[m].id) # {}
    <3>1. ASSUME NEW m \in DOMAIN blocks PROVE InBlock(more, blocks[m].id) = InBlock(held, blocks[m].id)
      BY <2>3, <2>8, OthersKeep
    <3> HIDE DEF more
    <3> QED
      BY <3>1 DEF Accounts, Counts
  <2> HIDE DEF more
  <2>12. ASSUME NEW m \in DOMAIN new PROVE Counts(new[m], more) /\ InBlock(more, new[m].id) # {}
    <3>1. CASE m = 1
      BY <2>6, <2>7, <2>9, <3>1
    <3>2. CASE m # 1
      <4>1. m - 1 \in DOMAIN blocks /\ new[m] = blocks[m - 1]
        BY <2>9, <3>2
      <4> QED
        BY <2>11, <4>1
    <3> QED
      BY <3>1, <3>2
  <2>13. ASSUME NEW m \in DOMAIN new, NEW k \in DOMAIN new, new[m].id = new[k].id PROVE m = k
    <3>1. m \in Nat /\ k \in Nat
      BY <2>9
    <3>2. m = 1 <=> k = 1
      BY <2>3, <2>6, <2>9, <2>13
    <3>3. m # 1 => m - 1 = k - 1
      <4>1. SUFFICES ASSUME m # 1 PROVE m - 1 = k - 1
        OBVIOUS
      <4>2. /\ m - 1 \in DOMAIN blocks /\ new[m] = blocks[m - 1]
            /\ k - 1 \in DOMAIN blocks /\ new[k] = blocks[k - 1]
        BY <2>9, <3>2, <4>1
      <4>3. blocks[m - 1].id = blocks[k - 1].id
        BY <2>13, <4>2
      <4>4. \A i, j \in DOMAIN blocks : blocks[i].id = blocks[j].id => i = j
        BY DEF Accounts
      <4> QED
        BY <4>2, <4>3, <4>4
    <3> QED
      BY <3>1, <3>2, <3>3
  <2>14. \A x \in more : \E m \in DOMAIN new : new[m].id = x[1]
    <3>1. new[1].id = a.slot[1]
      BY <2>6, <2>8, <2>9
    <3>2. \A x \in held : \E m \in DOMAIN new : new[m].id = x[1]
      <4>1. \A x \in held : \E m \in DOMAIN blocks : blocks[m].id = x[1]
        BY DEF Accounts
      <4>2. ASSUME NEW m \in DOMAIN blocks PROVE m + 1 \in DOMAIN new /\ new[m + 1].id = blocks[m].id
        BY <2>9
      <4> QED
        BY <4>1, <4>2
    <3> QED
      BY <2>9, <3>1, <3>2 DEF more
  <2>15. Accounts(new, more)
    BY <2>9, <2>10, <2>12, <2>13, <2>14 DEF Accounts
  <2> QED
    BY <2>3, <2>7, <2>8, <2>15 DEF new, more
<1> QED
  BY <1>3, <1>4

-----------------------------------------------------------------------------
(* The table and the code bytes.                                              *)
LEMMA EntriesAre ==
    ASSUME TableOK
    PROVE  /\ Len(hooks) \in Nat /\ DOMAIN hooks = 1..Len(hooks)
           /\ \A n \in DOMAIN hooks :
                /\ hooks[n] \in Entries /\ hooks[n].target \in Targets /\ hooks[n].tramp \in Addresses
                /\ hooks[n].tramp # NoSlot /\ hooks[n].enabled \in BOOLEAN
<1>1. \A a \in Addresses : a # NoSlot
  BY DEF Addresses, NoSlot
<1>2. Len(hooks) \in Nat /\ DOMAIN hooks = 1..Len(hooks) /\ \A n \in DOMAIN hooks : hooks[n] \in Entries
  BY LenProperties DEF TableOK
<1> QED
  BY <1>1, <1>2 DEF Entries

(* Entries keep their targets and trampolines.                                 *)
SameEntries ==
    /\ hooks' \in Seq(Entries)
    /\ DOMAIN hooks' = DOMAIN hooks
    /\ \A n \in DOMAIN hooks : /\ hooks'[n].target = hooks[n].target
                               /\ hooks'[n].tramp = hooks[n].tramp

LEMMA Unwritten ==
    ASSUME IInv, UNCHANGED <<hooks, patched>>
    PROVE  SameEntries /\ CodeOK'
BY DEF IInv, TableOK, SameEntries, CodeOK

LEMMA LiveStays ==
    ASSUME SameEntries
    PROVE  \A slot, t : Live(slot, t)' <=> Live(slot, t)
BY DEF SameEntries, Live

LEMMA SameKept ==
    ASSUME IInv, SameEntries, CodeOK', heap' \in BOOLEAN, UNCHANGED <<blocks, original>>,
           ip' \in [Threads -> Places], unwritable' \in BOOLEAN
    PROVE  IInv'
<1>1. Held' = Held
  BY DEF Held, SameEntries
<1>2. TableOK'
  BY DEF IInv, TableOK, SameEntries
<1>3. Accounts(blocks', Held')
  BY <1>1 DEF IInv
<1> QED
  BY <1>2, <1>3 DEF IInv

(* EnableHookLL writes the bytes of its entries and sets their flags.          *)
LEMMA Written ==
    ASSUME IInv, NEW done \in SUBSET DOMAIN hooks, NEW wants, \A n \in done : wants[n] \in BOOLEAN,
           EnableHookLL(done, wants)
    PROVE  /\ SameEntries /\ CodeOK'
           /\ \A t \in Targets :
                \/ patched'[t] = patched[t]
                \/ \E n \in done : /\ hooks[n].target = t
                                   /\ patched'[t] = IF wants[n] THEN hooks[n].tramp ELSE NoSlot
<1>1. /\ Len(hooks) \in Nat /\ DOMAIN hooks = 1..Len(hooks)
      /\ \A n \in DOMAIN hooks :
           /\ hooks[n] \in Entries /\ hooks[n].target \in Targets /\ hooks[n].tramp \in Addresses
           /\ hooks[n].tramp # NoSlot /\ hooks[n].enabled \in BOOLEAN
  BY EntriesAre DEF IInv
<1>2. \A m, n \in DOMAIN hooks : hooks[m].target = hooks[n].target => m = n
  BY DEF IInv, TableOK
<1>3. /\ DOMAIN hooks' = DOMAIN hooks
      /\ hooks' = [n \in 1..Len(hooks) |-> hooks'[n]]
      /\ \A n \in DOMAIN hooks :
           hooks'[n] = IF n \in done THEN [hooks[n] EXCEPT !.enabled = wants[n], !.queued = wants[n]]
                       ELSE hooks[n]
  BY <1>1 DEF EnableHookLL
<1>4. ASSUME NEW n \in DOMAIN hooks
      PROVE  /\ hooks'[n].target = hooks[n].target /\ hooks'[n].tramp = hooks[n].tramp
             /\ hooks'[n].enabled = (IF n \in done THEN wants[n] ELSE hooks[n].enabled)
             /\ hooks'[n] \in Entries
  <2>1. CASE n \in done
    BY <1>1, <1>3, <2>1 DEF Entries
  <2>2. CASE n \notin done
    BY <1>1, <1>3, <2>2 DEF Entries
  <2> QED
    BY <2>1, <2>2
<1>5. hooks' \in Seq(Entries)
  <2>1. hooks' \in [1..Len(hooks) -> Entries]
    BY <1>1, <1>3, <1>4
  <2> QED
    BY <1>1, <2>1, SeqDef
<1>6. SameEntries
  BY <1>3, <1>4, <1>5 DEF SameEntries
<1>7. /\ patched' = [t \in Targets |-> patched'[t]]
      /\ \A t \in Targets : (\A n \in done : hooks[n].target # t) => patched'[t] = patched[t]
  BY DEF EnableHookLL
<1>8. ASSUME NEW n \in done
      PROVE  patched'[hooks[n].target] = IF wants[n] THEN hooks[n].tramp ELSE NoSlot
  <2>1. (CHOOSE m \in done : hooks[m].target = hooks[n].target) = n
    BY <1>2
  <2> QED
    BY <1>1, <2>1 DEF EnableHookLL
<1>9. \A t \in Targets : \/ patched'[t] = patched[t]
                        \/ \E n \in done : /\ hooks[n].target = t
                                           /\ patched'[t] = IF wants[n] THEN hooks[n].tramp ELSE NoSlot
  BY <1>7, <1>8
<1>10. patched' \in [Targets -> Addresses \cup {NoSlot}]
  <2>1. patched \in [Targets -> Addresses \cup {NoSlot}]
    BY DEF IInv, CodeOK
  <2>2. \A t \in Targets : patched'[t] \in Addresses \cup {NoSlot}
    BY <1>1, <1>9, <2>1
  <2> QED
    BY <1>7, <2>2
<1>11. ASSUME NEW n \in DOMAIN hooks
       PROVE  patched'[hooks[n].target] = IF hooks'[n].enabled THEN hooks[n].tramp ELSE NoSlot
  <2>1. CASE n \in done
    BY <1>4, <1>8, <2>1
  <2>2. CASE n \notin done
    <3>1. patched'[hooks[n].target] = patched[hooks[n].target]
      BY <1>1, <1>2, <1>7, <2>2
    <3> QED
      BY <1>4, <2>2, <3>1 DEF IInv, CodeOK
  <2> QED
    BY <2>1, <2>2
<1>12. \A t \in Targets : patched'[t] # NoSlot => \E n \in DOMAIN hooks : hooks[n].target = t
  BY <1>9 DEF IInv, CodeOK
<1>13. CodeOK'
  BY <1>4, <1>6, <1>10, <1>11, <1>12 DEF CodeOK, SameEntries
<1> QED
  BY <1>6, <1>9, <1>13

-----------------------------------------------------------------------------
(* Moving threads.                                                            *)
Ats == {"target", "above", "relay", "tramp", "detour", "after", "lost", "null"}

LEMMA PlaceParts ==
    ASSUME NEW p \in Places, p # Idle
    PROVE  /\ p = Place(p.at, p.fn, p.i, p.slot, p.ret)
           /\ p.at \in Ats /\ p.fn \in Targets /\ p.i \in {0, 1}
           /\ p.slot \in Addresses \cup {NoSlot} /\ p.ret \in {"program", "detour"}
BY DEF Places, Place, Ats

LEMMA PlaceIs ==
    ASSUME NEW at \in Ats, NEW fn \in Targets, NEW i \in {0, 1}, NEW slot \in Addresses \cup {NoSlot},
           NEW ret \in {"program", "detour"}, NEW p, p = Place(at, fn, i, slot, ret)
    PROVE  /\ p \in Places /\ p # Idle
           /\ p.at = at /\ p.fn = fn /\ p.i = i /\ p.slot = slot /\ p.ret = ret
BY DEF Places, Place, Ats, Idle

LEMMA Changed ==
    ASSUME NEW p, p = Place(p.at, p.fn, p.i, p.slot, p.ret), NEW at, NEW slot,
           NEW q, q = [p EXCEPT !.at = at, !.slot = slot]
    PROVE  q = Place(at, p.fn, p.i, slot, p.ret)
BY DEF Place

(* Where FindOldIP and FindNewIP lead, whatever the place.                     *)
LEMMA Leads ==
    ASSUME NEW e, NEW p \in Places, p # Idle
    PROVE  /\ FindNewIP(e, p) = IF p.at = "target" /\ p.fn = e.target
                                THEN Place("tramp", p.fn, p.i, e.tramp, p.ret) ELSE p
           /\ FindOldIP(e, p) =
                IF p.at = "above" /\ p.fn = e.target /\ e.target \in Above
                THEN Place("target", p.fn, p.i, p.slot, p.ret)
                ELSE IF p.at \in {"tramp", "relay"} /\ p.slot = e.tramp
                     THEN Place("target", p.fn, p.i, NoSlot, p.ret) ELSE p
<1>1. p = Place(p.at, p.fn, p.i, p.slot, p.ret)
  BY PlaceParts
<1>2. [p EXCEPT !.at = "tramp", !.slot = e.tramp] = Place("tramp", p.fn, p.i, e.tramp, p.ret)
  BY <1>1, Changed
<1>3. [p EXCEPT !.at = "target"] = Place("target", p.fn, p.i, p.slot, p.ret)
  BY <1>1 DEF Place
<1>4. [p EXCEPT !.at = "target", !.slot = NoSlot] = Place("target", p.fn, p.i, NoSlot, p.ret)
  BY <1>1, Changed
<1> QED
  BY <1>2, <1>3, <1>4 DEF FindNewIP, FindOldIP

(* ProcessThreadIPs leads where one of its entries leads, if one does.         *)
LEMMA Processed ==
    ASSUME NEW p, NEW which, NEW wants
    PROVE  LET todo == {n \in which : hooks[n].enabled # wants[n]}
               To(n) == IF wants[n] THEN FindNewIP(hooks[n], p) ELSE FindOldIP(hooks[n], p)
               q == ProcessThreadIPs(p, which, wants)
           IN  \/ q = p /\ (p = Idle \/ \A n \in todo : To(n) = p)
               \/ p # Idle /\ \E n \in todo : q = To(n) /\ To(n) # p
<1> DEFINE todo == {n \in which : hooks[n].enabled # wants[n]}
           To(n) == IF wants[n] THEN FindNewIP(hooks[n], p) ELSE FindOldIP(hooks[n], p)
           c == CHOOSE n \in todo : To(n) # p
<1>1. ProcessThreadIPs(p, which, wants) = IF p # Idle /\ \E n \in todo : To(n) # p THEN To(c) ELSE p
  BY DEF ProcessThreadIPs
<1> HIDE DEF To, todo
<1>2. (\E n \in todo : To(n) # p) => c \in todo /\ To(c) # p
  OBVIOUS
<1> HIDE DEF c
<1>3. LET q == ProcessThreadIPs(p, which, wants)
      IN  \/ q = p /\ (p = Idle \/ \A n \in todo : To(n) = p)
          \/ p # Idle /\ \E n \in todo : q = To(n) /\ To(n) # p
  BY <1>1, <1>2
<1> QED
  BY <1>3 DEF todo, To

LEMMA MovedType ==
    ASSUME TableOK, NEW p \in Places, NEW which \in SUBSET DOMAIN hooks, NEW wants
    PROVE  ProcessThreadIPs(p, which, wants) \in Places
<1> DEFINE q == ProcessThreadIPs(p, which, wants)
<1>1. CASE q = p
  BY <1>1
<1>2. CASE p # Idle /\ \E n \in which : q \in {FindNewIP(hooks[n], p), FindOldIP(hooks[n], p)}
  <2>1. PICK n \in which : q \in {FindNewIP(hooks[n], p), FindOldIP(hooks[n], p)}
    BY <1>2
  <2>2. /\ p.fn \in Targets /\ p.i \in {0, 1} /\ p.slot \in Addresses \cup {NoSlot}
        /\ p.ret \in {"program", "detour"}
    BY <1>2, PlaceParts
  <2>3. hooks[n].tramp \in Addresses
    BY EntriesAre
  <2> HIDE DEF q
  <2>4. \/ q = p \/ q = Place("tramp", p.fn, p.i, hooks[n].tramp, p.ret)
        \/ q = Place("target", p.fn, p.i, p.slot, p.ret) \/ q = Place("target", p.fn, p.i, NoSlot, p.ret)
    BY <1>2, <2>1, Leads
  <2>5. "tramp" \in Ats /\ "target" \in Ats
    BY DEF Ats
  <2>6. \A at \in {"tramp", "target"}, slot \in Addresses \cup {NoSlot} :
          Place(at, p.fn, p.i, slot, p.ret) \in Places
    BY <2>2, <2>5, PlaceIs
  <2>7. /\ Place("tramp", p.fn, p.i, hooks[n].tramp, p.ret) \in Places
        /\ Place("target", p.fn, p.i, p.slot, p.ret) \in Places
        /\ Place("target", p.fn, p.i, NoSlot, p.ret) \in Places
    BY <2>2, <2>3, <2>6
  <2> QED
    BY <2>4, <2>7 DEF q
<1>3. q = p \/ (p # Idle /\ \E n \in which : q \in {FindNewIP(hooks[n], p), FindOldIP(hooks[n], p)})
  BY Processed
<1> QED
  BY <1>1, <1>2, <1>3

LEMMA FrozenType ==
    ASSUME IInv, NEW which \in SUBSET DOMAIN hooks, NEW wants, Freeze(which, wants)
    PROVE  ip' \in [Threads -> Places]
BY MovedType DEF IInv, Freeze

(* A thread at a place that the invariant allows is moved by the entry of its  *)
(* function only: into the trampoline if the entry is to be enabled, and out   *)
(* of it, its relay or the jump above if it is to be disabled.                 *)
Into(p, n, q) == p.at = "target" /\ q = Place("tramp", p.fn, p.i, hooks[n].tramp, p.ret)
OutOf(p, q) ==
    /\ p.at \in {"above", "relay", "tramp"}
    /\ \E slot \in {p.slot, NoSlot} : q = Place("target", p.fn, p.i, slot, p.ret)

LEMMA MovedTo ==
    ASSUME TableOK, NEW p \in Places, p # Idle, PlaceOK(p), NEW which \in SUBSET DOMAIN hooks, NEW wants,
           NEW q, q = ProcessThreadIPs(p, which, wants)
    PROVE  \/ /\ q = p
              /\ \A n \in which : hooks[n].target = p.fn /\ hooks[n].enabled # wants[n] =>
                   IF wants[n] THEN p.at # "target" ELSE p.at \notin {"above", "relay", "tramp"}
           \/ \E n \in which : /\ hooks[n].target = p.fn /\ hooks[n].enabled # wants[n]
                               /\ IF wants[n] THEN Into(p, n, q) ELSE OutOf(p, q)
<1> DEFINE todo == {n \in which : hooks[n].enabled # wants[n]}
           New(n) == FindNewIP(hooks[n], p)
           Old(n) == FindOldIP(hooks[n], p)
           To(n) == IF wants[n] THEN New(n) ELSE Old(n)
<1>1. \A n \in which : New(n) # p => hooks[n].target = p.fn /\ Into(p, n, New(n))
  BY Leads DEF Into
<1>2. \A n \in which : hooks[n].target = p.fn /\ p.at = "target" => New(n) # p
  <2>1. \A n \in which : hooks[n].target = p.fn /\ p.at = "target" => New(n).at = "tramp"
    BY Leads DEF Place
  <2> HIDE DEF New
  <2> QED
    BY <2>1
<1>3. \A n \in which : Old(n) # p => OutOf(p, Old(n))
  BY Leads DEF OutOf
<1>4. \A n \in which : Old(n) # p => hooks[n].target = p.fn
  <2>1. SUFFICES ASSUME NEW n \in which, Old(n) # p PROVE hooks[n].target = p.fn
    OBVIOUS
  <2>2. \/ p.at = "above" /\ p.fn = hooks[n].target
        \/ p.at \in {"tramp", "relay"} /\ p.slot = hooks[n].tramp
    BY <2>1, Leads
  <2>3. p.at \in {"tramp", "relay"} => Live(p.slot, p.fn)
    BY DEF PlaceOK
  <2> HIDE DEF Old
  <2> QED
    BY <2>2, <2>3 DEF Live, TableOK
<1>5. \A n \in which : hooks[n].target = p.fn /\ p.at \in {"above", "relay", "tramp"} => Old(n) # p
  <2>1. SUFFICES ASSUME NEW n \in which, hooks[n].target = p.fn, p.at \in {"above", "relay", "tramp"}
                 PROVE  Old(n) # p
    OBVIOUS
  <2>2. p.at \in {"tramp", "relay"} => p.slot = hooks[n].tramp
    BY <2>1 DEF PlaceOK, Live, TableOK
  <2>3. p.at = "above" => p.fn \in Above
    BY DEF PlaceOK
  <2>4. \E slot : Old(n) = Place("target", p.fn, p.i, slot, p.ret)
    BY <2>1, <2>2, <2>3, Leads
  <2>5. Old(n).at = "target"
    BY <2>4 DEF Place
  <2> HIDE DEF Old
  <2> QED
    BY <2>1, <2>5
<1>6. \/ q = p /\ \A n \in todo : To(n) = p
      \/ \E n \in todo : q = To(n) /\ To(n) # p
  BY Processed
<1> HIDE DEF New, Old
<1>7. CASE q = p /\ \A n \in todo : To(n) = p
  BY <1>2, <1>5, <1>7
<1>8. ASSUME NEW n \in todo, q = To(n), To(n) # p
      PROVE  /\ hooks[n].target = p.fn /\ hooks[n].enabled # wants[n]
             /\ IF wants[n] THEN Into(p, n, q) ELSE OutOf(p, q)
  BY <1>1, <1>3, <1>4, <1>8
<1> QED
  BY <1>6, <1>7, <1>8

(* All the entries that are not as wanted are rewritten, and the threads were  *)
(* moved for that.                                                             *)
LEMMA PlaceRewritten ==
    ASSUME IInv, NEW which \in SUBSET DOMAIN hooks, NEW wants, NEW done,
           done = {n \in which : hooks[n].enabled # wants[n]}, \A n \in done : wants[n] \in BOOLEAN,
           EnableHookLL(done, wants), UNCHANGED original,
           NEW p \in Places, PlaceOK(p), NEW q, q = ProcessThreadIPs(p, which, wants)
    PROVE  PlaceOK(q)'
<1>1. /\ SameEntries
      /\ \A t \in Targets :
           \/ patched'[t] = patched[t]
           \/ \E n \in done : /\ hooks[n].target = t
                              /\ patched'[t] = IF wants[n] THEN hooks[n].tramp ELSE NoSlot
  BY Written
<1>2. \A slot, t : Live(slot, t)' <=> Live(slot, t)
  BY <1>1, LiveStays
<1>3. /\ TableOK
      /\ \A n \in which : n \in DOMAIN hooks /\ hooks[n].tramp # NoSlot /\ hooks[n].tramp \in Addresses
  BY EntriesAre DEF IInv
<1>4. \A n \in done : patched'[hooks[n].target] = IF wants[n] THEN hooks[n].tramp ELSE NoSlot
  <2>1. \A n \in done : patched[hooks[n].target] = IF wants[n] THEN NoSlot ELSE hooks[n].tramp
    BY EntriesAre DEF IInv, CodeOK
  <2>2. \A m, n \in done : hooks[m].target = hooks[n].target => m = n
    BY <1>3 DEF TableOK
  <2>3. \A n \in done : (CHOOSE m \in done : hooks[m].target = hooks[n].target) = n
    BY <2>2
  <2>4. \A n \in done : hooks[n].target \in Targets
    BY <1>3, EntriesAre
  <2>5. ASSUME NEW t \in Targets, \E n \in done : hooks[n].target = t
        PROVE  LET n == CHOOSE n \in done : hooks[n].target = t
               IN  patched'[t] = IF wants[n] THEN hooks[n].tramp ELSE NoSlot
    BY <2>5 DEF EnableHookLL
  <2> QED
    BY <2>3, <2>4, <2>5
<1>5. CASE p = Idle
  <2>1. q = Idle
    BY <1>5 DEF ProcessThreadIPs
  <2> QED
    BY <2>1 DEF PlaceOK
<1>6. CASE p # Idle
  <2>1. p.fn \in Targets /\ p.i \in {0, 1} /\ p.ret \in {"program", "detour"}
        /\ p.slot \in Addresses \cup {NoSlot} /\ "tramp" \in Ats /\ "target" \in Ats
    BY <1>6, PlaceParts DEF Ats
  <2>2. CASE /\ q = p
             /\ \A n \in which : hooks[n].target = p.fn /\ hooks[n].enabled # wants[n] =>
                  IF wants[n] THEN p.at # "target" ELSE p.at \notin {"above", "relay", "tramp"}
    <3>1. \/ patched'[p.fn] = patched[p.fn]
          \/ p.at # "target" /\ patched'[p.fn] # NoSlot
          \/ p.at \notin {"above", "relay", "tramp"} /\ patched'[p.fn] = NoSlot
      BY <1>1, <1>3, <2>1, <2>2
    <3> QED
      BY <1>2, <1>6, <2>2, <3>1 DEF PlaceOK
  <2>3. ASSUME NEW n \in which, hooks[n].target = p.fn, hooks[n].enabled # wants[n],
               IF wants[n] THEN Into(p, n, q) ELSE OutOf(p, q)
        PROVE  PlaceOK(q)'
    <3>1. CASE wants[n]
      <4>1. q = Place("tramp", p.fn, p.i, hooks[n].tramp, p.ret)
        BY <2>3, <3>1 DEF Into
      <4>2. q.at = "tramp" /\ q.fn = p.fn /\ q.slot = hooks[n].tramp
        BY <1>3, <2>1, <4>1, PlaceIs
      <4>3. Live(q.slot, q.fn)
        BY <1>3, <2>3, <4>2 DEF Live
      <4> QED
        BY <1>2, <4>2, <4>3 DEF PlaceOK
    <3>2. CASE ~wants[n]
      <4>1. PICK slot \in {p.slot, NoSlot} : q = Place("target", p.fn, p.i, slot, p.ret)
        BY <2>3, <3>2 DEF OutOf
      <4>2. q.at = "target" /\ q.fn = p.fn
        BY <2>1, <4>1, PlaceIs
      <4>3. patched'[p.fn] = NoSlot
        BY <1>4, <2>3, <3>2
      <4> QED
        BY <4>2, <4>3 DEF PlaceOK
    <3> QED
      BY <3>1, <3>2
  <2> QED
    BY <1>3, <1>6, <2>2, <2>3, MovedTo
<1> QED
  BY <1>5, <1>6

-----------------------------------------------------------------------------
(* The calls. Each keeps the table and the code bytes; it keeps the places if  *)
(* every page could be written.                                                *)
Fails(st) == unwritable' = (unwritable \/ st = "MEMORY_PROTECT")

LEMMA FailsType ==
    ASSUME IInv, NEW st, Fails(st)
    PROVE  unwritable' \in BOOLEAN /\ (unwritable => unwritable')
BY DEF IInv, Fails

LEMMA NothingMoved ==
    ASSUME IInv, NEW st, Fails(st), SameEntries, heap' \in BOOLEAN, CodeOK',
           UNCHANGED <<blocks, patched, ip, original>>
    PROVE  IInv' /\ (PlacesOK => PlacesOK')
<1>1. IInv'
  BY SameKept, FailsType DEF IInv
<1>2. \A slot, t : Live(slot, t)' <=> Live(slot, t)
  BY LiveStays
<1>3. ASSUME NEW th \in Threads, PlaceOK(ip[th]) PROVE PlaceOK(ip[th])'
  BY <1>2, <1>3 DEF PlaceOK
<1> QED
  BY <1>1, <1>3, FailsType DEF PlacesOK

LEMMA Unchanging ==
    ASSUME IInv, NEW st, Fails(st), UNCHANGED <<hookVars, original>>
    PROVE  IInv' /\ (PlacesOK => PlacesOK')
BY NothingMoved, Unwritten DEF hookVars, IInv, TableOK

(* Threads are moved, and not all the pages can be written.                    *)
LEMMA WrittenInPart ==
    ASSUME IInv, Fails("MEMORY_PROTECT"), SameEntries, heap' \in BOOLEAN, CodeOK',
           UNCHANGED <<blocks, original>>,
           NEW which \in SUBSET DOMAIN hooks, NEW wants, Freeze(which, wants)
    PROVE  IInv' /\ PlacesOK'
BY SameKept, FrozenType, FailsType DEF Fails, PlacesOK

LEMMA Rewritten ==
    ASSUME IInv, NEW st, Fails(st), heap' \in BOOLEAN, UNCHANGED <<blocks, original>>,
           NEW which \in SUBSET DOMAIN hooks, NEW wants, NEW done,
           done = {n \in which : hooks[n].enabled # wants[n]}, \A n \in done : wants[n] \in BOOLEAN,
           Freeze(which, wants), EnableHookLL(done, wants)
    PROVE  IInv' /\ (PlacesOK => PlacesOK')
<1>1. done \in SUBSET DOMAIN hooks
  OBVIOUS
<1>2. SameEntries /\ CodeOK'
  BY <1>1, Written
<1>3. IInv'
  BY <1>2, SameKept, FrozenType, FailsType
<1>4. ASSUME NEW th \in Threads \ Shielded, PlaceOK(ip[th]) PROVE PlaceOK(ip[th])'
  <2>1. ip[th] \in Places /\ ip'[th] = ProcessThreadIPs(ip[th], which, wants)
    BY DEF IInv, Freeze
  <2>2. PICK q : q = ip'[th]
    OBVIOUS
  <2>3. PICK p : p = ip[th]
    OBVIOUS
  <2>4. PlaceOK(q)'
    BY <1>4, <2>1, <2>2, <2>3, PlaceRewritten
  <2> QED
    BY <2>2, <2>4
<1> QED
  BY <1>3, <1>4, FailsType DEF PlacesOK

(* The loop over all the entries.                                              *)
LEMMA WriteAllKeeps ==
    ASSUME IInv, NEW st, Fails(st), heap' \in BOOLEAN, UNCHANGED <<blocks, original>>,
           NEW wants, \A n \in DOMAIN hooks : wants[n] \in BOOLEAN, WriteAll(wants, st)
    PROVE  IInv' /\ (PlacesOK => PlacesOK')
<1> DEFINE todo == {n \in DOMAIN hooks : hooks[n].enabled # wants[n]}
<1>1. CASE UNCHANGED <<hooks, patched, ip>>
  BY <1>1, Unwritten, NothingMoved
<1>2. CASE Freeze(DOMAIN hooks, wants) /\ EnableHookLL(todo, wants)
  BY <1>2, Rewritten
<1>3. CASE /\ Freeze(DOMAIN hooks, wants) /\ st = "MEMORY_PROTECT"
           /\ \E last \in todo : EnableHookLL({n \in todo : n < last}, wants)
  <2>1. PICK done \in SUBSET DOMAIN hooks : EnableHookLL(done, wants)
    BY <1>3
  <2>2. SameEntries /\ CodeOK'
    BY <2>1, Written
  <2> QED
    BY <1>3, <2>2, WrittenInPart
<1> QED
  BY <1>1, <1>2, <1>3 DEF WriteAll

LEMMA WriteOneKeeps ==
    ASSUME IInv, NEW st, Fails(st), heap' \in BOOLEAN, UNCHANGED <<blocks, original>>,
           NEW n \in DOMAIN hooks, NEW action \in BOOLEAN, NEW enable \in BOOLEAN,
           hooks[n].enabled # enable, WriteOne(n, action, enable, st)
    PROVE  IInv' /\ (action = enable /\ PlacesOK => PlacesOK')
<1> DEFINE moves == [m \in {n} |-> action]
           wants == [m \in {n} |-> enable]
<1>1. CASE UNCHANGED <<hooks, patched, ip>>
  BY <1>1, Unwritten, NothingMoved
<1>2. CASE Freeze({n}, moves) /\ st = "MEMORY_PROTECT" /\ UNCHANGED <<hooks, patched>>
  BY <1>2, Unwritten, WrittenInPart
<1>3. CASE Freeze({n}, moves) /\ EnableHookLL({n}, wants)
  <2>1. {n} \in SUBSET DOMAIN hooks /\ wants[n] = enable /\ \A m \in {n} : wants[m] \in BOOLEAN
    OBVIOUS
  <2>2. IInv'
    <3>1. SameEntries /\ CodeOK'
      BY <1>3, <2>1, Written
    <3>2. ip' \in [Threads -> Places]
      BY <1>3, <2>1, FrozenType
    <3> QED
      BY <3>1, <3>2, SameKept, FailsType
  <2>3. CASE action = enable
    <3>1. {n} = {m \in {n} : hooks[m].enabled # wants[m]}
      BY <2>1
    <3>2. moves = wants
      BY <2>3
    <3> HIDE DEF moves, wants
    <3> QED
      BY <1>3, <2>1, <2>2, <3>1, <3>2, Rewritten
  <2> QED
    BY <2>2, <2>3
<1> QED
  BY <1>1, <1>2, <1>3 DEF WriteOne

(* A hook is created.                                                          *)
LEMMA EntryAdded ==
    ASSUME TableOK, NEW e \in Entries, hooks' = Append(hooks, e)
    PROVE  /\ hooks' \in Seq(Entries) /\ DOMAIN hooks' = DOMAIN hooks \cup {Len(hooks) + 1}
           /\ Len(hooks) + 1 \notin DOMAIN hooks /\ hooks'[Len(hooks) + 1] = e
           /\ \A n \in DOMAIN hooks : hooks'[n] = hooks[n]
<1> DEFINE N == Len(hooks)
<1>1. N \in Nat /\ DOMAIN hooks = 1..N
  BY EntriesAre
<1>2. hooks' \in Seq(Entries) /\ Len(hooks') = N + 1
  BY AppendProperties DEF TableOK
<1>3. /\ hooks'[N + 1] = e /\ \A n \in 1..N : hooks'[n] = hooks[n]
  BY AppendProperties DEF TableOK
<1>4. DOMAIN hooks' = 1..(N + 1)
  BY <1>2, LenProperties
<1> HIDE DEF N
<1>5. 1..(N + 1) = (1..N) \cup {N + 1} /\ N + 1 \notin 1..N
  BY <1>1
<1> QED
  BY <1>1, <1>2, <1>3, <1>4, <1>5 DEF N

LEMMA HookCreated ==
    ASSUME IInv, NEW t \in Targets, NEW a \in AllocateBuffer(t), FindHookEntry(t) = {}, NEW e,
           e = [target |-> t, tramp |-> a.slot, enabled |-> FALSE, queued |-> FALSE],
           hooks' = Append(hooks, e), blocks' = a.list, original' = [original EXCEPT ![t] = a.slot],
           UNCHANGED <<heap, patched, ip>>, unwritable' \in BOOLEAN, unwritable => unwritable'
    PROVE  IInv' /\ (PlacesOK => PlacesOK')
<1> DEFINE L == Len(hooks) + 1
<1>1. /\ a.slot \in Addresses /\ a.slot[1] \in Reach[t] /\ a.slot \notin Held
      /\ Accounts(a.list, Held \cup {a.slot})
  BY AllocateAccounts DEF IInv
<1>2. e \in Entries /\ e.target = t /\ e.tramp = a.slot /\ e.enabled = FALSE
  BY <1>1 DEF Entries
<1>3. /\ hooks' \in Seq(Entries) /\ DOMAIN hooks' = DOMAIN hooks \cup {L} /\ L \notin DOMAIN hooks
      /\ hooks'[L] = e /\ \A n \in DOMAIN hooks : hooks'[n] = hooks[n]
  BY <1>2, EntryAdded DEF IInv
<1> HIDE DEF L
<1>4. Accounts(blocks', Held')
  <2>1. Held' = Held \cup {a.slot}
    BY <1>2, <1>3 DEF Held
  <2> QED
    BY <1>1, <2>1
<1>5. \A n \in DOMAIN hooks : hooks[n].target # t /\ hooks[n].tramp # a.slot /\ hooks[n].target \in Targets
  BY <1>1, EntriesAre DEF FindHookEntry, Held, IInv
<1>6. /\ original' \in [Targets -> Addresses \cup {NoSlot}] /\ original'[t] = a.slot
      /\ \A x \in Targets : x # t => original'[x] = original[x]
  BY <1>1 DEF IInv, TableOK
<1>7. TableOK'
  <2>1. \A m, n \in DOMAIN hooks' :
          hooks'[m].target = hooks'[n].target \/ hooks'[m].tramp = hooks'[n].tramp => m = n
    BY <1>2, <1>3, <1>5 DEF IInv, TableOK
  <2>2. \A n \in DOMAIN hooks' : /\ hooks'[n].tramp[1] \in Reach[hooks'[n].target]
                                /\ original'[hooks'[n].target] = hooks'[n].tramp
    BY <1>1, <1>2, <1>3, <1>5, <1>6 DEF IInv, TableOK
  <2> QED
    BY <1>3, <1>6, <2>1, <2>2 DEF IInv, TableOK
<1>8. CodeOK'
  <2>1. patched[t] = NoSlot
    BY <1>5 DEF IInv, CodeOK
  <2> QED
    BY <1>2, <1>3, <2>1 DEF IInv, CodeOK
<1>9. IInv'
  BY <1>4, <1>7, <1>8 DEF IInv
<1>10. \A slot, x : Live(slot, x) => Live(slot, x)' /\ x # t
  BY <1>3, <1>5 DEF Live
<1>11. ASSUME NEW th \in Threads, PlaceOK(ip[th]) PROVE PlaceOK(ip[th])'
  <2>1. ip[th] # Idle => ip[th].fn \in Targets
    BY PlaceParts DEF IInv
  <2> QED
    BY <1>6, <1>10, <1>11, <2>1 DEF PlaceOK
<1> QED
  BY <1>9, <1>11 DEF PlacesOK

LEMMA CreateKeeps ==
    ASSUME IInv, NEW t \in Targets, NEW st, NEW slot, CreateHook(t, st, slot), Fails(st),
           original' = IF st = "OK" THEN [original EXCEPT ![t] = slot] ELSE original
    PROVE  IInv' /\ (PlacesOK => PlacesOK')
<1>1. CASE UNCHANGED hookVars /\ st # "OK"
  BY <1>1, Unchanging
<1>2. ASSUME NEW a \in AllocateBuffer(t), FindHookEntry(t) = {}, st = "OK", slot = a.slot, blocks' = a.list,
             hooks' = Append(hooks, [target |-> t, tramp |-> a.slot, enabled |-> FALSE, queued |-> FALSE]),
             UNCHANGED <<heap, patched, ip>>
      PROVE  IInv' /\ (PlacesOK => PlacesOK')
  BY <1>2, HookCreated, FailsType
<1>3. ASSUME NEW a \in AllocateBuffer(t), st # "OK", blocks' = FreeBuffer(a.list, a.slot),
             UNCHANGED <<heap, hooks, patched, ip>>
      PROVE  IInv' /\ (PlacesOK => PlacesOK')
  <2>1. a.slot \notin Held /\ Accounts(a.list, Held \cup {a.slot})
    BY AllocateAccounts DEF IInv
  <2>2. Held' = Held /\ (Held \cup {a.slot}) \ {a.slot} = Held
    BY <1>3, <2>1 DEF Held
  <2>3. Accounts(FreeBuffer(a.list, a.slot), (Held \cup {a.slot}) \ {a.slot})
    BY <2>1, FreeAccounts
  <2>4. Accounts(blocks', Held')
    BY <1>3, <2>2, <2>3
  <2>5. TableOK' /\ CodeOK'
    BY <1>3 DEF IInv, TableOK, CodeOK
  <2>6. IInv'
    BY <1>3, <2>4, <2>5, FailsType DEF IInv
  <2>7. ASSUME NEW th \in Threads, PlaceOK(ip[th]) PROVE PlaceOK(ip[th])'
    BY <1>3, <2>7 DEF PlaceOK, Live
  <2> QED
    BY <2>6, <2>7, FailsType DEF PlacesOK
<1> QED
  BY <1>1, <1>2, <1>3 DEF CreateHook, Refused

(* A hook is removed.                                                          *)
LEMMA EntryDeleted ==
    ASSUME TableOK, NEW n \in DOMAIN hooks, NEW h, h = DeleteHookEntry(n)
    PROVE  /\ h \in Seq(Entries)
           /\ \A m \in DOMAIN h : \E i \in DOMAIN hooks :
                i # n /\ i = (IF m = n THEN Len(hooks) ELSE m) /\ h[m] = hooks[i]
           /\ \A i \in DOMAIN hooks : i # n => \E m \in DOMAIN h : h[m] = hooks[i]
           /\ Len(hooks) \notin DOMAIN h
<1> DEFINE N == Len(hooks)
           moved == [hooks EXCEPT ![n] = hooks[N]]
<1>1. /\ N \in Nat /\ DOMAIN hooks = 1..N /\ hooks \in Seq(Entries) /\ n \in 1..N
      /\ N \in DOMAIN hooks /\ hooks[N] \in Entries
  <2>1. /\ N \in Nat /\ DOMAIN hooks = 1..N /\ hooks \in Seq(Entries)
        /\ \A i \in DOMAIN hooks : hooks[i] \in Entries
    BY EntriesAre DEF TableOK
  <2> HIDE DEF N
  <2>2. n \in 1..N /\ N \in 1..N
    BY <2>1
  <2> QED
    BY <2>1, <2>2
<1>2. \A j \in 1..N : moved[j] = IF j = n THEN hooks[N] ELSE hooks[j]
  BY <1>1
<1>3. \A j \in 1..(N - 1) : moved[j] \in Entries
  <2>1. \A j \in 1..N : hooks[j] \in Entries
    BY <1>1, EntriesAre
  <2>2. \A j \in 1..(N - 1) : j \in 1..N
    BY <1>1
  <2> HIDE DEF moved, N
  <2> QED
    BY <1>1, <1>2, <2>1, <2>2
<1>4. h = SubSeq(moved, 1, N - 1)
  BY DEF DeleteHookEntry
<1> HIDE DEF moved, N
<1>5. /\ h \in Seq(Entries) /\ Len(h) = N - 1 /\ \A j \in 1..(N - 1) : h[j] = moved[j]
  <2>1. N - 1 \in Int /\ 1 \in Int
    BY <1>1
  <2>2. /\ h \in Seq(Entries) /\ Len(h) = (IF 1 <= N - 1 THEN (N - 1) - 1 + 1 ELSE 0)
        /\ \A j \in 1..((N - 1) - 1 + 1) : h[j] = moved[1 + j - 1]
    BY <1>3, <1>4, <2>1, SubSeqProperties
  <2> QED
    BY <1>1, <2>2
<1>6. DOMAIN h = 1..(N - 1)
  BY <1>5, LenProperties
<1>7. ASSUME NEW m \in DOMAIN h
      PROVE  \E i \in DOMAIN hooks : i # n /\ i = (IF m = n THEN N ELSE m) /\ h[m] = hooks[i]
  <2>1. m \in 1..N /\ m # N /\ h[m] = (IF m = n THEN hooks[N] ELSE hooks[m])
    BY <1>1, <1>2, <1>5, <1>6
  <2> QED
    BY <1>1, <2>1
<1>8. ASSUME NEW i \in DOMAIN hooks, i # n PROVE \E m \in DOMAIN h : h[m] = hooks[i]
  <2>1. CASE i = N
    <3>1. n \in 1..(N - 1)
      BY <1>1, <1>8, <2>1
    <3> QED
      BY <1>1, <1>2, <1>5, <1>6, <2>1, <3>1
  <2>2. CASE i # N
    <3>1. i \in 1..(N - 1)
      BY <1>1, <2>2
    <3> QED
      BY <1>1, <1>2, <1>5, <1>6, <1>8, <3>1
  <2> QED
    BY <2>1, <2>2
<1>9. N \notin DOMAIN h
  BY <1>1, <1>6
<1> QED
  BY <1>5, <1>7, <1>8, <1>9 DEF N

(* When the program keeps out of the detour, a thread of the function of an    *)
(* entry that is to be disabled ends up where it needs neither the jump nor    *)
(* the trampoline.                                                             *)
Afar(p) == p.at \in {"target", "after", "null"}

LEMMA LeftAlone ==
    ASSUME IInv, NEW p \in Places, p # Idle, PlaceOK(p), p.at # "detour",
           p.at \in {"above", "relay", "tramp"} => FALSE
    PROVE  Afar(p)
BY PlaceParts DEF Afar, PlaceOK, Ats

LEMMA Jumping ==
    ASSUME IInv, NEW p \in Places, p # Idle, PlaceOK(p), p.at \in {"above", "relay"}
    PROVE  \E n \in FindHookEntry(p.fn) : hooks[n].enabled
<1>1. p.fn \in Targets /\ patched[p.fn] # NoSlot
  BY PlaceParts DEF PlaceOK
<1>2. PICK n \in DOMAIN hooks : hooks[n].target = p.fn
  BY <1>1 DEF IInv, CodeOK
<1> QED
  BY <1>1, <1>2 DEF IInv, CodeOK, FindHookEntry

LEMMA QuietMoved ==
    ASSUME IInv, NEW p \in Places, p # Idle, PlaceOK(p), p.at # "detour",
           p.at = "tramp" => \E n \in FindHookEntry(p.fn) : hooks[n].enabled,
           NEW which \in SUBSET DOMAIN hooks, NEW wants, FindHookEntry(p.fn) \subseteq which,
           wants = [n \in which |-> FALSE],
           NEW q, q = ProcessThreadIPs(p, which, wants)
    PROVE  q \in Places /\ q # Idle /\ q.fn = p.fn /\ Afar(q)
<1>1. TableOK /\ q \in Places
  BY MovedType DEF IInv
<1>2. /\ p.fn \in Targets /\ p.i \in {0, 1} /\ p.ret \in {"program", "detour"}
      /\ p.slot \in Addresses \cup {NoSlot} /\ "target" \in Ats
  BY PlaceParts DEF Ats
<1>3. CASE /\ q = p
           /\ \A n \in which : hooks[n].target = p.fn /\ hooks[n].enabled # wants[n] =>
                IF wants[n] THEN p.at # "target" ELSE p.at \notin {"above", "relay", "tramp"}
  <2>1. p.at \in {"above", "relay", "tramp"} => \E n \in FindHookEntry(p.fn) : hooks[n].enabled
    BY Jumping
  <2>2. p.at \notin {"above", "relay", "tramp"}
    BY <1>3, <2>1 DEF FindHookEntry
  <2> QED
    BY <1>3, <2>2, LeftAlone
<1>4. ASSUME OutOf(p, q) PROVE q # Idle /\ q.fn = p.fn /\ Afar(q)
  <2>1. PICK slot \in {p.slot, NoSlot} : q = Place("target", p.fn, p.i, slot, p.ret)
    BY <1>4 DEF OutOf
  <2>2. q # Idle /\ q.at = "target" /\ q.fn = p.fn
    BY <1>2, <2>1, PlaceIs
  <2> QED
    BY <2>2 DEF Afar
<1>5. \A n \in which : ~wants[n]
  OBVIOUS
<1>6. (\A n \in which : ~wants[n]) =>
        \/ /\ q = p
           /\ \A n \in which : hooks[n].target = p.fn /\ hooks[n].enabled # wants[n] =>
                IF wants[n] THEN p.at # "target" ELSE p.at \notin {"above", "relay", "tramp"}
        \/ OutOf(p, q)
  BY <1>1, MovedTo
<1> QED
  BY <1>1, <1>3, <1>4, <1>5, <1>6

LEMMA HookRemoved ==
    ASSUME IInv, NEW t \in Targets, Quiet(t), NEW n \in FindHookEntry(t),
           blocks' = FreeBuffer(blocks, hooks[n].tramp), hooks' = DeleteHookEntry(n),
           IF hooks[n].enabled
           THEN Freeze({n}, [m \in {n} |-> FALSE]) /\ patched' = [patched EXCEPT ![t] = NoSlot]
           ELSE UNCHANGED <<patched, ip>>,
           UNCHANGED <<heap, original>>, unwritable' \in BOOLEAN, unwritable => unwritable'
    PROVE  IInv' /\ (PlacesOK => PlacesOK')
<1> DEFINE L == Len(hooks)
<1>1. n \in DOMAIN hooks /\ hooks[n].target = t /\ {n} \in SUBSET DOMAIN hooks
  BY DEF FindHookEntry
<1>2. /\ hooks' \in Seq(Entries)
      /\ \A m \in DOMAIN hooks' : \E i \in DOMAIN hooks :
           i # n /\ i = (IF m = n THEN L ELSE m) /\ hooks'[m] = hooks[i]
      /\ \A i \in DOMAIN hooks : i # n => \E m \in DOMAIN hooks' : hooks'[m] = hooks[i]
      /\ L \notin DOMAIN hooks'
  BY <1>1, EntryDeleted DEF IInv
<1> HIDE DEF L
<1>3. \A i, j \in DOMAIN hooks : hooks[i].target = hooks[j].target \/ hooks[i].tramp = hooks[j].tramp => i = j
  BY DEF IInv, TableOK
<1>4. Accounts(blocks', Held')
  <2>1. Held' = Held \ {hooks[n].tramp}
    BY <1>1, <1>2, <1>3 DEF Held
  <2>2. hooks[n].tramp \in Held
    BY <1>1 DEF Held
  <2> QED
    BY <2>1, <2>2, FreeAccounts DEF IInv
<1>5. TableOK'
  <2>1. ASSUME NEW m \in DOMAIN hooks', NEW k \in DOMAIN hooks',
               hooks'[m].target = hooks'[k].target \/ hooks'[m].tramp = hooks'[k].tramp
        PROVE  m = k
    <3>1. PICK i \in DOMAIN hooks : i = (IF m = n THEN L ELSE m) /\ hooks'[m] = hooks[i]
      BY <1>2
    <3>2. PICK j \in DOMAIN hooks : j = (IF k = n THEN L ELSE k) /\ hooks'[k] = hooks[j]
      BY <1>2
    <3>3. i = j
      BY <1>3, <2>1, <3>1, <3>2
    <3> QED
      BY <1>2, <3>1, <3>2, <3>3
  <2>2. \A m \in DOMAIN hooks' : /\ hooks'[m].tramp[1] \in Reach[hooks'[m].target]
                                /\ original[hooks'[m].target] = hooks'[m].tramp
    BY <1>2 DEF IInv, TableOK
  <2> QED
    BY <1>2, <2>1, <2>2 DEF IInv, TableOK
<1>6. patched[t] # NoSlot => hooks[n].enabled
  BY <1>1 DEF IInv, CodeOK
<1>7. /\ patched' \in [Targets -> Addresses \cup {NoSlot}] /\ patched'[t] = NoSlot
      /\ \A x \in Targets : x # t => patched'[x] = patched[x]
  BY <1>6 DEF IInv, CodeOK
<1>8. CodeOK'
  <2>1. ASSUME NEW m \in DOMAIN hooks'
        PROVE  patched'[hooks'[m].target] = IF hooks'[m].enabled THEN hooks'[m].tramp ELSE NoSlot
    <3>1. PICK i \in DOMAIN hooks : i # n /\ hooks'[m] = hooks[i]
      BY <1>2
    <3>2. hooks[i].target # t /\ hooks[i].target \in Targets
      BY <1>1, <1>3, <3>1, EntriesAre DEF IInv
    <3> QED
      BY <1>7, <3>1, <3>2 DEF IInv, CodeOK
  <2>2. ASSUME NEW x \in Targets, patched'[x] # NoSlot
        PROVE  \E m \in DOMAIN hooks' : hooks'[m].target = x
    <3>1. x # t /\ patched[x] # NoSlot
      BY <1>7, <2>2
    <3>2. PICK i \in DOMAIN hooks : hooks[i].target = x
      BY <3>1 DEF IInv, CodeOK
    <3> QED
      BY <1>1, <1>2, <3>1, <3>2
  <2> QED
    BY <1>7, <2>1, <2>2 DEF CodeOK
<1>9. ip' \in [Threads -> Places]
  BY <1>1, FrozenType DEF IInv
<1>10. IInv'
  BY <1>4, <1>5, <1>8, <1>9 DEF IInv
<1>11. \A slot, x : Live(slot, x) /\ x # t => Live(slot, x)'
  BY <1>1, <1>2 DEF Live
<1>12. ASSUME NEW th \in Threads \ Shielded, PlaceOK(ip[th]) PROVE PlaceOK(ip[th])'
  <2>1. PICK p : p = ip[th]
    OBVIOUS
  <2>2. PICK q : q = ip'[th]
    OBVIOUS
  <2>3. p \in Places /\ PlaceOK(p)
    BY <1>12, <2>1 DEF IInv
  <2>4. q = IF hooks[n].enabled THEN ProcessThreadIPs(p, {n}, [m \in {n} |-> FALSE]) ELSE p
    BY <2>1, <2>2 DEF Freeze
  <2>5. CASE p = Idle
    <3>1. q = Idle
      BY <2>4, <2>5 DEF ProcessThreadIPs
    <3> QED
      BY <2>2, <3>1 DEF PlaceOK
  <2>6. CASE p # Idle /\ p.fn = t
    <3>1. FindHookEntry(t) = {n}
      BY <1>1, <1>3 DEF FindHookEntry
    <3>2. /\ p.at # "detour"
          /\ p.at = "tramp" => \E m \in FindHookEntry(p.fn) : hooks[m].enabled
      BY <2>1, <2>6 DEF Quiet
    <3>3. CASE hooks[n].enabled
      <4> DEFINE wants == [m \in {n} |-> FALSE]
      <4>1. q = ProcessThreadIPs(p, {n}, wants)
        BY <2>4, <3>3
      <4>2. q # Idle /\ q.fn = t /\ Afar(q)
        BY <1>1, <2>3, <2>6, <3>1, <3>2, <4>1, QuietMoved
      <4> QED
        BY <1>7, <2>2, <4>2 DEF PlaceOK, Afar
    <3>4. CASE ~hooks[n].enabled
      <4>1. q = p
        BY <2>4, <3>4
      <4>2. p.at \notin {"above", "relay", "tramp"}
        BY <2>3, <2>6, <3>1, <3>2, <3>4, Jumping
      <4>3. Afar(p)
        BY <2>3, <2>6, <3>2, <4>2, LeftAlone
      <4> QED
        BY <1>7, <2>2, <2>6, <4>1, <4>3 DEF PlaceOK, Afar
    <3> QED
      BY <3>3, <3>4
  <2>7. CASE p # Idle /\ p.fn # t
    <3>1. q = p
      <4> DEFINE wants == [m \in {n} |-> FALSE]
                 to == ProcessThreadIPs(p, {n}, wants)
      <4>1. q = p \/ q = to
        BY <2>4
      <4>2. TableOK
        BY DEF IInv
      <4> HIDE DEF wants, to
      <4>3. to = p \/ \E m \in {n} : hooks[m].target = p.fn
        BY <1>1, <2>3, <2>7, <4>2, MovedTo DEF to
      <4> QED
        BY <1>1, <2>7, <4>1, <4>3
    <3>2. p.fn \in Targets
      BY <2>3, <2>7, PlaceParts
    <3> QED
      BY <1>7, <1>11, <2>2, <2>3, <2>7, <3>1, <3>2 DEF PlaceOK
  <2> QED
    BY <2>5, <2>6, <2>7
<1> QED
  BY <1>10, <1>12 DEF PlacesOK

LEMMA RemoveKeeps ==
    ASSUME IInv, NEW t \in Targets, Quiet(t), NEW st, RemoveHook(t, st), Fails(st), UNCHANGED original
    PROVE  IInv' /\ (PlacesOK => PlacesOK')
<1>1. CASE UNCHANGED hookVars
  BY <1>1, Unchanging
<1>2. ASSUME NEW n \in FindHookEntry(t), hooks[n].enabled, WriteOne(n, FALSE, FALSE, st),
             UNCHANGED <<heap, blocks>>
      PROVE  IInv' /\ (PlacesOK => PlacesOK')
  <2>1. n \in DOMAIN hooks /\ hooks[n].enabled # FALSE /\ heap' \in BOOLEAN
    BY <1>2 DEF FindHookEntry, IInv, TableOK
  <2> QED
    BY <1>2, <2>1, WriteOneKeeps
<1>3. ASSUME NEW n \in FindHookEntry(t), UNCHANGED heap,
             blocks' = FreeBuffer(blocks, hooks[n].tramp), hooks' = DeleteHookEntry(n),
             IF hooks[n].enabled
             THEN Freeze({n}, [m \in {n} |-> FALSE]) /\ patched' = [patched EXCEPT ![t] = NoSlot]
             ELSE UNCHANGED <<patched, ip>>
      PROVE  IInv' /\ (PlacesOK => PlacesOK')
  BY <1>3, HookRemoved, FailsType
<1> QED
  BY <1>1, <1>2, <1>3 DEF RemoveHook, Refused

(* The library is closed.                                                      *)
LEMMA FreedPlace ==
    ASSUME IInv, NEW p \in Places, p # Idle, PlaceOK(p), p.at # "detour",
           p.at = "tramp" => \E n \in FindHookEntry(p.fn) : hooks[n].enabled,
           NEW wants, wants = [n \in DOMAIN hooks |-> FALSE],
           NEW q, q = ProcessThreadIPs(p, DOMAIN hooks, wants)
    PROVE  q.fn = p.fn /\ Afar(q)
<1>1. FindHookEntry(p.fn) \subseteq DOMAIN hooks /\ DOMAIN hooks \in SUBSET DOMAIN hooks
  BY DEF FindHookEntry
<1> QED
  BY <1>1, QuietMoved

LEMMA AllFreed ==
    ASSUME IInv, \A t \in Targets : Quiet(t),
           NEW wants, wants = [n \in DOMAIN hooks |-> FALSE], Freeze(DOMAIN hooks, wants),
           patched' = [t \in Targets |-> IF FindHookEntry(t) # {} THEN NoSlot ELSE patched[t]],
           heap' = FALSE, hooks' = <<>>, blocks' = <<>>, UNCHANGED original,
           unwritable' \in BOOLEAN, unwritable => unwritable'
    PROVE  IInv' /\ (PlacesOK => PlacesOK')
<1>1. \A t \in Targets : patched'[t] = NoSlot
  BY DEF IInv, CodeOK, FindHookEntry
<1>2. DOMAIN hooks' = {} /\ DOMAIN blocks' = {} /\ hooks' \in Seq(Entries) /\ blocks' \in Seq(BlockRecords)
  OBVIOUS
<1>3. TableOK'
  BY <1>2 DEF IInv, TableOK
<1>4. CodeOK'
  <2>1. patched' \in [Targets -> Addresses \cup {NoSlot}]
    BY <1>1
  <2> QED
    BY <1>1, <1>2, <2>1 DEF CodeOK
<1>5. Accounts(blocks', Held')
  <2>1. Held' = {}
    BY <1>2 DEF Held
  <2> QED
    BY <1>2, <2>1, FS_EmptySet DEF Accounts
<1>6. IInv'
  BY <1>3, <1>4, <1>5, FrozenType DEF IInv
<1>7. ASSUME NEW th \in Threads \ Shielded, PlaceOK(ip[th]) PROVE PlaceOK(ip[th])'
  <2>1. PICK p : p = ip[th]
    OBVIOUS
  <2>2. PICK q : q = ip'[th]
    OBVIOUS
  <2>3. p \in Places /\ PlaceOK(p) /\ q = ProcessThreadIPs(p, DOMAIN hooks, wants)
    BY <1>7, <2>1, <2>2 DEF IInv, Freeze
  <2>4. CASE p = Idle
    <3>1. q = Idle
      BY <2>3, <2>4 DEF ProcessThreadIPs
    <3> QED
      BY <2>2, <3>1 DEF PlaceOK
  <2>5. CASE p # Idle
    <3>1. \A t \in Targets : ip[th] # Idle /\ ip[th].fn = t =>
            /\ ip[th].at # "detour"
            /\ ip[th].at = "tramp" => \E n \in FindHookEntry(t) : hooks[n].enabled
      BY DEF Quiet
    <3>2. p.fn \in Targets
      BY <2>3, <2>5, PlaceParts
    <3>3. /\ p.at # "detour"
          /\ p.at = "tramp" => \E n \in FindHookEntry(p.fn) : hooks[n].enabled
      BY <2>1, <2>5, <3>1, <3>2
    <3>4. q.fn = p.fn /\ Afar(q)
      BY <2>3, <2>5, <3>3, FreedPlace
    <3> QED
      BY <1>1, <2>2, <3>2, <3>4 DEF PlaceOK, Afar
  <2> QED
    BY <2>4, <2>5
<1> QED
  BY <1>6, <1>7 DEF PlacesOK

LEMMA UninitializeKeeps ==
    ASSUME IInv, \A t \in Targets : Quiet(t), NEW st, Uninitialize(st), Fails(st), UNCHANGED original
    PROVE  IInv' /\ (PlacesOK => PlacesOK')
<1>1. PICK wants : wants = [n \in DOMAIN hooks |-> FALSE]
  OBVIOUS
<1>2. CASE UNCHANGED hookVars
  BY <1>2, Unchanging
<1>3. CASE WriteAll(wants, st) /\ UNCHANGED <<heap, blocks>>
  <2>1. heap' \in BOOLEAN /\ \A n \in DOMAIN hooks : wants[n] \in BOOLEAN
    BY <1>1, <1>3 DEF IInv, TableOK
  <2> QED
    BY <1>3, <2>1, WriteAllKeeps
<1>4. CASE /\ Freeze(DOMAIN hooks, wants)
           /\ patched' = [t \in Targets |-> IF FindHookEntry(t) # {} THEN NoSlot ELSE patched[t]]
           /\ heap' = FALSE /\ hooks' = <<>> /\ blocks' = <<>>
  <2> QED
    BY <1>1, <1>4, AllFreed, FailsType
<1> QED
  BY <1>1, <1>2, <1>3, <1>4 DEF Uninitialize, Refused, EnableAllHooksLL

(* The other calls. Disabling one hook moves threads as if to enable it, so it *)
(* keeps the table and the code bytes only.                                    *)
LEMMA InitializeKeeps ==
    ASSUME IInv, NEW st, Initialize(st), Fails(st), UNCHANGED original
    PROVE  IInv' /\ (PlacesOK => PlacesOK')
<1>1. CASE UNCHANGED hookVars
  BY <1>1, Unchanging
<1>2. CASE heap' = TRUE /\ UNCHANGED <<hooks, blocks, patched, ip>>
  BY <1>2, Unwritten, NothingMoved
<1> QED
  BY <1>1, <1>2 DEF Initialize

LEMMA EnableHookKeeps ==
    ASSUME IInv, NEW t, NEW enable \in BOOLEAN, NEW st, EnableHook(t, enable, st), Fails(st),
           UNCHANGED original
    PROVE  IInv' /\ (enable /\ PlacesOK => PlacesOK')
<1>1. CASE UNCHANGED hookVars
  BY <1>1, Unchanging
<1>2. ASSUME NEW n \in FindHookEntry(t), UNCHANGED <<hooks, patched, ip, heap, blocks>>
      PROVE  IInv' /\ (enable /\ PlacesOK => PlacesOK')
  BY <1>2, Unchanging DEF hookVars
<1>3. ASSUME NEW n \in FindHookEntry(t), hooks[n].enabled # enable, WriteOne(n, TRUE, enable, st),
             UNCHANGED <<heap, blocks>>
      PROVE  IInv' /\ (enable /\ PlacesOK => PlacesOK')
  <2>1. n \in DOMAIN hooks /\ heap' \in BOOLEAN
    BY <1>3 DEF FindHookEntry, IInv, TableOK
  <2>2. IInv' /\ (TRUE = enable /\ PlacesOK => PlacesOK')
    BY <1>3, <2>1, WriteOneKeeps
  <2> QED
    BY <2>2
<1> QED
  BY <1>1, <1>2, <1>3 DEF EnableHook, Refused

LEMMA EnableAllHooksKeeps ==
    ASSUME IInv, NEW enable \in BOOLEAN, NEW st, EnableAllHooks(enable, st), Fails(st), UNCHANGED original
    PROVE  IInv' /\ (PlacesOK => PlacesOK')
<1> DEFINE wants == [n \in DOMAIN hooks |-> enable]
<1>1. \A n \in DOMAIN hooks : wants[n] \in BOOLEAN
  OBVIOUS
<1>2. CASE UNCHANGED hookVars
  BY <1>2, Unchanging
<1>3. CASE WriteAll(wants, st) /\ UNCHANGED <<heap, blocks>>
  <2>1. heap' \in BOOLEAN
    BY <1>3 DEF IInv, TableOK
  <2> HIDE DEF wants
  <2> QED
    BY <1>1, <1>3, <2>1, WriteAllKeeps
<1> QED
  BY <1>2, <1>3 DEF EnableAllHooks, EnableAllHooksLL, Refused

LEMMA ApplyQueuedKeeps ==
    ASSUME IInv, NEW st, ApplyQueued(st), Fails(st), UNCHANGED original
    PROVE  IInv' /\ (PlacesOK => PlacesOK')
<1> DEFINE wants == [n \in DOMAIN hooks |-> hooks[n].queued]
<1>1. \A n \in DOMAIN hooks : wants[n] \in BOOLEAN
  BY EntriesAre DEF IInv, Entries
<1>2. CASE UNCHANGED hookVars
  BY <1>2, Unchanging
<1>3. CASE WriteAll(wants, st) /\ UNCHANGED <<heap, blocks>>
  <2>1. heap' \in BOOLEAN
    BY <1>3 DEF IInv, TableOK
  <2> HIDE DEF wants
  <2> QED
    BY <1>1, <1>3, <2>1, WriteAllKeeps
<1> QED
  BY <1>2, <1>3 DEF ApplyQueued, Refused

LEMMA QueueKeeps ==
    ASSUME IInv, NEW ts, NEW queue \in BOOLEAN, NEW st, QueueHook(ts, queue, st), Fails(st),
           UNCHANGED original
    PROVE  IInv' /\ (PlacesOK => PlacesOK')
<1>1. CASE UNCHANGED hookVars
  BY <1>1, Unchanging
<1>2. CASE /\ hooks' = [n \in DOMAIN hooks |->
                          IF hooks[n].target \in ts THEN [hooks[n] EXCEPT !.queued = queue] ELSE hooks[n]]
           /\ UNCHANGED <<heap, blocks, patched, ip>>
  <2>1. /\ Len(hooks) \in Nat /\ DOMAIN hooks = 1..Len(hooks)
        /\ \A n \in DOMAIN hooks : hooks[n] \in Entries
    BY EntriesAre DEF IInv
  <2>2. \A n \in DOMAIN hooks :
          LET e == [hooks[n] EXCEPT !.queued = queue]
          IN /\ e \in Entries /\ e.target = hooks[n].target
             /\ e.tramp = hooks[n].tramp /\ e.enabled = hooks[n].enabled
    BY <2>1 DEF Entries
  <2>3. /\ DOMAIN hooks' = DOMAIN hooks
        /\ \A n \in DOMAIN hooks : /\ hooks'[n] \in Entries /\ hooks'[n].target = hooks[n].target
                                   /\ hooks'[n].tramp = hooks[n].tramp /\ hooks'[n].enabled = hooks[n].enabled
    BY <1>2, <2>1, <2>2
  <2>4. hooks' \in Seq(Entries)
    <3>1. hooks' \in [1..Len(hooks) -> Entries]
      BY <1>2, <2>1, <2>3
    <3> QED
      BY <2>1, <3>1, SeqDef
  <2>5. SameEntries /\ CodeOK'
    BY <1>2, <2>3, <2>4 DEF SameEntries, IInv, CodeOK
  <2> QED
    BY <1>2, <2>5, NothingMoved DEF IInv, TableOK
<1> QED
  BY <1>1, <1>2 DEF QueueHook, Refused

-----------------------------------------------------------------------------
(* The threads.                                                               *)

LEMMA Replaced ==
    ASSUME NEW p, p = Place(p.at, p.fn, p.i, p.slot, p.ret), NEW at, NEW i, NEW slot,
           NEW q, q = [p EXCEPT !.at = at, !.i = i, !.slot = slot]
    PROVE  q = Place(at, p.fn, i, slot, p.ret)
<1>1. p = [at |-> p.at, fn |-> p.fn, i |-> p.i, slot |-> p.slot, ret |-> p.ret]
  BY DEF Place
<1>2. /\ DOMAIN q = {"at", "fn", "i", "slot", "ret"}
      /\ q.at = at /\ q.i = i /\ q.slot = slot /\ q.fn = p.fn /\ q.ret = p.ret
  BY <1>1
<1>3. q = [at |-> q.at, fn |-> q.fn, i |-> q.i, slot |-> q.slot, ret |-> q.ret]
  BY <1>1, <1>2
<1> QED
  BY <1>2, <1>3 DEF Place

(* A step of a thread leads to code that is there, unless it was lost before.  *)
LEMMA NextLeads ==
    ASSUME NEW p \in Places, p # Idle, NEW pointer, NEW q \in NextPlace(p, pointer)
    PROVE  \/ q = Idle
           \/ q = Place("after", p.fn, 0, NoSlot, "program")
           \/ patched[p.fn] = NoSlot /\ q = Place("target", p.fn, 1, p.slot, p.ret)
           \/ /\ p.fn \in Above /\ patched[p.fn] # NoSlot
              /\ q = Place("above", p.fn, p.i, p.slot, p.ret)
           \/ patched[p.fn] # NoSlot /\ q = Place("relay", p.fn, p.i, patched[p.fn], p.ret)
           \/ Live(p.slot, p.fn) /\ q = Place("detour", p.fn, 0, NoSlot, p.ret)
           \/ Live(p.slot, p.fn) /\ q = Place("tramp", p.fn, 1, p.slot, p.ret)
           \/ q = Place("null", p.fn, 0, NoSlot, p.ret)
           \/ p.at = "detour" /\ pointer # NoSlot /\ q = Place("tramp", p.fn, 0, pointer, "detour")
           \/ ~PlaceOK(p) /\ q = Place("lost", p.fn, 0, NoSlot, p.ret)
<1>1. p = Place(p.at, p.fn, p.i, p.slot, p.ret) /\ p.i \in {0, 1}
  BY PlaceParts
<1>2. /\ [p EXCEPT !.i = 1] = Place(p.at, p.fn, 1, p.slot, p.ret)
      /\ [p EXCEPT !.at = "above"] = Place("above", p.fn, p.i, p.slot, p.ret)
      /\ [p EXCEPT !.at = "relay", !.slot = patched[p.fn]] = Place("relay", p.fn, p.i, patched[p.fn], p.ret)
      /\ Lost(p) = Place("lost", p.fn, 0, NoSlot, p.ret)
  <2>1. [p EXCEPT !.i = 1] = Place(p.at, p.fn, 1, p.slot, p.ret)
    BY <1>1 DEF Place
  <2>2. [p EXCEPT !.at = "above"] = Place("above", p.fn, p.i, p.slot, p.ret)
    BY <1>1 DEF Place
  <2>3. [p EXCEPT !.at = "relay", !.slot = patched[p.fn]] = Place("relay", p.fn, p.i, patched[p.fn], p.ret)
    BY <1>1, Changed
  <2>4. Lost(p) = Place("lost", p.fn, 0, NoSlot, p.ret)
    BY <1>1, Replaced DEF Lost
  <2> QED
    BY <2>1, <2>2, <2>3, <2>4
<1>3. Returned(p) \in {Idle, Place("after", p.fn, 0, NoSlot, "program")}
  BY DEF Returned
<1>4. CASE p.at = "target" /\ p.i = 0
  BY <1>2, <1>4 DEF NextPlace
<1>5. CASE p.at = "target" /\ p.i = 1
  BY <1>2, <1>3, <1>5 DEF NextPlace, PlaceOK
<1>6. CASE p.at = "above"
  BY <1>2, <1>6 DEF NextPlace, PlaceOK
<1>7. CASE p.at = "relay"
  BY <1>2, <1>7 DEF NextPlace, PlaceOK
<1>8. CASE p.at = "tramp"
  BY <1>2, <1>3, <1>8 DEF NextPlace, PlaceOK
<1>9. CASE p.at = "detour"
  BY <1>9 DEF NextPlace
<1>10. CASE p.at = "after"
  BY <1>10 DEF NextPlace
<1>11. CASE p.at \notin {"target", "above", "relay", "tramp", "detour", "after"}
  BY <1>11 DEF NextPlace
<1> QED
  BY <1>1, <1>4, <1>5, <1>6, <1>7, <1>8, <1>9, <1>10, <1>11

LEMMA NextKeeps ==
    ASSUME IInv, NEW p \in Places, p # Idle, NEW q \in NextPlace(p, original[p.fn])
    PROVE  q \in Places /\ (PlaceOK(p) => PlaceOK(q))
<1>1. /\ p.fn \in Targets /\ p.i \in {0, 1} /\ p.slot \in Addresses \cup {NoSlot}
      /\ p.ret \in {"program", "detour"} /\ 0 \in {0, 1} /\ 1 \in {0, 1} /\ NoSlot \in Addresses \cup {NoSlot}
      /\ "target" \in Ats /\ "above" \in Ats /\ "relay" \in Ats /\ "tramp" \in Ats /\ "detour" \in Ats
      /\ "after" \in Ats /\ "lost" \in Ats /\ "null" \in Ats
      /\ "program" \in {"program", "detour"} /\ "detour" \in {"program", "detour"}
  BY PlaceParts DEF Ats
<1>2. original[p.fn] \in Addresses \cup {NoSlot} /\ patched[p.fn] \in Addresses \cup {NoSlot}
  BY <1>1 DEF IInv, TableOK, CodeOK
<1>3. \A slot : Live(slot, p.fn) => Live(original[p.fn], p.fn)
  BY DEF IInv, TableOK, Live
<1>4. patched[p.fn] # NoSlot => Live(patched[p.fn], p.fn)
  BY <1>1 DEF IInv, CodeOK, Live
<1>5. CASE q = Idle
  BY <1>5 DEF Places, PlaceOK
<1>6. CASE q = Place("after", p.fn, 0, NoSlot, "program")
  <2>1. q \in Places /\ q.at = "after"
    BY <1>1, <1>6, PlaceIs
  <2> QED
    BY <2>1 DEF PlaceOK
<1>7. CASE patched[p.fn] = NoSlot /\ q = Place("target", p.fn, 1, p.slot, p.ret)
  <2>1. q \in Places /\ q.at = "target" /\ q.fn = p.fn
    BY <1>1, <1>7, PlaceIs
  <2> QED
    BY <1>7, <2>1 DEF PlaceOK
<1>8. CASE p.fn \in Above /\ patched[p.fn] # NoSlot /\ q = Place("above", p.fn, p.i, p.slot, p.ret)
  <2>1. q \in Places /\ q.at = "above" /\ q.fn = p.fn
    BY <1>1, <1>8, PlaceIs
  <2> QED
    BY <1>8, <2>1 DEF PlaceOK
<1>9. CASE patched[p.fn] # NoSlot /\ q = Place("relay", p.fn, p.i, patched[p.fn], p.ret)
  <2>1. q \in Places /\ q.at = "relay" /\ q.fn = p.fn /\ q.slot = patched[p.fn]
    BY <1>1, <1>2, <1>9, PlaceIs
  <2> QED
    BY <1>4, <1>9, <2>1 DEF PlaceOK
<1>10. CASE Live(p.slot, p.fn) /\ q = Place("detour", p.fn, 0, NoSlot, p.ret)
  <2>1. q \in Places /\ q.at = "detour" /\ q.fn = p.fn
    BY <1>1, <1>10, PlaceIs
  <2> QED
    BY <1>3, <1>10, <2>1 DEF PlaceOK
<1>11. CASE Live(p.slot, p.fn) /\ q = Place("tramp", p.fn, 1, p.slot, p.ret)
  <2>1. q \in Places /\ q.at = "tramp" /\ q.fn = p.fn /\ q.slot = p.slot
    BY <1>1, <1>11, PlaceIs
  <2> QED
    BY <1>11, <2>1 DEF PlaceOK
<1>12. CASE q = Place("null", p.fn, 0, NoSlot, p.ret)
  <2>1. q \in Places /\ q.at = "null"
    BY <1>1, <1>12, PlaceIs
  <2> QED
    BY <2>1 DEF PlaceOK
<1>13. CASE p.at = "detour" /\ q = Place("tramp", p.fn, 0, original[p.fn], "detour")
  <2>1. q \in Places /\ q.at = "tramp" /\ q.fn = p.fn /\ q.slot = original[p.fn]
    BY <1>1, <1>2, <1>13, PlaceIs
  <2> QED
    BY <1>13, <2>1 DEF PlaceOK
<1>14. CASE ~PlaceOK(p) /\ q = Place("lost", p.fn, 0, NoSlot, p.ret)
  BY <1>1, <1>14, PlaceIs
<1> QED
  BY <1>5, <1>6, <1>7, <1>8, <1>9, <1>10, <1>11, <1>12, <1>13, <1>14, NextLeads

LEMMA ThreadMoved ==
    ASSUME IInv, NEW th \in Threads, NEW q \in Places, PlaceOK(ip[th]) => PlaceOK(q),
           ip' = [ip EXCEPT ![th] = q], UNCHANGED <<tableVars, original, unwritable>>
    PROVE  IInv' /\ (PlacesOK => PlacesOK')
<1>1. IInv'
  BY DEF IInv, TableOK, CodeOK, Held, tableVars
<1>2. \A r : PlaceOK(r)' = PlaceOK(r)
  BY DEF PlaceOK, Live, tableVars
<1>3. ASSUME NEW x \in Threads, PlaceOK(ip[x]) PROVE PlaceOK(ip[x])'
  <2>1. ip'[x] = IF x = th THEN q ELSE ip[x]
    BY DEF IInv
  <2>2. PICK r : r = ip'[x]
    OBVIOUS
  <2>3. PlaceOK(r)'
    BY <1>2, <1>3, <2>1, <2>2
  <2> QED
    BY <2>2, <2>3
<1> QED
  BY <1>1, <1>3 DEF PlacesOK

LEMMA StepKeeps ==
    ASSUME IInv, NEW th \in Threads, Step(th)
    PROVE  IInv' /\ (PlacesOK => PlacesOK')
<1>1. ASSUME NEW t \in Targets, Call(th, t)
      PROVE  IInv' /\ (PlacesOK => PlacesOK')
  <2>1. PICK q : q = Place("target", t, 0, NoSlot, "program")
    OBVIOUS
  <2>2. q \in Places /\ q.at = "target" /\ q.i = 0
    BY <2>1, PlaceIs DEF Ats
  <2>3. PlaceOK(q)
    BY <2>2 DEF PlaceOK
  <2> QED
    BY <1>1, <2>1, <2>2, <2>3, ThreadMoved DEF Call, Step
<1>2. ASSUME ip[th] # Idle, NEW q \in NextPlace(ip[th], original[ip[th].fn]), ip' = [ip EXCEPT ![th] = q],
             UNCHANGED tableVars
      PROVE  IInv' /\ (PlacesOK => PlacesOK')
  <2>1. ip[th] \in Places
    BY DEF IInv
  <2>2. q \in Places /\ (PlaceOK(ip[th]) => PlaceOK(q))
    BY <1>2, <2>1, NextKeeps
  <2> QED
    BY <1>2, <2>2, ThreadMoved DEF Step
<1> QED
  BY <1>1, <1>2 DEF Step, Run

-----------------------------------------------------------------------------
(* The whole program.                                                         *)
LEMMA InitOK == Init => IInv /\ PlacesOK
<1> SUFFICES ASSUME Init PROVE IInv /\ PlacesOK
  OBVIOUS
<1>1. /\ DOMAIN hooks = {} /\ DOMAIN blocks = {} /\ hooks \in Seq(Entries) /\ blocks \in Seq(BlockRecords)
      /\ heap = FALSE /\ unwritable = FALSE
      /\ original = [t \in Targets |-> NoSlot] /\ patched = [t \in Targets |-> NoSlot]
      /\ ip = [th \in Threads |-> Idle]
  BY DEF Init, HookInit
<1>2. TableOK /\ CodeOK
  BY <1>1 DEF TableOK, CodeOK
<1>3. Accounts(blocks, Held)
  <2>1. Held = {}
    BY <1>1 DEF Held
  <2> QED
    BY <1>1, <2>1, FS_EmptySet DEF Accounts
<1>4. ip \in [Threads -> Places]
  BY <1>1 DEF Places
<1>5. \A th \in Threads : PlaceOK(ip[th])
  BY <1>1 DEF PlaceOK
<1> QED
  BY <1>1, <1>2, <1>3, <1>4, <1>5 DEF IInv, PlacesOK

LEMMA ProgramKeeps ==
    ASSUME IInv, NEW st, Program(st), Fails(st)
    PROVE  IInv' /\ (~SingleDisable /\ PlacesOK => PlacesOK')
<1>1. ASSUME Initialize(st), UNCHANGED original PROVE IInv' /\ (PlacesOK => PlacesOK')
  BY <1>1, InitializeKeeps
<1>2. ASSUME \A t \in Targets : Quiet(t), Uninitialize(st), UNCHANGED original
      PROVE  IInv' /\ (PlacesOK => PlacesOK')
  BY <1>2, UninitializeKeeps
<1>3. ASSUME NEW t \in Targets, NEW slot, CreateHook(t, st, slot),
             original' = IF st = "OK" THEN [original EXCEPT ![t] = slot] ELSE original
      PROVE  IInv' /\ (PlacesOK => PlacesOK')
  BY <1>3, CreateKeeps
<1>4. ASSUME NEW t \in Targets, Quiet(t), RemoveHook(t, st), UNCHANGED original
      PROVE  IInv' /\ (PlacesOK => PlacesOK')
  BY <1>4, RemoveKeeps
<1>5. ASSUME NEW t \in Targets, EnableHook(t, TRUE, st), UNCHANGED original
      PROVE  IInv' /\ (PlacesOK => PlacesOK')
  BY <1>5, EnableHookKeeps
<1>6. ASSUME NEW t \in Targets, SingleDisable, EnableHook(t, FALSE, st), UNCHANGED original
      PROVE  IInv'
  BY <1>6, EnableHookKeeps
<1>7. ASSUME NEW e \in BOOLEAN, EnableAllHooks(e, st), UNCHANGED original
      PROVE  IInv' /\ (PlacesOK => PlacesOK')
  BY <1>7, EnableAllHooksKeeps
<1>8. ASSUME NEW e \in BOOLEAN, NEW ts, QueueHook(ts, e, st), UNCHANGED original
      PROVE  IInv' /\ (PlacesOK => PlacesOK')
  BY <1>8, QueueKeeps
<1>9. ASSUME ApplyQueued(st), UNCHANGED original PROVE IInv' /\ (PlacesOK => PlacesOK')
  BY <1>9, ApplyQueuedKeeps
<1> QED
  BY <1>1, <1>2, <1>3, <1>4, <1>5, <1>6, <1>7, <1>8, <1>9 DEF Program

LEMMA NextStepKeeps ==
    ASSUME IInv, [Next]_vars
    PROVE  IInv' /\ (~SingleDisable /\ PlacesOK => PlacesOK')
<1>1. CASE UNCHANGED vars
  <2>1. IInv'
    BY <1>1 DEF IInv, TableOK, CodeOK, Held, vars, hookVars
  <2>2. PlacesOK' = PlacesOK
    BY <1>1 DEF PlacesOK, PlaceOK, Live, vars, hookVars
  <2> QED
    BY <2>1, <2>2
<1>2. ASSUME NEW st \in Statuses, Program(st), unwritable' = (unwritable \/ st = "MEMORY_PROTECT")
      PROVE  IInv' /\ (~SingleDisable /\ PlacesOK => PlacesOK')
  BY <1>2, ProgramKeeps DEF Fails
<1>3. ASSUME NEW th \in Threads, Step(th)
      PROVE  IInv' /\ (PlacesOK => PlacesOK')
  BY <1>3, StepKeeps
<1> QED
  BY <1>1, <1>2, <1>3 DEF Next

LEMMA Accounted == Spec => []IInv
<1>1. Init => IInv
  BY InitOK
<1>2. IInv /\ [Next]_vars => IInv'
  BY NextStepKeeps
<1> QED
  BY <1>1, <1>2, PTL DEF Spec

(* The variables have their types in every state any calls of the API lead to. *)
THEOREM HookTypesCorrect == Spec => []HookTypeOK
<1>1. IInv => HookTypeOK
  <2> SUFFICES ASSUME IInv PROVE HookTypeOK
    OBVIOUS
  <2>1. \A n \in DOMAIN blocks : blocks[n] \in BlockRecords
    BY LenProperties DEF IInv, Accounts
  <2> QED
    BY <2>1 DEF IInv, TableOK, CodeOK, HookTypeOK, BlockRecords
<1> QED
  BY <1>1, Accounted, PTL

(* However hooks are created, removed and refused, and whichever calls fail,   *)
(* no two hooks have one slot, each has its slot in a block near its target,   *)
(* and a block counts the hooks in it and is kept only while it has one        *)
(* (AllocateBuffer and FreeBuffer in buffer.c, AddHookEntry and                *)
(* DeleteHookEntry in hook.c).                                                 *)
THEOREM SlotsStayAccounted == Spec => []SlotsAccounted
<1>1. IInv => SlotsAccounted
  <2> SUFFICES ASSUME IInv PROVE SlotsAccounted
    OBVIOUS
  <2>1. \A m, n \in DOMAIN hooks : m # n => /\ hooks[m].tramp # hooks[n].tramp
                                           /\ hooks[m].target # hooks[n].target
    BY DEF IInv, TableOK
  <2>2. \A n \in DOMAIN hooks : hooks[n].tramp[1] \in Reach[hooks[n].target]
    BY DEF IInv, TableOK
  <2>3. ASSUME NEW n \in DOMAIN blocks
        PROVE  LET users == {m \in DOMAIN hooks : hooks[m].tramp[1] = blocks[n].id}
               IN /\ blocks[n].used = Cardinality(users) /\ users # {}
                  /\ blocks[n].free = Slots \ {hooks[m].tramp[2] : m \in users}
    <3> DEFINE users == {m \in DOMAIN hooks : hooks[m].tramp[1] = blocks[n].id}
               slots == InBlock(Held, blocks[n].id)
               to == [m \in users |-> hooks[m].tramp]
    <3>1. Counts(blocks[n], Held) /\ slots # {} /\ IsFiniteSet(Held)
      BY DEF IInv, Accounts
    <3>2. slots = {hooks[m].tramp : m \in users}
      BY DEF InBlock, Held
    <3>3. to \in Bijection(users, slots)
      <4>1. to \in Injection(users, slots)
        BY <2>1, <3>2 DEF Injection, IsInjective
      <4>2. to \in Surjection(users, slots)
        BY <3>2 DEF Surjection
      <4> QED
        BY <4>1, <4>2 DEF Bijection
    <3>4. IsFiniteSet(users)
      <4>1. Len(hooks) \in Nat /\ users \subseteq 1..Len(hooks)
        BY EntriesAre DEF IInv
      <4>2. IsFiniteSet(1..Len(hooks))
        BY <4>1, FS_Interval
      <4> QED
        BY <4>1, <4>2, FS_Subset
    <3>5. Cardinality(users) = Cardinality(slots)
      <4>1. ExistsBijection(users, slots)
        BY <3>3 DEF ExistsBijection
      <4> HIDE DEF users, slots, to
      <4> QED
        BY <3>4, <4>1, FS_Bijection
    <3>6. {a[2] : a \in slots} = {hooks[m].tramp[2] : m \in users}
      BY <3>2
    <3>7. users # {}
      BY <3>1, <3>2
    <3> QED
      BY <3>1, <3>5, <3>6, <3>7 DEF Counts
  <2>4. \A n \in DOMAIN hooks : \E m \in DOMAIN blocks : blocks[m].id = hooks[n].tramp[1]
    BY DEF IInv, Accounts, Held
  <2> QED
    BY <2>1, <2>2, <2>3, <2>4 DEF SlotsAccounted
<1> QED
  BY <1>1, Accounted, PTL

(* A function is patched exactly while the table has an enabled hook of it,    *)
(* and its jump leads to that hook's slot, also when a page could not be made  *)
(* writable half-way through the table (EnableHookLL and EnableAllHooksLL in   *)
(* hook.c).                                                                    *)
THEOREM CodeFollowsTable == Spec => []CodeMatchesTable
<1>1. IInv => CodeMatchesTable
  <2> SUFFICES ASSUME IInv, NEW t \in Targets
               PROVE  patched[t] = IF \E n \in FindHookEntry(t) : hooks[n].enabled
                                   THEN hooks[CHOOSE n \in FindHookEntry(t) : TRUE].tramp ELSE NoSlot
    BY DEF CodeMatchesTable
  <2>1. CASE FindHookEntry(t) = {}
    BY <2>1 DEF IInv, CodeOK, FindHookEntry
  <2>2. ASSUME NEW n \in FindHookEntry(t)
        PROVE  patched[t] = IF \E m \in FindHookEntry(t) : hooks[m].enabled
                            THEN hooks[CHOOSE m \in FindHookEntry(t) : TRUE].tramp ELSE NoSlot
    <3>1. n \in DOMAIN hooks /\ hooks[n].target = t /\ FindHookEntry(t) = {n}
      BY <2>2 DEF IInv, TableOK, FindHookEntry
    <3>2. (CHOOSE m \in FindHookEntry(t) : TRUE) = n
      BY <3>1
    <3>3. patched[t] = IF hooks[n].enabled THEN hooks[n].tramp ELSE NoSlot
      BY <3>1 DEF IInv, CodeOK
    <3> QED
      BY <3>1, <3>2, <3>3
  <2> QED
    BY <2>1, <2>2
<1> QED
  BY <1>1, Accounted, PTL

(* As long as pages can be made writable, and unless the program disables one  *)
(* hook by itself (the patch disables all of them at once), no thread is left  *)
(* where its instruction was replaced or its trampoline freed, but one that    *)
(* the library could not suspend.                                              *)
THEOREM ThreadsMovedProperly ==
    ASSUME ~SingleDisable
    PROVE  Spec => []MovedProperly
<1>1. Init => IInv /\ PlacesOK
  BY InitOK
<1>2. (IInv /\ PlacesOK) /\ [Next]_vars => (IInv /\ PlacesOK)'
  BY NextStepKeeps
<1>3. IInv /\ PlacesOK => MovedProperly
  <2>1. Idle.at # "lost"
    BY DEF Idle
  <2> QED
    BY <2>1 DEF PlacesOK, PlaceOK, MovedProperly, NobodyLost
<1> QED
  BY <1>1, <1>2, <1>3, PTL DEF Spec

=============================================================================
