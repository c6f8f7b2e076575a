----------------------------- MODULE VMemProofs -----------------------------
(***************************************************************************)
(* Proofs about the transactional memory: a transaction's accesses stay    *)
(* locked, what it changes in place can be restored, and to its users the  *)
(* whole module is the TransactionalMemory of committed memory.            *)
(*                                                                         *)
(* AccessInv is about locks and buffers: a writer is alone on its block,   *)
(* what a transaction has accessed is locked for it, what it changes has   *)
(* been saved or is buffered, and calls stay within the memory.  It needs  *)
(* programs that copy in place only and do not look for two strings in a   *)
(* block (LocksSuffice).                                                   *)
(*                                                                         *)
(* MemoryInv adds the values: a buffer holds what the transaction has      *)
(* stored, or what was in the memory before.  It needs programs that take  *)
(* none of the Risks.                                                      *)
(*                                                                         *)
(* For each action there is a lemma that ends in Fits (StepFits: the       *)
(* locks), and one that ends in Promised (StepPromised: the values, and    *)
(* the step of TransactionalMemory that it is).                            *)
(***************************************************************************)
EXTENDS VMem, FiniteSetTheorems, TLAPS

-----------------------------------------------------------------------------
(* Blocks of memory.                                                       *)

(* Division by the size of a block.                                        *)
LEMMA Quotient ==
    ASSUME NEW a \in Int
    PROVE  /\ a \div BLOCK_SIZE \in Int
           /\ (a \div BLOCK_SIZE) * BLOCK_SIZE <= a
           /\ a < (a \div BLOCK_SIZE) * BLOCK_SIZE + BLOCK_SIZE
  BY BlockAssumption, Z3

\* The quotient is the only number that fits.
LEMMA QuotientIs ==
    ASSUME NEW a \in Int, NEW q \in Int,
           q * BLOCK_SIZE <= a, a < q * BLOCK_SIZE + BLOCK_SIZE
    PROVE  a \div BLOCK_SIZE = q
  <1> DEFINE r == a \div BLOCK_SIZE
  <1>1. /\ BLOCK_SIZE \in Nat \ {0} /\ r \in Int
        /\ r * BLOCK_SIZE <= a /\ a < r * BLOCK_SIZE + BLOCK_SIZE
    BY BlockAssumption, Quotient
  <1> HIDE DEF r
  <1>2. ASSUME NEW i \in Int, NEW j \in Int, i < j
        PROVE  i * BLOCK_SIZE + BLOCK_SIZE <= j * BLOCK_SIZE
    <2>1. PICK k \in Nat : j = i + 1 + k
      <3>1. j - i - 1 \in Nat /\ j = i + 1 + (j - i - 1)
        BY <1>2
      <3> QED  BY <3>1
    <2>2. j * BLOCK_SIZE = i * BLOCK_SIZE + BLOCK_SIZE + k * BLOCK_SIZE
      BY <1>1, <2>1
    <2>3. k * BLOCK_SIZE \in Nat
      BY <1>1
    <2> QED  BY <1>1, <2>2, <2>3
  <1>3. ~(q < r) /\ ~(r < q)
    BY <1>1, <1>2
  <1> QED  BY <1>1, <1>3 DEF r

(* The blocks are intervals of addresses.                                  *)
LEMMA BytesAre ==
    ASSUME NEW b \in Blocks
    PROVE  Bytes(b) = b * BLOCK_SIZE .. b * BLOCK_SIZE + BLOCK_SIZE - 1
  <1>1. /\ BLOCK_SIZE \in Nat \ {0} /\ NBLOCKS \in Nat \ {0}
        /\ b \in Nat /\ b < NBLOCKS
    BY BlockAssumption DEF Blocks
  <1>2. b * BLOCK_SIZE \in Nat
    BY <1>1
  <1>3. b * BLOCK_SIZE + BLOCK_SIZE <= NBLOCKS * BLOCK_SIZE
    <2>1. NBLOCKS - b - 1 \in Nat
      BY <1>1
    <2>2. (NBLOCKS - b - 1) * BLOCK_SIZE \in Nat
      BY <1>1, <2>1
    <2>3. NBLOCKS * BLOCK_SIZE
             = b * BLOCK_SIZE + BLOCK_SIZE + (NBLOCKS - b - 1) * BLOCK_SIZE
      BY <1>1
    <2>4. NBLOCKS * BLOCK_SIZE \in Nat
      BY <1>1
    <2> QED  BY <1>1, <1>2, <2>2, <2>3, <2>4
  <1>4. NBLOCKS * BLOCK_SIZE \in Nat
    BY <1>1
  <1>5. ASSUME NEW a \in Bytes(b)
        PROVE  a \in b * BLOCK_SIZE .. b * BLOCK_SIZE + BLOCK_SIZE - 1
    BY <1>1, <1>2, <1>4, <1>5, Quotient DEF Bytes, Addresses, tm_block_index_at
  <1>6. ASSUME NEW a \in b * BLOCK_SIZE .. b * BLOCK_SIZE + BLOCK_SIZE - 1
        PROVE  a \in Bytes(b)
    <2>1. /\ a \in Addresses
          /\ b * BLOCK_SIZE <= a /\ a < b * BLOCK_SIZE + BLOCK_SIZE
      BY <1>1, <1>2, <1>3, <1>4 DEF Addresses
    <2> QED  BY <1>1, <2>1, QuotientIs DEF Bytes, Addresses, tm_block_index_at
  <1> QED  BY <1>5, <1>6

(* An address lies in one block, the one that its index names.             *)
LEMMA BlockOf ==
    ASSUME NEW a \in Addresses
    PROVE  /\ tm_block_index_at(a) \in Blocks
           /\ a \in Bytes(tm_block_index_at(a))
           /\ \A b : a \in Bytes(b) => b = tm_block_index_at(a)
  <1>1. /\ BLOCK_SIZE \in Nat \ {0} /\ NBLOCKS \in Nat \ {0}
        /\ NBLOCKS * BLOCK_SIZE \in Nat /\ a \in Nat
        /\ a < NBLOCKS * BLOCK_SIZE
    BY BlockAssumption DEF Addresses
  <1> DEFINE q == a \div BLOCK_SIZE
  <1>2. /\ q \in Int /\ q * BLOCK_SIZE \in Int
        /\ q * BLOCK_SIZE <= a /\ a < q * BLOCK_SIZE + BLOCK_SIZE
    BY <1>1, Quotient
  <1> HIDE DEF q
  <1>3. 0 <= q
    <2> SUFFICES ASSUME q < 0 PROVE FALSE
      BY <1>2
    <2>1. (0 - q - 1) \in Nat
      BY <1>2
    <2>2. (0 - q - 1) * BLOCK_SIZE \in Nat
      BY <1>1, <2>1
    <2>3. q * BLOCK_SIZE + BLOCK_SIZE = 0 - (0 - q - 1) * BLOCK_SIZE
      BY <1>1, <1>2
    <2> QED  BY <1>1, <1>2, <2>2, <2>3
  <1>4. q < NBLOCKS
    <2> SUFFICES ASSUME NBLOCKS <= q PROVE FALSE
      BY <1>1, <1>2
    <2>1. (q - NBLOCKS) \in Nat
      BY <1>1, <1>2
    <2>2. (q - NBLOCKS) * BLOCK_SIZE \in Nat
      BY <1>1, <2>1
    <2>3. q * BLOCK_SIZE = NBLOCKS * BLOCK_SIZE + (q - NBLOCKS) * BLOCK_SIZE
      BY <1>1, <1>2
    <2> QED  BY <1>1, <1>2, <2>2, <2>3
  <1> QED  BY <1>1, <1>2, <1>3, <1>4
              DEF Blocks, Bytes, tm_block_index_at, q

(* The bytes of a range that lie in its first block: they are an interval  *)
(* at its beginning, which ends with the range or with the block.          *)
FirstPart(addr, siz) ==
    {a \in Bytes(tm_block_index_at(addr)) : a >= addr /\ a < addr + siz}

\* It is not empty, and the rest of the range lies in other blocks.
LEMMA FirstPartIs ==
    ASSUME NEW addr \in Addresses, NEW siz \in Nat \ {0},
           addr + siz - 1 \in Addresses
    PROVE  LET S == FirstPart(addr, siz)
           IN  \E n \in Nat \ {0} :
                  /\ S = addr .. addr + n - 1
                  /\ Cardinality(S) = n /\ n <= siz
                  /\ n # siz =>
                       /\ addr + n \in Addresses
                       /\ \A a \in Addresses :
                             /\ a >= addr + n =>
                                  tm_block_index_at(a) # tm_block_index_at(addr)
                             /\ a \in Bytes(tm_block_index_at(addr + n))
                                  => a >= addr + n
  <1> DEFINE S == FirstPart(addr, siz)
             b == tm_block_index_at(addr)
             end == b * BLOCK_SIZE + BLOCK_SIZE
             n == IF addr + siz <= end THEN siz ELSE end - addr
  <1>1. /\ BLOCK_SIZE \in Nat \ {0} /\ addr \in Nat /\ b \in Nat
        /\ b \in Blocks /\ addr \in Bytes(b)
    BY BlockAssumption, BlockOf DEF Addresses, Blocks
  <1>2. b * BLOCK_SIZE \in Nat
    BY <1>1
  <1>3. Bytes(b) = b * BLOCK_SIZE .. end - 1
    BY <1>1, <1>2, BytesAre
  <1>4. end \in Nat /\ b * BLOCK_SIZE <= addr /\ addr < end
    BY <1>1, <1>2, <1>3
  <1>5. n \in Nat \ {0} /\ n <= siz
    BY <1>1, <1>4
  <1>6. S = addr .. addr + n - 1
    BY <1>1, <1>2, <1>3, <1>4 DEF FirstPart
  <1>7. Cardinality(S) = n
    <2> HIDE DEF S, n, b
    <2>1. addr \in Int /\ addr + n - 1 \in Int
      BY <1>1, <1>5
    <2>2. Cardinality(S) = IF addr > addr + n - 1 THEN 0
                           ELSE (addr + n - 1) - addr + 1
      BY <1>6, <2>1, FS_Interval
    <2> QED  BY <1>1, <1>5, <2>2
  <1>8. ASSUME n # siz
        PROVE  /\ addr + n = end
               /\ addr + n \in Addresses
    BY <1>1, <1>4, <1>5, <1>8, BlockAssumption DEF Addresses
  <1>9. ASSUME n # siz, NEW a \in Addresses, a >= addr + n
        PROVE  tm_block_index_at(a) # b
    BY <1>1, <1>3, <1>4, <1>8, <1>9, BlockOf
  <1>10. ASSUME n # siz, NEW a \in Addresses,
                a \in Bytes(tm_block_index_at(addr + n))
         PROVE  a >= addr + n
    <2> DEFINE c == tm_block_index_at(end)
    <2>1. c = b + 1
      BY <1>1, <1>2, <1>4, QuotientIs DEF tm_block_index_at
    <2>2. c \in Blocks
      BY <1>8, <1>10, BlockOf
    <2>3. c * BLOCK_SIZE = end
      BY <1>1, <2>1
    <2> HIDE DEF c
    <2>4. Bytes(c) = c * BLOCK_SIZE .. c * BLOCK_SIZE + BLOCK_SIZE - 1
      BY <2>2, BytesAre
    <2>5. a >= end
      BY <1>1, <1>4, <1>8, <1>10, <2>3, <2>4 DEF c
    <2> QED  BY <1>8, <1>10, <2>5
  <1> HIDE DEF n, b, S
  <1>11. n # siz =>
           /\ addr + n \in Addresses
           /\ \A a \in Addresses :
                 /\ a >= addr + n => tm_block_index_at(a) # b
                 /\ a \in Bytes(tm_block_index_at(addr + n)) => a >= addr + n
    BY <1>8, <1>9, <1>10
  <1> QED  BY <1>5, <1>6, <1>7, <1>11 DEF S, b

-----------------------------------------------------------------------------
(* The inductive invariant of the accesses.                                *)

(* Partial functions from addresses to values.                             *)
Contents == UNION {[S -> Values] : S \in SUBSET Addresses}

TMPage == [lock : Statuses, through : BOOLEAN, discarded : BOOLEAN,
           buf : Contents]
Flags == {"LOAD", "STORE"}
Jobs == [op : Ops, addr : Int, siz : Nat,
         arg : Values \cup Int \cup SUBSET Flags]

Types ==
    /\ memory \in [Addresses -> Values]
    /\ pages \in [Threads -> [Blocks -> TMPage]]
    /\ phase \in [Threads -> {"out", "run", "apply", "undo", "finish"}]
    /\ started \in [Threads -> 0 .. MAX_TX]
    /\ job \in [Threads -> Jobs]
    /\ pos \in [Threads -> 0 .. NBLOCKS]
    /\ calls \in [Threads -> Nat]
    /\ loadable \in [Threads -> SUBSET Addresses]
    /\ storable \in [Threads -> SUBSET Addresses]
    /\ seen \in [Threads -> Contents]
    /\ stored \in [Threads -> Contents]

(* A writer is alone on its block.                                         *)
Exclusive ==
    \A t, u \in Threads, b \in Blocks :
        pages[t][b].lock = "WRLOCKED" /\ u # t
            => pages[u][b].lock = "UNLOCKED"

(* A page without a lock is unused; after the end all pages are.           *)
PageFits(t, b) ==
    LET p == pages[t][b]
    IN  /\ DOMAIN p.buf \subseteq Bytes(b)
        /\ p.lock = "UNLOCKED" => p = tm_page_init
        /\ p.discarded => p.lock = "WRLOCKED"
        /\ phase[t] = "out" \/ (phase[t] = "finish" /\ b < pos[t])
              => p.lock = "UNLOCKED"

(* What the transaction knows is locked; what it changes is in a buffer.   *)
AccessFits(t) ==
    /\ \A a \in DOMAIN seen[t] \cup loadable[t] :
          Page(t, a).lock # "UNLOCKED"
    /\ \A a \in DOMAIN stored[t] \cup storable[t] :
          Page(t, a).lock = "WRLOCKED" /\ a \in DOMAIN Page(t, a).buf
    /\ DOMAIN stored[t] \subseteq DOMAIN seen[t]
    /\ phase[t] # "run" =>
          /\ DOMAIN seen[t] = {} /\ loadable[t] = {} /\ storable[t] = {}
          /\ job[t] = NoJob

(* A call stays within the memory, and a copy in its place.  A call that   *)
(* looks for the end of a string finds no other one before.                *)
JobFits(t) ==
    LET j == job[t]
        InMemory(addr) == addr \in Addresses /\ addr + j.siz - 1 \in Addresses
    IN  /\ j.op # "none" => j.siz # 0 /\ InMemory(j.addr)
        /\ j.op = "st" => j.arg \in Values
        /\ j.op = "ldst" => j.arg = 0
        /\ j.op = "privatize" => j.arg \in SUBSET Flags
        /\ j.op = "privatize_c" =>
              /\ j.arg \in (SUBSET Flags) \ {{}}
              /\ j.addr + j.siz = NBLOCKS * BLOCK_SIZE
              /\ Terminators({x \in DOMAIN Page(t, j.addr).buf :
                                 x < j.addr}) = {}

AccessInv ==
    /\ Types
    /\ Exclusive
    /\ \A t \in Threads :
          /\ \A b \in Blocks : PageFits(t, b)
          /\ AccessFits(t)
          /\ JobFits(t)

-----------------------------------------------------------------------------
(* Contents and pages.                                                     *)

\* A content is a function from some addresses to values.
LEMMA ContentsAre ==
    ASSUME NEW f
    PROVE  f \in Contents
              <=> f \in [DOMAIN f -> Values] /\ DOMAIN f \subseteq Addresses
  BY DEF Contents

\* Nothing is a content without an address.
LEMMA NothingIs ==
    Nothing \in Contents /\ DOMAIN Nothing = {}
  BY ContentsAre DEF Nothing

\* One content over another has the addresses of both.
LEMMA OverIs ==
    ASSUME NEW f, NEW g
    PROVE  /\ DOMAIN Over(f, g) = DOMAIN f \cup DOMAIN g
           /\ \A a \in DOMAIN f : Over(f, g)[a] = f[a]
           /\ \A a \in DOMAIN g \ DOMAIN f : Over(f, g)[a] = g[a]
           /\ Over(f, g) = [a \in DOMAIN Over(f, g) |-> Over(f, g)[a]]
  BY DEF Over

\* Contents over contents are contents.
LEMMA OverContents ==
    ASSUME NEW f \in Contents, NEW g \in Contents
    PROVE  Over(f, g) \in Contents
  BY ContentsAre DEF Over

\* Contents over the memory fill the memory.
LEMMA OverMemory ==
    ASSUME NEW f \in Contents, NEW m \in [Addresses -> Values]
    PROVE  /\ Over(f, m) \in [Addresses -> Values]
           /\ \A a \in DOMAIN f : Over(f, m)[a] = f[a]
           /\ \A a \in Addresses \ DOMAIN f : Over(f, m)[a] = m[a]
  BY ContentsAre DEF Over

\* A part of the memory is a content.
LEMMA MemoryPart ==
    ASSUME memory \in [Addresses -> Values], NEW S, S \subseteq Addresses
    PROVE  [a \in S |-> memory[a]] \in Contents
  BY ContentsAre

\* Locking changes nothing but the lock.
LEMMA LockedPage ==
    ASSUME NEW p \in TMPage
    PROVE  /\ Rdlocked(p) \in TMPage
           /\ Rdlocked(p).lock = IF p.lock = "UNLOCKED" THEN "RDLOCKED"
                                                        ELSE p.lock
           /\ Rdlocked(p).through = p.through
           /\ Rdlocked(p).discarded = p.discarded /\ Rdlocked(p).buf = p.buf
           /\ Wrlocked(p) \in TMPage /\ Wrlocked(p).lock = "WRLOCKED"
           /\ Wrlocked(p).through = p.through
           /\ Wrlocked(p).discarded = p.discarded /\ Wrlocked(p).buf = p.buf
  BY DEF TMPage, Rdlocked, Wrlocked, Statuses

\* Loading adds to the buffer what it lacks.
LEMMA LoadedPage ==
    ASSUME memory \in [Addresses -> Values],
           NEW p \in TMPage, NEW S, S \subseteq Addresses
    PROVE  LET q == tm_page_ld(p, S)
           IN  /\ q \in TMPage
               /\ q.lock = p.lock /\ q.through = p.through
               /\ q.discarded = p.discarded
               /\ DOMAIN q.buf = DOMAIN p.buf \cup S
               /\ \A a \in DOMAIN p.buf : q.buf[a] = p.buf[a]
               /\ \A a \in S \ DOMAIN p.buf : q.buf[a] = memory[a]
  <1> DEFINE g == [a \in S |-> memory[a]]
  <1>1. g \in Contents
    BY MemoryPart
  <1>2. p.buf \in Contents
    BY DEF TMPage
  <1>3. Over(p.buf, g) \in Contents
    BY <1>1, <1>2, OverContents
  <1>4. tm_page_ld(p, S) = [p EXCEPT !.buf = Over(p.buf, g)]
    BY DEF tm_page_ld
  <1>5. /\ DOMAIN Over(p.buf, g) = DOMAIN p.buf \cup S
        /\ \A a \in DOMAIN p.buf : Over(p.buf, g)[a] = p.buf[a]
        /\ \A a \in S \ DOMAIN p.buf : Over(p.buf, g)[a] = memory[a]
    BY DEF Over
  <1> HIDE DEF g
  <1> QED  BY <1>3, <1>4, <1>5 DEF TMPage

-----------------------------------------------------------------------------
(* What a step of thread t leaves alone.                                   *)
OthersRest(t) ==
    \A u \in Threads \ {t} :
        /\ pages'[u] = pages[u] /\ phase'[u] = phase[u] /\ job'[u] = job[u]
        /\ pos'[u] = pos[u] /\ loadable'[u] = loadable[u]
        /\ storable'[u] = storable[u] /\ seen'[u] = seen[u]
        /\ stored'[u] = stored[u]

(* It changes the memory only where it is the writer.                      *)
WritesLocked(t) ==
    \A a \in Addresses : \/ memory'[a] = memory[a]
                         \/ Page(t, a)'.lock = "WRLOCKED"

\* The memory under a page that is in use does not change.
LEMMA MemoryKept ==
    ASSUME AccessInv, Exclusive', NEW t \in Threads, OthersRest(t),
           WritesLocked(t), NEW u \in Threads \ {t}, NEW a \in Addresses,
           Page(u, a).lock # "UNLOCKED"
    PROVE  memory'[a] = memory[a]
  <1>1. tm_block_index_at(a) \in Blocks
    BY BlockOf
  <1>2. Page(u, a)' = Page(u, a)
    BY DEF OthersRest, Page
  <1>3. Page(t, a)'.lock # "WRLOCKED"
    BY <1>1, <1>2 DEF Exclusive, Page
  <1> QED  BY <1>3 DEF WritesLocked

\* The other threads' pages, accesses and calls still fit.
LEMMA OthersFit ==
    ASSUME AccessInv, Exclusive', NEW t \in Threads, OthersRest(t),
           WritesLocked(t), NEW u \in Threads \ {t}
    PROVE  (\A b \in Blocks : PageFits(u, b))' /\ AccessFits(u)' /\ JobFits(u)'
  <1>1. /\ pages'[u] = pages[u] /\ phase'[u] = phase[u] /\ job'[u] = job[u]
        /\ pos'[u] = pos[u] /\ loadable'[u] = loadable[u]
        /\ storable'[u] = storable[u] /\ seen'[u] = seen[u]
        /\ stored'[u] = stored[u]
    BY DEF OthersRest
  <1>2. (\A b \in Blocks : PageFits(u, b))'
    BY <1>1 DEF AccessInv, PageFits
  <1>3. AccessFits(u)'
    BY <1>1 DEF AccessInv, AccessFits, Page
  <1>4. ASSUME job[u].op = "privatize_c",
               NEW x \in DOMAIN Page(u, job[u].addr).buf
        PROVE  memory'[x] = memory[x]
    <2> DEFINE addr == job[u].addr
               b == tm_block_index_at(addr)
    <2>1. addr \in Addresses /\ b \in Blocks
      BY <1>4, BlockOf DEF AccessInv, JobFits
    <2>2. PageFits(u, b)
      BY <2>1 DEF AccessInv
    <2>3. x \in Bytes(b)
      BY <1>4, <2>2 DEF PageFits, Page
    <2>4. x \in Addresses /\ tm_block_index_at(x) = b
      BY <2>3, BlockOf DEF Bytes
    <2>5. Page(u, x).lock # "UNLOCKED"
      BY <1>4, <2>2, <2>4, NothingIs DEF PageFits, Page, tm_page_init
    <2> QED  BY <2>4, <2>5, MemoryKept
  <1>5. JobFits(u)
    BY DEF AccessInv
  <1>6. JobFits(u)'
    BY <1>1, <1>4, <1>5 DEF JobFits, Page, Terminators
  <1> QED  BY <1>2, <1>3, <1>6

-----------------------------------------------------------------------------
(* Calls.                                                                  *)

(* The page p of block b has become q, with a lock.                        *)
Grown(t, b, p, q) ==
    /\ q \in TMPage
    /\ q.lock # "UNLOCKED" /\ Readable(t, b)
    /\ p.lock = "WRLOCKED" => q.lock = "WRLOCKED"
    /\ q.lock = "WRLOCKED" /\ p.lock # "WRLOCKED" => Writable(t, b)
    /\ DOMAIN p.buf \subseteq DOMAIN q.buf
    /\ DOMAIN q.buf \subseteq Bytes(b)
    /\ q.discarded => q.lock = "WRLOCKED"

PagesGrow(t) ==
    \A b \in Blocks : \/ pages'[t][b] = pages[t][b]
                      \/ Grown(t, b, pages[t][b], pages'[t][b])

\* Locks that are granted exclude each other.
LEMMA GrowingPages ==
    ASSUME AccessInv, NEW t \in Threads, phase[t] = "run", phase' = phase,
           PagesGrow(t), OthersRest(t)
    PROVE  Exclusive' /\ (\A b \in Blocks : PageFits(t, b))'
  <1>1. \A u \in Threads \ {t} : pages'[u] = pages[u]
    BY DEF OthersRest
  <1>2. ASSUME NEW u \in Threads \ {t}, NEW b \in Blocks
        PROVE  /\ pages'[t][b].lock = "WRLOCKED"
                     => pages'[u][b].lock = "UNLOCKED"
               /\ pages'[u][b].lock = "WRLOCKED"
                     => pages'[t][b].lock = "UNLOCKED"
    <2>1. pages'[u][b] = pages[u][b]
      BY <1>1
    <2>2. /\ pages[t][b].lock = "WRLOCKED" => pages[u][b].lock = "UNLOCKED"
          /\ pages[u][b].lock = "WRLOCKED" => pages[t][b].lock = "UNLOCKED"
      BY DEF AccessInv, Exclusive
    <2>3. CASE pages'[t][b] = pages[t][b]
      BY <2>1, <2>2, <2>3
    <2>4. CASE Grown(t, b, pages[t][b], pages'[t][b])
      <3>1. Readable(t, b) => \/ pages[t][b].lock # "UNLOCKED"
                              \/ pages[u][b].lock # "WRLOCKED"
        BY DEF Readable
      <3>2. Writable(t, b) => pages[u][b].lock = "UNLOCKED"
        BY DEF Writable
      <3> QED  BY <2>1, <2>2, <2>4, <3>1, <3>2 DEF Grown
    <2> QED  BY <2>3, <2>4 DEF PagesGrow
  <1>3. Exclusive'
    <2>1. \A u, v \in Threads \ {t} : \A b \in Blocks :
             pages'[u][b] = pages[u][b] /\ pages'[v][b] = pages[v][b]
      BY <1>1
    <2> QED  BY <1>2, <2>1 DEF Exclusive, AccessInv
  <1>4. ASSUME NEW b \in Blocks
        PROVE  PageFits(t, b)'
    <2>1. PageFits(t, b)
      BY DEF AccessInv
    <2>2. CASE pages'[t][b] = pages[t][b]
      BY <2>1, <2>2 DEF PageFits
    <2>3. CASE Grown(t, b, pages[t][b], pages'[t][b])
      BY <2>3 DEF PageFits, Grown
    <2> QED  BY <2>2, <2>3 DEF PagesGrow
  <1> QED  BY <1>3, <1>4

(* What a call accesses in its next step lies in one block.                *)
LEMMA PartIs ==
    ASSUME AccessInv, NEW t \in Threads, job[t].op # "none"
    PROVE  /\ job[t].addr \in Addresses /\ job[t].addr \in Part(t)
           /\ Block(t) \in Blocks
           /\ Part(t) \subseteq Bytes(Block(t)) /\ Part(t) \subseteq Addresses
           /\ \A a \in Part(t) : tm_block_index_at(a) = Block(t)
  <1>1. /\ job[t].addr \in Addresses /\ job[t].siz \in Nat \ {0}
    BY DEF AccessInv, JobFits, Types, Jobs
  <1>2. /\ Block(t) \in Blocks
        /\ job[t].addr \in Bytes(Block(t))
    BY <1>1, BlockOf DEF Block
  <1>3. /\ Part(t) \subseteq Bytes(Block(t)) /\ Part(t) \subseteq Addresses
    BY DEF Part, Bytes
  <1>4. job[t].addr \in Part(t)
    BY <1>1, <1>2 DEF Part, Addresses
  <1> QED  BY <1>1, <1>2, <1>3, <1>4, BlockOf

(* A call that goes on stays within its range.                             *)
LEMMA CallGoesOn ==
    ASSUME AccessInv, NEW t \in Threads, job[t].op # "none",
           NEW n, n = Cardinality(Part(t)), Advance(t, n),
           (\A b \in Blocks : PageFits(t, b))'
    PROVE  job' \in [Threads -> Jobs] /\ JobFits(t)'
  <1> DEFINE j == job[t]
  <1>1. /\ j \in Jobs /\ j.siz \in Nat \ {0}
        /\ j.addr \in Addresses /\ j.addr + j.siz - 1 \in Addresses
    BY DEF AccessInv, JobFits, Types, Jobs
  <1>2. Part(t) = FirstPart(j.addr, j.siz)
    BY DEF Part, FirstPart, Block
  <1>3. /\ n \in Nat \ {0} /\ n <= j.siz
        /\ n # j.siz =>
              /\ j.addr + n \in Addresses
              /\ \A a \in Bytes(tm_block_index_at(j.addr + n)) : a >= j.addr + n
    BY <1>1, <1>2, FirstPartIs DEF Bytes
  <1>4. job \in [Threads -> Jobs]
    BY DEF AccessInv, Types
  <1>5. CASE n = j.siz
    <2>1. job' = [job EXCEPT ![t] = NoJob]
      BY <1>5, <1>4 DEF Advance, Rest
    <2>2. NoJob \in Jobs
      BY DEF NoJob, Jobs, Ops
    <2> QED  BY <1>4, <2>1, <2>2 DEF JobFits, NoJob
  <1>6. CASE n # j.siz
    <2>0. /\ j.addr \in Int /\ j.siz \in Int /\ n \in Int
          /\ j.siz - n \in Nat /\ j.siz - n # 0 /\ j.addr + n \in Int
          /\ (j.addr + n) + (j.siz - n) = j.addr + j.siz
          /\ (j.addr + n) + (j.siz - n) - 1 = j.addr + j.siz - 1
      BY <1>1, <1>3, <1>6 DEF Jobs
    <2>1. PICK k : k = Rest(j, n)
      OBVIOUS
    <2>2. /\ k \in Jobs /\ k.op = j.op /\ k.arg = j.arg
          /\ k.addr = j.addr + n /\ k.siz = j.siz - n
      BY <1>1, <1>6, <2>0, <2>1 DEF Jobs, Rest
    <2>3. job' \in [Threads -> Jobs] /\ job'[t] = k
      BY <1>4, <2>1, <2>2 DEF Advance
    <2>4. /\ k.siz # 0 /\ k.addr \in Addresses
          /\ k.addr + k.siz - 1 \in Addresses
          /\ k.addr + k.siz = j.addr + j.siz
      BY <1>1, <1>3, <1>6, <2>0, <2>2
    <2>6. DOMAIN pages'[t][tm_block_index_at(k.addr)].buf
             \subseteq Bytes(tm_block_index_at(k.addr))
      BY <2>4, BlockOf DEF PageFits
    <2>7. {x \in DOMAIN pages'[t][tm_block_index_at(k.addr)].buf : x < k.addr}
             = {}
      BY <1>3, <1>6, <2>2, <2>4, <2>6 DEF Addresses, Bytes
    <2>8. /\ k.op = "st" => k.arg \in Values
          /\ k.op = "ldst" => k.arg = 0
          /\ k.op = "privatize" => k.arg \in SUBSET Flags
          /\ k.op = "privatize_c" =>
                /\ k.arg \in (SUBSET Flags) \ {{}}
                /\ j.addr + j.siz = NBLOCKS * BLOCK_SIZE
      BY <2>2 DEF AccessInv, JobFits
    <2> QED  BY <2>3, <2>4, <2>7, <2>8
                DEF JobFits, Page, Terminators
  <1> QED  BY <1>5, <1>6

-----------------------------------------------------------------------------
(* What has to be shown of a step of thread t.                             *)
StepFits(t) ==
    /\ Types' /\ Exclusive'
    /\ OthersRest(t) /\ WritesLocked(t)
    /\ (\A b \in Blocks : PageFits(t, b))'
    /\ AccessFits(t)'
    /\ JobFits(t)'

\* It suffices, as the other threads rest.
LEMMA StepFitsAll ==
    ASSUME AccessInv, NEW t \in Threads, StepFits(t)
    PROVE  AccessInv'
  <1>1. ASSUME NEW u \in Threads
        PROVE  (\A b \in Blocks : PageFits(u, b))' /\ AccessFits(u)' /\ JobFits(u)'
    BY OthersFit DEF StepFits
  <1> QED  BY <1>1 DEF AccessInv, StepFits

\* The program begins a call.
LEMMA CallFits ==
    ASSUME AccessInv, NEW t \in Threads, UNCHANGED started,
           NEW op \in Ops \ {"none"}, NEW r, NEW arg, Call(t, op, r, arg),
           r[1] \in Addresses, r[2] \in Nat \ {0}, r[1] + r[2] - 1 \in Addresses,
           op = "st" => arg \in Values,
           op = "ldst" => arg = 0,
           op = "privatize" => arg \in SUBSET Flags,
           op = "privatize_c" =>
              /\ arg \in (SUBSET Flags) \ {{}}
              /\ r[1] + r[2] = NBLOCKS * BLOCK_SIZE
              /\ Terminators({x \in DOMAIN Page(t, r[1]).buf : x < r[1]}) = {},
           arg \in Values \cup Int \cup SUBSET Flags
    PROVE  StepFits(t)
  <1>1. PICK j : j = [op |-> op, addr |-> r[1], siz |-> r[2], arg |-> arg]
    OBVIOUS
  <1>2. /\ Types /\ Exclusive /\ AccessFits(t)
        /\ \A b \in Blocks : PageFits(t, b)
    BY DEF AccessInv
  <1>3. /\ phase[t] = "run" /\ job' = [job EXCEPT ![t] = j]
        /\ calls' = [calls EXCEPT ![t] = @ + 1]
        /\ UNCHANGED <<memory, pages, phase, pos, loadable, storable>>
        /\ UNCHANGED <<seen, stored>>
    BY <1>1 DEF Call, Busy, pageVars, inPlace, history
  <1>4. j \in Jobs
    BY <1>1 DEF Jobs, Addresses
  <1>5. job'[t] = j /\ job' \in [Threads -> Jobs]
    BY <1>2, <1>3, <1>4 DEF Types
  <1>6. Types'
    BY <1>2, <1>3, <1>5 DEF Types
  <1>7. OthersRest(t) /\ WritesLocked(t)
    BY <1>2, <1>3 DEF OthersRest, WritesLocked, Types
  <1>8. Exclusive' /\ (\A b \in Blocks : PageFits(t, b))'
    BY <1>2, <1>3 DEF Exclusive, PageFits
  <1>9. AccessFits(t)'
    BY <1>2, <1>3 DEF AccessFits, Page
  <1>10. JobFits(t)'
    BY <1>1, <1>3, <1>5 DEF JobFits, Page, Terminators
  <1> QED  BY <1>6, <1>7, <1>8, <1>9, <1>10 DEF StepFits

\* A range lies in the memory.
LEMMA RangeIs ==
    ASSUME NEW r \in Ranges
    PROVE  /\ r[1] \in Addresses /\ r[2] \in Nat \ {0}
           /\ r[1] + r[2] - 1 \in Addresses
  <1>1. r[1] \in Addresses /\ r[2] \in Nat \ {0} /\ Span(r) \subseteq Addresses
    BY RangesAssumption
  <1>2. r[1] + r[2] - 1 \in Span(r)
    BY <1>1 DEF Span, Addresses
  <1> QED  BY <1>1, <1>2

\* Every call of the program is one that stays within the memory.
LEMMA LoadCallFits ==
    ASSUME AccessInv, NEW t \in Threads, UNCHANGED started,
           __picotm_tm_load(t) \/ __picotm_tm_store(t) \/ __picotm_tm_privatize(t)
    PROVE  StepFits(t)
  <1>1. CASE __picotm_tm_load(t)
    <2>1. PICK r \in Ranges : Call(t, "ld", r, 0)
      BY <1>1 DEF __picotm_tm_load
    <2>2. "ld" \in Ops \ {"none"} /\ 0 \in Values \cup Int \cup SUBSET Flags
      BY DEF Ops
    <2>3. /\ r[1] \in Addresses /\ r[2] \in Nat \ {0}
          /\ r[1] + r[2] - 1 \in Addresses
      BY RangeIs
    <2> QED  BY <2>1, <2>2, <2>3, CallFits
  <1>2. CASE __picotm_tm_store(t)
    <2>1. PICK r \in Ranges, v \in Values : Call(t, "st", r, v)
      BY <1>2 DEF __picotm_tm_store
    <2> QED  BY <2>1, RangeIs, CallFits DEF Ops
  <1>3. CASE __picotm_tm_privatize(t)
    <2>1. PICK r \in Ranges, flags \in FlagSets : Call(t, "privatize", r, flags)
      BY <1>3 DEF __picotm_tm_privatize
    <2>2. flags \in SUBSET Flags
      BY FlagsAssumption DEF Flags
    <2> QED  BY <2>1, <2>2, RangeIs, CallFits DEF Ops
  <1> QED  BY <1>1, <1>2, <1>3

(* Copies from elsewhere, and strings that follow other strings in their   *)
(* block, are left to programs that take the risk.                         *)
LocksSuffice == Risks \cap {"copy", "string after string"} = {}

\* A copy stays in its place.
LEMMA CopyCallFits ==
    ASSUME LocksSuffice, AccessInv, NEW t \in Threads, UNCHANGED started,
           __picotm_tm_loadstore(t)
    PROVE  StepFits(t)
  <1>1. PICK r \in Ranges, s \in Addresses :
           s = r[1] /\ Call(t, "ldst", r, s - r[1])
    BY DEF __picotm_tm_loadstore, LocksSuffice
  <1>2. /\ r[1] \in Addresses /\ r[2] \in Nat \ {0}
        /\ r[1] + r[2] - 1 \in Addresses
    BY RangeIs
  <1>3. s - r[1] = 0
    BY <1>1, <1>2 DEF Addresses
  <1>4. "ldst" \in Ops \ {"none"} /\ 0 \in Values \cup Int \cup SUBSET Flags
    BY DEF Ops
  <1> QED  BY <1>1, <1>2, <1>3, <1>4, CallFits

\* A string begins where no other one has been found in the same block.
LEMMA StringCallFits ==
    ASSUME LocksSuffice, AccessInv, NEW t \in Threads, UNCHANGED started,
           __picotm_tm_privatize_c(t)
    PROVE  StepFits(t)
  <1>1. PICK a \in Starts, flags \in FlagSets \ {{}} :
           /\ Terminators({x \in DOMAIN Page(t, a).buf : x < a}) = {}
           /\ Call(t, "privatize_c", <<a, NBLOCKS * BLOCK_SIZE - a>>, flags)
    BY DEF __picotm_tm_privatize_c, LocksSuffice, Page
  <1>2. flags \in (SUBSET Flags) \ {{}}
    <2>1. flags \in FlagSets /\ flags # {}
      OBVIOUS
    <2>2. flags \in SUBSET Flags
      BY <2>1, FlagsAssumption DEF Flags
    <2> QED  BY <2>1, <2>2
  <1>3. PICK end \in Nat : end = NBLOCKS * BLOCK_SIZE
    BY BlockAssumption
  <1>4. a \in Addresses /\ Addresses = 0 .. end - 1
    BY <1>3, StringsAssumption DEF Addresses
  <1>5. PICK r : r = <<a, end - a>>
    OBVIOUS
  <1>6. /\ r[1] = a /\ r[2] = end - a /\ r[2] \in Nat \ {0}
        /\ r[1] + r[2] - 1 \in Addresses /\ r[1] + r[2] = end
    BY <1>4, <1>5
  <1>7. Call(t, "privatize_c", r, flags)
    BY <1>1, <1>3, <1>5
  <1> QED  BY <1>1, <1>2, <1>3, <1>4, <1>6, <1>7, CallFits DEF Ops

-----------------------------------------------------------------------------
(* The steps of a call.                                                    *)

\* Growing pages keep their locks and their buffers.
LEMMA GrowingKeeps ==
    ASSUME AccessInv, NEW t \in Threads, PagesGrow(t), NEW a \in Addresses
    PROVE  /\ Page(t, a).lock # "UNLOCKED" => Page(t, a)'.lock # "UNLOCKED"
           /\ Page(t, a).lock = "WRLOCKED" => Page(t, a)'.lock = "WRLOCKED"
           /\ DOMAIN Page(t, a).buf \subseteq DOMAIN Page(t, a)'.buf
  <1>1. tm_block_index_at(a) \in Blocks
    BY BlockOf
  <1> QED  BY <1>1 DEF PagesGrow, Grown, Page

\* A step of a call that gets the locks it needs.
LEMMA PageStepFits ==
    ASSUME AccessInv, NEW t \in Threads, phase[t] = "run",
           job[t].op # "none", UNCHANGED started,
           memory' \in [Addresses -> Values],
           pages' \in [Threads -> [Blocks -> TMPage]],
           loadable' \in [Threads -> SUBSET Addresses],
           storable' \in [Threads -> SUBSET Addresses],
           seen' \in [Threads -> Contents], stored' \in [Threads -> Contents],
           PagesGrow(t), OthersRest(t), WritesLocked(t),
           NEW n, n = Cardinality(Part(t)) \/ n = job[t].siz, Advance(t, n),
           \A a \in DOMAIN seen'[t] \cup loadable'[t] :
              \/ a \in DOMAIN seen[t] \cup loadable[t]
              \/ Page(t, a)'.lock # "UNLOCKED",
           \A a \in DOMAIN stored'[t] \cup storable'[t] :
              \/ a \in DOMAIN stored[t] \cup storable[t]
              \/ Page(t, a)'.lock = "WRLOCKED" /\ a \in DOMAIN Page(t, a)'.buf,
           DOMAIN stored'[t] \subseteq DOMAIN seen'[t]
    PROVE  StepFits(t)
  <1>1. UNCHANGED <<phase, pos, calls>>
    BY DEF Advance
  <1>2. Types /\ AccessFits(t)
    BY DEF AccessInv
  <1>3. Exclusive' /\ (\A b \in Blocks : PageFits(t, b))'
    BY <1>1, GrowingPages
  <1>4. job' \in [Threads -> Jobs] /\ JobFits(t)'
    <2>1. CASE n = Cardinality(Part(t))
      BY <1>3, <2>1, CallGoesOn
    <2>2. CASE n = job[t].siz
      <3>1. job' = [job EXCEPT ![t] = NoJob]
        BY <2>2 DEF Advance, Rest
      <3>2. NoJob \in Jobs
        BY DEF NoJob, Jobs, Ops
      <3>3. job' \in [Threads -> Jobs] /\ job'[t] = NoJob
        BY <1>2, <3>1, <3>2 DEF Types
      <3> QED  BY <3>3 DEF JobFits, NoJob
    <2> QED  BY <2>1, <2>2
  <1>5. Types'
    BY <1>1, <1>2, <1>4 DEF Types
  <1>6. DOMAIN seen[t] \cup loadable[t] \subseteq Addresses
    BY <1>2, ContentsAre DEF Types
  <1>7. DOMAIN stored[t] \cup storable[t] \subseteq Addresses
    BY <1>2, ContentsAre DEF Types
  <1>8. AccessFits(t)'
    <2>1. \A a \in DOMAIN seen'[t] \cup loadable'[t] :
             Page(t, a)'.lock # "UNLOCKED"
      BY <1>2, <1>6, GrowingKeeps DEF AccessFits
    <2>2. \A a \in DOMAIN stored'[t] \cup storable'[t] :
             Page(t, a)'.lock = "WRLOCKED" /\ a \in DOMAIN Page(t, a)'.buf
      BY <1>2, <1>7, GrowingKeeps DEF AccessFits
    <2> QED  BY <1>1, <2>1, <2>2 DEF AccessFits
  <1> QED  BY <1>3, <1>4, <1>5, <1>8 DEF StepFits

\* One page has changed, and it has grown.
LEMMA OnePageGrows ==
    ASSUME AccessInv, NEW t \in Threads, NEW b \in Blocks, NEW q,
           pages' = [pages EXCEPT ![t][b] = q], Grown(t, b, pages[t][b], q)
    PROVE  /\ pages' \in [Threads -> [Blocks -> TMPage]]
           /\ PagesGrow(t)
           /\ pages'[t][b] = q
           /\ \A c \in Blocks \ {b} : pages'[t][c] = pages[t][c]
           /\ \A u \in Threads \ {t} : pages'[u] = pages[u]
  <1>1. pages \in [Threads -> [Blocks -> TMPage]]
    BY DEF AccessInv, Types
  <1>2. q \in TMPage
    BY DEF Grown
  <1> QED  BY <1>1, <1>2 DEF PagesGrow

(* Page q is page p with the bytes of S loaded, and a lock.                *)
Loaded(p, S, q) ==
    /\ q.through = p.through /\ q.discarded = p.discarded
    /\ DOMAIN q.buf = DOMAIN p.buf \cup S
    /\ \A a \in DOMAIN p.buf : q.buf[a] = p.buf[a]
    /\ \A a \in S \ DOMAIN p.buf : q.buf[a] = memory[a]

\* The pages that calls prepare have grown, and hold what is accessed.
LEMMA PreparedPages ==
    ASSUME AccessInv, NEW t \in Threads, NEW b \in Blocks,
           NEW S, S \subseteq Bytes(b)
    PROVE  LET p == pages[t][b]
               r == tm_page_ld(Rdlocked(p), S)
               w == tm_page_ld(Wrlocked(p), S)
           IN  /\ r \in TMPage /\ w \in TMPage
               /\ ~r.discarded /\ Readable(t, b) => Grown(t, b, p, r)
               /\ ~w.discarded /\ Writable(t, b) => Grown(t, b, p, w)
               /\ w.lock = "WRLOCKED" /\ r.lock # "UNLOCKED"
               /\ p.lock # "UNLOCKED" => r.lock = p.lock
               /\ p.lock = "UNLOCKED" => r.lock = "RDLOCKED"
               /\ Loaded(p, S, r) /\ Loaded(p, S, w)
  <1>1. /\ memory \in [Addresses -> Values]
        /\ pages \in [Threads -> [Blocks -> TMPage]]
    BY DEF AccessInv, Types
  <1>2. PICK p, r, w : /\ p = pages[t][b]
                       /\ r = tm_page_ld(Rdlocked(p), S)
                       /\ w = tm_page_ld(Wrlocked(p), S)
    OBVIOUS
  <1>3. p \in TMPage /\ p.lock \in Statuses /\ S \subseteq Addresses
    BY <1>1, <1>2 DEF TMPage, Bytes
  <1>4. /\ r \in TMPage /\ w \in TMPage
        /\ w.lock = "WRLOCKED"
        /\ r.lock = IF p.lock = "UNLOCKED" THEN "RDLOCKED" ELSE p.lock
        /\ Loaded(p, S, r) /\ Loaded(p, S, w)
    <2>1. /\ Rdlocked(p) \in TMPage /\ Wrlocked(p) \in TMPage
      BY <1>3, LockedPage
    <2> QED  BY <1>1, <1>2, <1>3, <2>1, LockedPage, LoadedPage DEF Loaded
  <1>5. DOMAIN p.buf \subseteq Bytes(b)
    BY <1>2 DEF AccessInv, PageFits
  <1>6. Writable(t, b) => Readable(t, b)
    BY DEF Writable, Readable
  <1>7. /\ ~r.discarded /\ Readable(t, b) => Grown(t, b, p, r)
        /\ ~w.discarded /\ Writable(t, b) => Grown(t, b, p, w)
    BY <1>2, <1>3, <1>4, <1>5, <1>6 DEF Grown, Loaded, Statuses
  <1> QED  BY <1>2, <1>4, <1>7

\* A load.
LEMMA LoadFits ==
    ASSUME AccessInv, NEW t \in Threads, UNCHANGED started, tm_vmem_tx_ld(t)
    PROVE  StepFits(t)
  <1>1. PICK b, S : b = Block(t) /\ S = Part(t)
    OBVIOUS
  <1>2. PICK p : p = tm_page_ld(Rdlocked(pages[t][b]), S)
    OBVIOUS
  <1>3. PICK g : g = [a \in S |-> tm_page_buffer(p, a)]
    OBVIOUS
  <1>4. /\ phase[t] = "run" /\ job[t].op = "ld"
        /\ ~p.discarded /\ Readable(t, b)
        /\ pages' = [pages EXCEPT ![t][b] = p]
        /\ seen' = [seen EXCEPT ![t] = Over(g, @)]
        /\ Advance(t, Cardinality(S))
        /\ UNCHANGED <<memory, loadable, storable, stored>>
    BY <1>1, <1>2, <1>3 DEF tm_vmem_tx_ld, Busy, Show, inPlace
  <1>5. /\ b \in Blocks /\ S \subseteq Bytes(b) /\ S \subseteq Addresses
        /\ \A a \in S : tm_block_index_at(a) = b
    BY <1>1, <1>4, PartIs
  <1>6. /\ p \in TMPage /\ Grown(t, b, pages[t][b], p)
        /\ DOMAIN p.buf = DOMAIN pages[t][b].buf \cup S
    BY <1>2, <1>4, <1>5, PreparedPages DEF Loaded
  <1>7. Types /\ AccessFits(t)
    BY DEF AccessInv
  <1>8. g \in Contents /\ DOMAIN g = S
    <2>1. \A a \in S : tm_page_buffer(p, a) \in Values
      BY <1>5, <1>6, <1>7, ContentsAre DEF tm_page_buffer, Types, TMPage
    <2> QED  BY <1>3, <1>5, <2>1, ContentsAre
  <1>9. /\ seen' \in [Threads -> Contents]
        /\ seen'[t] = Over(g, seen[t])
        /\ \A u \in Threads \ {t} : seen'[u] = seen[u]
    <2>1. seen[t] \in Contents
      BY <1>7 DEF Types
    <2>2. Over(g, seen[t]) \in Contents
      BY <1>8, <2>1, OverContents
    <2> QED  BY <1>4, <1>7, <2>2 DEF Types
  <1>10. DOMAIN seen'[t] = S \cup DOMAIN seen[t]
    BY <1>8, <1>9 DEF Over
  <1>11. /\ pages' \in [Threads -> [Blocks -> TMPage]]
         /\ PagesGrow(t) /\ pages'[t][b] = p
         /\ \A u \in Threads \ {t} : pages'[u] = pages[u]
    BY <1>4, <1>5, <1>6, OnePageGrows
  <1>12. /\ \A u \in Threads \ {t} : job'[u] = job[u]
         /\ UNCHANGED <<phase, pos, calls>>
    BY <1>4, <1>7 DEF Advance, Types
  <1>13. OthersRest(t) /\ WritesLocked(t)
    BY <1>4, <1>9, <1>11, <1>12 DEF OthersRest, WritesLocked
  <1>14. \A a \in DOMAIN seen'[t] \cup loadable'[t] :
             \/ a \in DOMAIN seen[t] \cup loadable[t]
             \/ Page(t, a)'.lock # "UNLOCKED"
    BY <1>4, <1>5, <1>6, <1>10, <1>11 DEF Page, Grown
  <1>15. DOMAIN stored'[t] \subseteq DOMAIN seen'[t]
    BY <1>4, <1>7, <1>10 DEF AccessFits
  <1>16. /\ memory' \in [Addresses -> Values]
         /\ loadable' \in [Threads -> SUBSET Addresses]
         /\ storable' \in [Threads -> SUBSET Addresses]
         /\ stored' \in [Threads -> Contents]
    BY <1>4, <1>7 DEF Types
  <1>17. \A a \in DOMAIN stored'[t] \cup storable'[t] :
             a \in DOMAIN stored[t] \cup storable[t]
    BY <1>4
  <1> QED  BY <1>1, <1>4, <1>9, <1>11, <1>13, <1>14, <1>15, <1>16, <1>17,
              PageStepFits

\* What a transaction has been shown or has stored grows by contents f.
LEMMA Noted ==
    ASSUME NEW h \in [Threads -> Contents], NEW t \in Threads,
           NEW f \in Contents
    PROVE  LET h2 == [h EXCEPT ![t] = Over(f, @)]
           IN  /\ h2 \in [Threads -> Contents]
               /\ h2[t] = Over(f, h[t])
               /\ DOMAIN h2[t] = DOMAIN f \cup DOMAIN h[t]
               /\ \A u \in Threads \ {t} : h2[u] = h[u]
  <1>1. Over(f, h[t]) \in Contents
    BY OverContents
  <1> QED  BY <1>1 DEF Over

\* Values are copied into a page that a writer has prepared.
LEMMA CopyFits ==
    ASSUME AccessInv, NEW t \in Threads, NEW b \in Blocks,
           NEW p, Grown(t, b, pages[t][b], p), p.lock = "WRLOCKED",
           NEW f \in Contents, DOMAIN f \subseteq DOMAIN p.buf,
           CopyIntoBuffer(t, b, p, f)
    PROVE  /\ pages' \in [Threads -> [Blocks -> TMPage]]
           /\ PagesGrow(t)
           /\ \A c \in Blocks \ {b} : pages'[t][c] = pages[t][c]
           /\ \A u \in Threads \ {t} : pages'[u] = pages[u]
           /\ pages'[t][b].lock = "WRLOCKED"
           /\ pages'[t][b].through = p.through
           /\ pages'[t][b].discarded = p.discarded
           /\ DOMAIN pages'[t][b].buf = DOMAIN p.buf
           /\ pages'[t][b].buf = IF p.through THEN p.buf ELSE Over(f, p.buf)
           /\ memory' \in [Addresses -> Values]
           /\ memory' = IF p.through THEN Over(f, memory) ELSE memory
           /\ WritesLocked(t)
  <1>1. /\ p \in TMPage /\ p.buf \in Contents /\ p.through \in BOOLEAN
        /\ DOMAIN p.buf \subseteq Bytes(b)
    BY DEF Grown, TMPage
  <1>2. memory \in [Addresses -> Values]
    BY DEF AccessInv, Types
  <1>3. PICK q : q = IF p.through THEN p ELSE [p EXCEPT !.buf = Over(f, @)]
    OBVIOUS
  <1>4. /\ Over(f, p.buf) \in Contents
        /\ DOMAIN Over(f, p.buf) = DOMAIN p.buf
    BY <1>1, OverContents DEF Over
  <1>5. /\ q \in TMPage /\ q.lock = p.lock /\ q.through = p.through
        /\ q.discarded = p.discarded /\ DOMAIN q.buf = DOMAIN p.buf
        /\ q.buf = IF p.through THEN p.buf ELSE Over(f, p.buf)
    BY <1>1, <1>3, <1>4 DEF TMPage
  <1>6. Grown(t, b, pages[t][b], q)
    BY <1>5 DEF Grown
  <1>7. pages' = [pages EXCEPT ![t][b] = q]
    BY <1>3 DEF CopyIntoBuffer
  <1>8. /\ pages' \in [Threads -> [Blocks -> TMPage]]
        /\ PagesGrow(t) /\ pages'[t][b] = q
        /\ \A c \in Blocks \ {b} : pages'[t][c] = pages[t][c]
        /\ \A u \in Threads \ {t} : pages'[u] = pages[u]
    BY <1>6, <1>7, OnePageGrows
  <1>9. memory' = IF p.through THEN Over(f, memory) ELSE memory
    BY DEF CopyIntoBuffer
  <1>10. memory' \in [Addresses -> Values]
    BY <1>2, <1>9, OverMemory
  <1>11. \A a \in Addresses : memory'[a] # memory[a] => a \in Bytes(b)
    BY <1>1, <1>2, <1>9, OverMemory
  <1>12. WritesLocked(t)
    BY <1>5, <1>8, <1>11, BlockOf DEF WritesLocked, Page
  <1> QED  BY <1>5, <1>8, <1>9, <1>10, <1>12

(* The page of block b has become q, for writing to the addresses of S.    *)
Prepared(t, b, S, q) ==
    LET p == pages[t][b]
    IN  /\ Grown(t, b, p, q) /\ Loaded(p, S, q)
        /\ q.lock = "WRLOCKED" /\ ~p.discarded /\ ~q.discarded

(* A call stores the contents f: a store, or a copy.                       *)
Puts(t, q, f) ==
    /\ phase[t] = "run" /\ job[t].op \in {"st", "ldst"}
    /\ Prepared(t, Block(t), Part(t), q)
    /\ f \in Contents /\ DOMAIN f = Part(t)
    /\ CopyIntoBuffer(t, Block(t), q, f)
    /\ seen' = [seen EXCEPT ![t] = Over(f, @)]
    /\ stored' = [stored EXCEPT ![t] = Over(f, @)]
    /\ Advance(t, Cardinality(Part(t)))
    /\ UNCHANGED <<loadable, storable>>

\* A store does.
LEMMA StorePuts ==
    ASSUME AccessInv, NEW t \in Threads, tm_vmem_tx_st(t)
    PROVE  \E q, f : Puts(t, q, f)
  <1>1. PICK b, S : b = Block(t) /\ S = Part(t)
    OBVIOUS
  <1>2. PICK q : q = tm_page_ld(Wrlocked(pages[t][b]), S)
    OBVIOUS
  <1>3. PICK f : f = [a \in S |-> job[t].arg]
    OBVIOUS
  <1>4. /\ phase[t] = "run" /\ job[t].op = "st"
        /\ ~q.discarded /\ Writable(t, b)
        /\ CopyIntoBuffer(t, b, q, f)
        /\ seen' = [seen EXCEPT ![t] = Over(f, @)]
        /\ stored' = [stored EXCEPT ![t] = Over(f, @)]
        /\ Advance(t, Cardinality(S))
        /\ UNCHANGED <<loadable, storable>>
    BY <1>1, <1>2, <1>3 DEF tm_vmem_tx_st, prepare_page_st, Busy, Show, inPlace
  <1>5. b \in Blocks /\ S \subseteq Bytes(b) /\ S \subseteq Addresses
    BY <1>1, <1>4, PartIs
  <1>6. Prepared(t, b, S, q)
    <2>1. /\ Grown(t, b, pages[t][b], q) /\ q.lock = "WRLOCKED"
          /\ Loaded(pages[t][b], S, q)
      BY <1>2, <1>4, <1>5, PreparedPages
    <2> QED  BY <1>4, <2>1 DEF Prepared, Loaded
  <1>7. f \in Contents /\ DOMAIN f = S
    <2>1. job[t].arg \in Values
      BY <1>4 DEF AccessInv, JobFits
    <2> QED  BY <1>3, <1>5, <2>1, ContentsAre
  <1>8. Puts(t, q, f)
    BY <1>1, <1>4, <1>6, <1>7 DEF Puts
  <1> QED  BY <1>8

\* A copy stores what the transaction has in the same place.
LEMMA CopyPuts ==
    ASSUME AccessInv, NEW t \in Threads, tm_vmem_tx_ldst(t)
    PROVE  \E q : Puts(t, q, [a \in Part(t) |-> tm_page_buffer(q, a)])
  <1>1. PICK b, S : b = Block(t) /\ S = Part(t)
    OBVIOUS
  <1>2. PICK l : l = tm_page_ld(Rdlocked(pages[t][b]), S)
    OBVIOUS
  <1>3. PICK q : q = tm_page_ld(Wrlocked(l), S)
    OBVIOUS
  <1>4. PICK f : f = [a \in S |-> tm_page_buffer(q, a)]
    OBVIOUS
  <1>5. /\ phase[t] = "run" /\ job[t].op = "ldst" /\ job[t].arg = 0
    BY DEF tm_vmem_tx_ldst, Busy, AccessInv, JobFits
  <1>6. /\ b \in Blocks /\ S \subseteq Bytes(b) /\ S \subseteq Addresses
        /\ job[t].addr \in Addresses
    BY <1>1, <1>5, PartIs
  <1>7. \A a \in S \cup {job[t].addr} : a + 0 = a /\ a - 0 = a
    <2>1. Addresses \subseteq Int
      BY DEF Addresses
    <2> QED  BY <1>6, <2>1
  <1>8. PICK D : D = {a + job[t].arg : a \in S}
    OBVIOUS
  <1>9. PICK shown : shown = [a \in S |-> tm_page_buffer(l, a)]
    OBVIOUS
  <1>10. PICK copy : copy = [a \in D |-> shown[a - job[t].arg]]
    OBVIOUS
  <1>11. D = S /\ copy = shown
    <2>1. D = S
      BY <1>5, <1>7, <1>8
    <2> QED  BY <1>5, <1>7, <1>9, <1>10, <2>1
  <1>12. /\ ~l.discarded /\ ~q.discarded
         /\ Readable(t, b) /\ Writable(t, b)
         /\ CopyIntoBuffer(t, b, q, f)
         /\ seen' = [seen EXCEPT ![t] = Over(Over(copy, shown), @)]
         /\ stored' = [stored EXCEPT ![t] = Over(copy, @)]
         /\ Advance(t, Cardinality(S))
         /\ UNCHANGED <<loadable, storable>>
    <2>1. PICK c : c = tm_block_index_at(job[t].addr + job[t].arg)
      OBVIOUS
    <2>2. c = b
      BY <1>1, <1>5, <1>7, <2>1 DEF Block
    <2>3. PICK r : r = prepare_page_st(IF b = c THEN l ELSE pages[t][c], D)
      OBVIOUS
    <2>4. r = q
      BY <1>3, <1>11, <2>2, <2>3 DEF prepare_page_st
    <2>5. PICK g : g = [a \in S |-> tm_page_buffer(r, a + job[t].arg)]
      OBVIOUS
    <2>6. g = f
      BY <1>4, <1>5, <1>7, <2>4, <2>5
    <2>7. /\ ~l.discarded /\ ~r.discarded
          /\ Readable(t, b) /\ Writable(t, c)
          /\ b = c => CopyIntoBuffer(t, b, r, g)
          /\ Show(t, Over(copy, shown))
          /\ stored' = [stored EXCEPT ![t] = Over(copy, @)]
          /\ Advance(t, Cardinality(S))
          /\ UNCHANGED inPlace
      BY <1>1, <1>2, <1>8, <1>9, <1>10, <2>1, <2>3, <2>5 DEF tm_vmem_tx_ldst
    <2> QED  BY <2>2, <2>4, <2>6, <2>7 DEF Show, inPlace
  <1>13. PICK p : p = pages[t][b]
    OBVIOUS
  <1>14. /\ l \in TMPage /\ Grown(t, b, p, l)
         /\ l.through = p.through /\ l.discarded = p.discarded
         /\ DOMAIN l.buf = DOMAIN p.buf \cup S
         /\ \A a \in DOMAIN p.buf : l.buf[a] = p.buf[a]
         /\ \A a \in S \ DOMAIN p.buf : l.buf[a] = memory[a]
    <2>1. /\ Grown(t, b, pages[t][b], l)
          /\ Loaded(pages[t][b], S, l)
      BY <1>2, <1>6, <1>12, PreparedPages
    <2> QED  BY <1>13, <2>1 DEF Loaded, Grown
  <1>15. memory \in [Addresses -> Values]
    BY DEF AccessInv, Types
  <1>16. /\ q \in TMPage /\ q.lock = "WRLOCKED" /\ q.through = l.through
         /\ q.discarded = l.discarded
         /\ DOMAIN q.buf = DOMAIN l.buf
         /\ \A a \in DOMAIN l.buf : q.buf[a] = l.buf[a]
    <2>1. /\ Wrlocked(l) \in TMPage /\ Wrlocked(l).lock = "WRLOCKED"
          /\ Wrlocked(l).through = l.through
          /\ Wrlocked(l).discarded = l.discarded /\ Wrlocked(l).buf = l.buf
      BY <1>14, LockedPage
    <2> QED  BY <1>3, <1>6, <1>14, <1>15, <2>1, LoadedPage
  <1>17. Prepared(t, b, S, q)
    BY <1>12, <1>13, <1>14, <1>16 DEF Prepared, Loaded, Grown
  <1>18. shown = f
    BY <1>4, <1>9, <1>14, <1>16 DEF tm_page_buffer
  <1>19. Over(f, f) = f
    BY <1>4 DEF Over
  <1>20. f \in Contents /\ DOMAIN f = S
    <2>1. \A a \in S : tm_page_buffer(q, a) \in Values
      BY <1>6, <1>14, <1>15, <1>16, ContentsAre DEF tm_page_buffer, TMPage
    <2> QED  BY <1>4, <1>6, <2>1, ContentsAre
  <1>21. Puts(t, q, f)
    BY <1>1, <1>5, <1>11, <1>12, <1>17, <1>18, <1>19, <1>20 DEF Puts
  <1> QED  BY <1>1, <1>4, <1>21

\* Both keep the invariant.
LEMMA PutFits ==
    ASSUME AccessInv, NEW t \in Threads, UNCHANGED started,
           NEW q, NEW f, Puts(t, q, f)
    PROVE  StepFits(t)
  <1>1. PICK b, S : b = Block(t) /\ S = Part(t)
    OBVIOUS
  <1>2. /\ phase[t] = "run" /\ job[t].op \in {"st", "ldst"}
        /\ Grown(t, b, pages[t][b], q) /\ q.lock = "WRLOCKED"
        /\ DOMAIN q.buf = DOMAIN pages[t][b].buf \cup S
        /\ f \in Contents /\ DOMAIN f = S
        /\ CopyIntoBuffer(t, b, q, f)
        /\ seen' = [seen EXCEPT ![t] = Over(f, @)]
        /\ stored' = [stored EXCEPT ![t] = Over(f, @)]
        /\ Advance(t, Cardinality(S))
        /\ UNCHANGED <<loadable, storable>>
    BY <1>1 DEF Puts, Prepared, Loaded
  <1>3. /\ b \in Blocks /\ S \subseteq Bytes(b) /\ S \subseteq Addresses
        /\ \A a \in S : tm_block_index_at(a) = b
    BY <1>1, <1>2, PartIs
  <1>4. /\ Types /\ AccessFits(t)
        /\ seen \in [Threads -> Contents] /\ stored \in [Threads -> Contents]
    BY DEF AccessInv, Types
  <1>5. /\ seen' \in [Threads -> Contents]
        /\ DOMAIN seen'[t] = S \cup DOMAIN seen[t]
        /\ \A u \in Threads \ {t} : seen'[u] = seen[u]
    BY <1>2, <1>4, Noted
  <1>6. /\ stored' \in [Threads -> Contents]
        /\ DOMAIN stored'[t] = S \cup DOMAIN stored[t]
        /\ \A u \in Threads \ {t} : stored'[u] = stored[u]
    BY <1>2, <1>4, Noted
  <1>7. /\ pages' \in [Threads -> [Blocks -> TMPage]]
        /\ PagesGrow(t) /\ WritesLocked(t)
        /\ \A u \in Threads \ {t} : pages'[u] = pages[u]
        /\ memory' \in [Addresses -> Values]
        /\ pages'[t][b].lock = "WRLOCKED"
        /\ S \subseteq DOMAIN pages'[t][b].buf
    BY <1>2, <1>3, CopyFits
  <1>8. /\ \A u \in Threads \ {t} : job'[u] = job[u]
        /\ UNCHANGED <<phase, pos, calls>>
    BY <1>2, <1>4 DEF Advance, Types
  <1>9. OthersRest(t)
    BY <1>2, <1>5, <1>6, <1>7, <1>8 DEF OthersRest
  <1>10. \A a \in DOMAIN seen'[t] \cup loadable'[t] :
             \/ a \in DOMAIN seen[t] \cup loadable[t]
             \/ Page(t, a)'.lock # "UNLOCKED"
    BY <1>2, <1>3, <1>5, <1>7 DEF Page
  <1>11. DOMAIN stored'[t] \subseteq DOMAIN seen'[t]
    BY <1>4, <1>5, <1>6 DEF AccessFits
  <1>12. /\ loadable' \in [Threads -> SUBSET Addresses]
         /\ storable' \in [Threads -> SUBSET Addresses]
    BY <1>2, <1>4 DEF Types
  <1>13. \A a \in DOMAIN stored'[t] \cup storable'[t] :
            \/ a \in DOMAIN stored[t] \cup storable[t]
            \/ Page(t, a)'.lock = "WRLOCKED" /\ a \in DOMAIN Page(t, a)'.buf
    BY <1>2, <1>3, <1>6, <1>7 DEF Page
  <1>14. job[t].op # "none"
    BY <1>2
  <1> QED  BY <1>1, <1>2, <1>5, <1>6, <1>7, <1>9, <1>10, <1>11, <1>12,
              <1>13, <1>14, PageStepFits

-----------------------------------------------------------------------------
(* Privatization.                                                          *)

(* Page q of block b is ready for work in place, the bytes of S are saved. *)
Opened(t, b, S, flags, q) ==
    LET p == pages[t][b]
    IN  /\ Grown(t, b, p, q) /\ q.through /\ ~q.discarded
        /\ "STORE" \in flags => q.lock = "WRLOCKED"
        /\ DOMAIN q.buf = DOMAIN p.buf \cup S
        /\ \A a \in DOMAIN p.buf : q.buf[a] = p.buf[a]
        /\ \A a \in S \ DOMAIN p.buf : q.buf[a] = memory[a]

(* The page of the block has become q, on which the program works in       *)
(* place: the bytes of S have been saved, and it gets those of G.          *)
Opens(t, q, S, G) ==
    LET b == Block(t)
        flags == job[t].arg
    IN  /\ phase[t] = "run" /\ job[t].op \in {"privatize", "privatize_c"}
        /\ flags \in SUBSET Flags /\ flags # {}
        /\ ~pages[t][b].discarded
        /\ Opened(t, b, S, flags, q)
        /\ G \subseteq DOMAIN q.buf
        /\ pages' = [pages EXCEPT ![t][b] = q]
        /\ Grant(t, G, flags)
        /\ \/ Advance(t, Cardinality(Part(t)))
           \/ Advance(t, job[t].siz)
        /\ UNCHANGED <<memory, seen, stored>>

\* What is done to the page.
LEMMA OpenedPage ==
    ASSUME AccessInv, NEW t \in Threads, NEW b \in Blocks,
           NEW S, S \subseteq Bytes(b),
           NEW flags, flags \in SUBSET Flags, flags # {}, Lockable(t, b, flags),
           NEW l, l = IF "STORE" \in flags THEN Wrlocked(pages[t][b])
                                           ELSE Rdlocked(pages[t][b]),
           ~pages[t][b].discarded,
           NEW q, q = [tm_page_ld(l, S) EXCEPT !.through = TRUE]
    PROVE  Opened(t, b, S, flags, q)
  <1>1. PICK r : r = tm_page_ld(l, S)
    OBVIOUS
  <1>2. /\ "STORE" \in flags => Writable(t, b)
        /\ "STORE" \notin flags => flags = {"LOAD"} /\ Readable(t, b)
    BY DEF Lockable, Flags
  <1>3. /\ r \in TMPage /\ Loaded(pages[t][b], S, r)
        /\ "STORE" \in flags => r.lock = "WRLOCKED"
    BY <1>1, PreparedPages
  <1>4. Grown(t, b, pages[t][b], r)
    <2>1. ~r.discarded
      BY <1>3 DEF Loaded
    <2> QED  BY <1>1, <1>2, <2>1, PreparedPages
  <1>5. /\ q \in TMPage /\ q.through /\ q.lock = r.lock /\ q.buf = r.buf
        /\ q.discarded = r.discarded
    BY <1>1, <1>3 DEF TMPage
  <1> QED  BY <1>3, <1>4, <1>5 DEF Grown, Loaded, Opened

\* A region is privatized, or a string: in general the program works in place.
LEMMA OpenFits ==
    ASSUME AccessInv, NEW t \in Threads, UNCHANGED started,
           NEW q, NEW S, NEW G, Opens(t, q, S, G)
    PROVE  StepFits(t)
  <1>1. PICK b, flags : b = Block(t) /\ flags = job[t].arg
    OBVIOUS
  <1>2. /\ phase[t] = "run" /\ job[t].op # "none"
        /\ flags \in SUBSET Flags /\ flags # {}
        /\ Grown(t, b, pages[t][b], q)
        /\ "STORE" \in flags => q.lock = "WRLOCKED"
        /\ G \subseteq DOMAIN q.buf
        /\ pages' = [pages EXCEPT ![t][b] = q]
        /\ loadable' = [loadable EXCEPT ![t] =
               IF "LOAD" \in flags THEN @ \cup G ELSE @]
        /\ storable' = [storable EXCEPT ![t] =
               IF "STORE" \in flags THEN @ \cup G ELSE @]
        /\ \/ Advance(t, Cardinality(Part(t)))
           \/ Advance(t, job[t].siz)
        /\ UNCHANGED <<memory, seen, stored>>
    BY <1>1 DEF Opens, Opened, Grant
  <1>3. b \in Blocks
    BY <1>1, <1>2, PartIs
  <1>4. /\ Types /\ AccessFits(t)
    BY DEF AccessInv
  <1>5. /\ G \subseteq Bytes(b) /\ G \subseteq Addresses
        /\ \A a \in G : tm_block_index_at(a) = b
    <2>1. G \subseteq Bytes(b)
      BY <1>2 DEF Grown
    <2> QED  BY <2>1, BlockOf DEF Bytes
  <1>6. /\ pages' \in [Threads -> [Blocks -> TMPage]]
        /\ PagesGrow(t) /\ pages'[t][b] = q
        /\ \A u \in Threads \ {t} : pages'[u] = pages[u]
    BY <1>2, <1>3, OnePageGrows
  <1>7. /\ loadable' \in [Threads -> SUBSET Addresses]
        /\ loadable'[t] \subseteq loadable[t] \cup G
        /\ \A u \in Threads \ {t} : loadable'[u] = loadable[u]
    BY <1>2, <1>4, <1>5 DEF Types
  <1>8. /\ storable' \in [Threads -> SUBSET Addresses]
        /\ storable'[t] \subseteq storable[t] \cup G
        /\ "STORE" \notin flags => storable'[t] = storable[t]
        /\ \A u \in Threads \ {t} : storable'[u] = storable[u]
    BY <1>2, <1>4, <1>5 DEF Types
  <1>9. /\ \A u \in Threads \ {t} : job'[u] = job[u]
        /\ UNCHANGED <<phase, pos, calls>>
    BY <1>2, <1>4 DEF Advance, Types
  <1>10. OthersRest(t) /\ WritesLocked(t)
    BY <1>2, <1>6, <1>7, <1>8, <1>9 DEF OthersRest, WritesLocked
  <1>11. \A a \in DOMAIN seen'[t] \cup loadable'[t] :
             \/ a \in DOMAIN seen[t] \cup loadable[t]
             \/ Page(t, a)'.lock # "UNLOCKED"
    BY <1>2, <1>5, <1>6, <1>7 DEF Page, Grown
  <1>12. \A a \in DOMAIN stored'[t] \cup storable'[t] :
            \/ a \in DOMAIN stored[t] \cup storable[t]
            \/ Page(t, a)'.lock = "WRLOCKED" /\ a \in DOMAIN Page(t, a)'.buf
    BY <1>2, <1>5, <1>6, <1>8 DEF Page
  <1>13. /\ memory' \in [Addresses -> Values]
         /\ seen' \in [Threads -> Contents] /\ stored' \in [Threads -> Contents]
         /\ DOMAIN stored'[t] \subseteq DOMAIN seen'[t]
    BY <1>2, <1>4 DEF Types, AccessFits
  <1> QED  BY <1>2, <1>6, <1>7, <1>8, <1>10, <1>11, <1>12, <1>13, PageStepFits

\* A region is privatized for loading or storing.
LEMMA RegionOpens ==
    ASSUME AccessInv, NEW t \in Threads, tm_vmem_tx_privatize(t),
           job[t].arg # {}
    PROVE  \E q : Opens(t, q, Part(t), Part(t))
  <1>1. PICK b, S, flags : b = Block(t) /\ S = Part(t) /\ flags = job[t].arg
    OBVIOUS
  <1>2. PICK q : q = prepare_page_privatize(pages[t][b], S, flags)
    OBVIOUS
  <1>3. /\ phase[t] = "run" /\ job[t].op = "privatize"
        /\ ~pages[t][b].discarded
        /\ Lockable(t, b, flags)
        /\ pages' = [pages EXCEPT ![t][b] = q]
        /\ Grant(t, S, flags)
        /\ Advance(t, Cardinality(S))
        /\ UNCHANGED <<memory, seen, stored>>
    BY <1>1, <1>2 DEF tm_vmem_tx_privatize, Busy
  <1>4. flags \in SUBSET Flags /\ flags # {}
    BY <1>1, <1>3 DEF AccessInv, JobFits
  <1>5. b \in Blocks /\ S \subseteq Bytes(b)
    BY <1>1, <1>3, PartIs
  <1>6. PICK l : l = IF "STORE" \in flags THEN Wrlocked(pages[t][b])
                                          ELSE Rdlocked(pages[t][b])
    OBVIOUS
  <1>7. q = [tm_page_ld(l, S) EXCEPT !.through = TRUE]
    BY <1>2, <1>4, <1>6 DEF prepare_page_privatize
  <1>8. Opened(t, b, S, flags, q)
    BY <1>3, <1>4, <1>5, <1>6, <1>7, OpenedPage
  <1>9. S \subseteq DOMAIN q.buf
    BY <1>8 DEF Opened
  <1>10. Opens(t, q, S, S)
    BY <1>1, <1>3, <1>4, <1>8, <1>9 DEF Opens
  <1> QED  BY <1>1, <1>10

\* So is a string: what the program gets of it lies in the block and is saved.
LEMMA StringOpens ==
    ASSUME AccessInv, NEW t \in Threads, tm_vmem_tx_privatize_c(t)
    PROVE  \E q, S, G : S \subseteq Bytes(Block(t)) /\ Opens(t, q, S, G)
  <1>1. PICK b, P, flags, addr :
           /\ b = Block(t) /\ P = Part(t) /\ flags = job[t].arg
           /\ addr = job[t].addr
    OBVIOUS
  <1>2. PICK l : l = IF "STORE" \in flags THEN Wrlocked(pages[t][b])
                                          ELSE Rdlocked(pages[t][b])
    OBVIOUS
  <1>3. PICK E, S : /\ E = Terminators(Valid(l, P))
                    /\ S = Upto(P \ DOMAIN l.buf, E)
    OBVIOUS
  <1>4. PICK q, G : /\ q = [tm_page_ld(l, S) EXCEPT !.through = TRUE]
                    /\ G = IF E # {} THEN String(addr) ELSE P
    OBVIOUS
  <1>5. /\ phase[t] = "run" /\ job[t].op = "privatize_c"
        /\ ~pages[t][b].discarded
        /\ Lockable(t, b, flags)
        /\ pages' = [pages EXCEPT ![t][b] = q]
        /\ Grant(t, G, flags)
        /\ \/ Advance(t, Cardinality(P))
           \/ Advance(t, job[t].siz)
        /\ UNCHANGED <<memory, seen, stored>>
    BY <1>1, <1>2, <1>3, <1>4
       DEF tm_vmem_tx_privatize_c, tm_page_ld_c, Busy, history
  <1>6. /\ flags \in SUBSET Flags /\ flags # {}
        /\ addr + job[t].siz = NBLOCKS * BLOCK_SIZE
        /\ Terminators({x \in DOMAIN pages[t][b].buf : x < addr}) = {}
    BY <1>1, <1>5 DEF AccessInv, JobFits, Page, Block
  <1>7. /\ b \in Blocks /\ P \subseteq Bytes(b) /\ addr \in Addresses
        /\ b = tm_block_index_at(addr)
        /\ P = {a \in Bytes(b) : a >= addr /\ a < addr + job[t].siz}
    BY <1>1, <1>5, PartIs DEF Part, Block
  <1>8. PICK end \in Nat : end = NBLOCKS * BLOCK_SIZE
    BY BlockAssumption
  <1>9. Addresses = 0 .. end - 1
    BY <1>8 DEF Addresses
  <1>10. Bytes(b) \subseteq Addresses
    BY DEF Bytes
  <1>11. P = {a \in Bytes(b) : a >= addr}
    BY <1>6, <1>7, <1>8, <1>9, <1>10
  <1>12. /\ l.buf = pages[t][b].buf
         /\ DOMAIN l.buf \subseteq Bytes(b)
    <2>1. pages[t][b] \in TMPage /\ PageFits(t, b)
      BY <1>7 DEF AccessInv, Types
    <2> QED  BY <1>2, <2>1, LockedPage DEF PageFits
  <1>13. S \subseteq P /\ S \subseteq Bytes(b)
    BY <1>3, <1>7 DEF Upto
  <1>14. Opened(t, b, S, flags, q)
    BY <1>2, <1>4, <1>5, <1>6, <1>7, <1>13, OpenedPage
  <1>15. DOMAIN q.buf = DOMAIN l.buf \cup S
    BY <1>12, <1>14 DEF Opened
  <1>16. G \subseteq DOMAIN q.buf
    <2>1. CASE E = {}
      <3>1. S = P \ DOMAIN l.buf
        BY <1>3, <2>1 DEF Upto
      <3> QED  BY <1>4, <1>15, <2>1, <3>1
    <2>2. CASE E # {}
      <3>1. E \subseteq P
        <4> SUFFICES ASSUME NEW e \in E PROVE e >= addr /\ e \in Bytes(b)
          BY <1>11
        <4>1. /\ e \in DOMAIN l.buf \/ e \in P
              /\ memory[e] = Terminator
          BY <1>3 DEF Terminators, Valid
        <4>2. e \in Bytes(b) /\ e \in Int /\ addr \in Int
          BY <1>7, <1>9, <1>10, <1>12, <4>1
        <4>3. ~(e < addr)
          BY <1>6, <1>7, <1>9, <1>10, <1>12, <4>1, <4>2 DEF Terminators
        <4> QED  BY <4>2, <4>3
      <3>2. PICK e \in E : TRUE
        BY <2>2
      <3>3. ASSUME NEW a \in String(addr)
            PROVE  a \in DOMAIN q.buf
        <4>1. /\ a \in Addresses /\ a >= addr
              /\ \A x \in Addresses :
                    x >= addr /\ memory[x] = Terminator => a <= x
          BY <3>3 DEF String, Upto, Terminators
        <4>2. \A x \in E : x \in Addresses /\ x >= addr /\ memory[x] = Terminator
          BY <1>3, <1>10, <1>11, <3>1 DEF Terminators
        <4>3. \A x \in E : a <= x
          BY <4>1, <4>2
        <4>4. a \in Bytes(b)
          <5>1. Bytes(b) = b * BLOCK_SIZE .. b * BLOCK_SIZE + BLOCK_SIZE - 1
            BY <1>7, BytesAre
          <5>2. b * BLOCK_SIZE \in Int /\ BLOCK_SIZE \in Int
            BY <1>7, BlockAssumption DEF Blocks
          <5>3. addr \in Bytes(b) /\ e \in Bytes(b)
            BY <1>7, <3>1, BlockOf
          <5>4. a <= e /\ addr <= a /\ a \in Int
            BY <1>9, <4>1, <4>3
          <5> QED  BY <5>1, <5>2, <5>3, <5>4
        <4>5. a \in P
          BY <1>11, <4>1, <4>4
        <4> QED  BY <1>3, <1>15, <4>3, <4>5 DEF Upto
      <3> QED  BY <1>4, <2>2, <3>3
    <2> QED  BY <2>1, <2>2
  <1>17. Opens(t, q, S, G)
    BY <1>1, <1>5, <1>6, <1>14, <1>16 DEF Opens
  <1> QED  BY <1>1, <1>13, <1>17

\* Without flags the block is discarded.
LEMMA DiscardFits ==
    ASSUME AccessInv, NEW t \in Threads, UNCHANGED started,
           tm_vmem_tx_privatize(t), job[t].arg = {}
    PROVE  StepFits(t)
  <1>1. PICK b, p : b = Block(t) /\ p = pages[t][b]
    OBVIOUS
  <1>2. PICK q : q = [Wrlocked(p) EXCEPT !.discarded = TRUE]
    OBVIOUS
  <1>3. PICK f : f = IF p.through THEN stored[t]
                     ELSE [a \in DOMAIN stored[t] \ Bytes(b) |-> stored[t][a]]
    OBVIOUS
  <1>4. /\ phase[t] = "run" /\ job[t].op # "none" /\ ~p.discarded
        /\ Lockable(t, b, {})
        /\ pages' = [pages EXCEPT ![t][b] = q]
        /\ loadable' = [loadable EXCEPT ![t] = @ \ Bytes(b)]
        /\ storable' = [storable EXCEPT ![t] = @ \ Bytes(b)]
        /\ stored' = [stored EXCEPT ![t] = f]
        /\ Advance(t, Cardinality(Part(t)))
        /\ UNCHANGED <<memory, seen>>
    BY <1>1, <1>2, <1>3
       DEF tm_vmem_tx_privatize, prepare_page_privatize, Busy
  <1>5. b \in Blocks
    BY <1>1, <1>4, PartIs
  <1>6. Types /\ AccessFits(t) /\ PageFits(t, b)
    BY <1>5 DEF AccessInv
  <1>7. p \in TMPage
    BY <1>1, <1>5, <1>6 DEF Types
  <1>8. /\ q \in TMPage /\ q.lock = "WRLOCKED" /\ q.buf = p.buf
    <2>1. /\ Wrlocked(p) \in TMPage /\ Wrlocked(p).lock = "WRLOCKED"
          /\ Wrlocked(p).buf = p.buf
      BY <1>7, LockedPage
    <2> QED  BY <1>2, <2>1 DEF TMPage
  <1>9. Grown(t, b, p, q)
    <2>1. Writable(t, b)
      BY <1>4 DEF Lockable
    <2>2. Readable(t, b)
      BY <2>1 DEF Writable, Readable
    <2> QED  BY <1>1, <1>6, <1>8, <2>1, <2>2 DEF Grown, PageFits
  <1>10. /\ pages' \in [Threads -> [Blocks -> TMPage]]
         /\ PagesGrow(t)
         /\ \A u \in Threads \ {t} : pages'[u] = pages[u]
    BY <1>1, <1>4, <1>5, <1>9, OnePageGrows
  <1>11. f \in Contents /\ DOMAIN f \subseteq DOMAIN stored[t]
    <2>1. stored[t] \in Contents
      BY <1>6 DEF Types
    <2> QED  BY <1>3, <2>1, ContentsAre
  <1>12. /\ stored' \in [Threads -> Contents]
         /\ DOMAIN stored'[t] \subseteq DOMAIN stored[t]
         /\ \A u \in Threads \ {t} : stored'[u] = stored[u]
    BY <1>4, <1>6, <1>11 DEF Types
  <1>13. /\ loadable' \in [Threads -> SUBSET Addresses]
         /\ storable' \in [Threads -> SUBSET Addresses]
         /\ loadable'[t] \subseteq loadable[t]
         /\ storable'[t] \subseteq storable[t]
         /\ \A u \in Threads \ {t} : /\ loadable'[u] = loadable[u]
                                     /\ storable'[u] = storable[u]
    BY <1>4, <1>6 DEF Types
  <1>14. /\ \A u \in Threads \ {t} : job'[u] = job[u]
         /\ UNCHANGED <<phase, pos, calls>>
    BY <1>4, <1>6 DEF Advance, Types
  <1>15. OthersRest(t) /\ WritesLocked(t)
    BY <1>4, <1>10, <1>12, <1>13, <1>14 DEF OthersRest, WritesLocked
  <1>16. /\ \A a \in DOMAIN seen'[t] \cup loadable'[t] :
               a \in DOMAIN seen[t] \cup loadable[t]
         /\ \A a \in DOMAIN stored'[t] \cup storable'[t] :
               a \in DOMAIN stored[t] \cup storable[t]
    BY <1>4, <1>12, <1>13
  <1>17. /\ memory' \in [Addresses -> Values]
         /\ seen' \in [Threads -> Contents]
         /\ DOMAIN stored'[t] \subseteq DOMAIN seen'[t]
    BY <1>4, <1>6, <1>12 DEF Types, AccessFits
  <1> QED  BY <1>4, <1>10, <1>12, <1>13, <1>15, <1>16, <1>17, PageStepFits

-----------------------------------------------------------------------------
(* The program in the memory that it has privatized, and the way from the  *)
(* beginning to the end of a transaction.                                  *)

\* Reads and writes in place stay where locks are held.
LEMMA InPlaceFits ==
    ASSUME AccessInv, NEW t \in Threads, UNCHANGED started,
           ReadInPlace(t) \/ WriteInPlace(t)
    PROVE  StepFits(t)
  <1>1. /\ Types /\ AccessFits(t) /\ JobFits(t) /\ Exclusive
        /\ \A b \in Blocks : PageFits(t, b)
        /\ seen \in [Threads -> Contents] /\ stored \in [Threads -> Contents]
        /\ memory \in [Addresses -> Values]
    BY DEF AccessInv, Types
  <1>2. /\ phase[t] = "run" /\ job[t].op = "none"
        /\ UNCHANGED <<pages, phase, job, pos, calls, loadable, storable>>
    BY DEF ReadInPlace, WriteInPlace, Busy, inPlace, pageVars
  <1>3. PICK f, S :
           /\ f \in Contents /\ DOMAIN f = S
           /\ S \subseteq DOMAIN stored[t] \cup storable[t] \cup loadable[t]
           /\ seen' = [seen EXCEPT ![t] = Over(f, @)]
           /\ \/ stored' = stored /\ memory' = memory
              \/ /\ stored' = [stored EXCEPT ![t] = Over(f, @)]
                 /\ memory' = Over(f, memory)
                 /\ S \subseteq storable[t]
    <2>1. CASE ReadInPlace(t)
      <3>1. PICK f : f = [a \in loadable[t] |-> memory[a]]
        OBVIOUS
      <3>2. f \in Contents /\ DOMAIN f = loadable[t]
        BY <1>1, <3>1, ContentsAre DEF Types
      <3> QED  BY <2>1, <3>1, <3>2 DEF ReadInPlace, Show, pageVars
    <2>2. CASE WriteInPlace(t)
      <3>1. PICK v \in Values : LET f == [a \in storable[t] |-> v]
              IN  /\ memory' = Over(f, memory)
                  /\ Show(t, f)
                  /\ stored' = [stored EXCEPT ![t] = Over(f, @)]
        BY <2>2 DEF WriteInPlace
      <3>2. PICK f : f = [a \in storable[t] |-> v]
        OBVIOUS
      <3>3. f \in Contents /\ DOMAIN f = storable[t]
        BY <1>1, <3>2, ContentsAre DEF Types
      <3> QED  BY <3>1, <3>2, <3>3 DEF Show
    <2> QED  BY <2>1, <2>2
  <1>4. /\ seen' \in [Threads -> Contents]
        /\ DOMAIN seen'[t] = S \cup DOMAIN seen[t]
        /\ \A u \in Threads \ {t} : seen'[u] = seen[u]
    BY <1>1, <1>3, Noted
  <1>5. /\ stored' \in [Threads -> Contents]
        /\ DOMAIN stored'[t] \subseteq DOMAIN stored[t] \cup (S \cap storable[t])
        /\ \A u \in Threads \ {t} : stored'[u] = stored[u]
    BY <1>1, <1>3, Noted
  <1>6. S \subseteq Addresses
    BY <1>3, ContentsAre
  <1>7. /\ memory' \in [Addresses -> Values]
        /\ \A a \in Addresses \ storable[t] : memory'[a] = memory[a]
    BY <1>1, <1>3, <1>6, OverMemory
  <1>8. Types'
    BY <1>1, <1>2, <1>4, <1>5, <1>7 DEF Types
  <1>9. OthersRest(t)
    BY <1>2, <1>4, <1>5 DEF OthersRest
  <1>10. WritesLocked(t)
    BY <1>1, <1>2, <1>7 DEF WritesLocked, AccessFits, Page
  <1>11. Exclusive' /\ (\A b \in Blocks : PageFits(t, b))'
    BY <1>1, <1>2 DEF Exclusive, PageFits
  <1>12. JobFits(t)'
    BY <1>2 DEF JobFits
  <1>13. /\ \A a \in DOMAIN seen'[t] \cup loadable'[t] :
               Page(t, a)'.lock # "UNLOCKED"
         /\ \A a \in DOMAIN stored'[t] \cup storable'[t] :
               Page(t, a)'.lock = "WRLOCKED" /\ a \in DOMAIN Page(t, a)'.buf
    BY <1>1, <1>2, <1>3, <1>4, <1>5 DEF AccessFits, Page
  <1>14. DOMAIN stored'[t] \subseteq DOMAIN seen'[t]
    <2>1. CASE stored' = stored
      BY <1>1, <1>4, <2>1 DEF AccessFits
    <2>2. CASE stored' = [stored EXCEPT ![t] = Over(f, @)]
      <3>1. DOMAIN stored'[t] = S \cup DOMAIN stored[t]
        BY <1>1, <1>3, <2>2, Noted
      <3> QED  BY <1>1, <1>4, <3>1 DEF AccessFits
    <2> QED  BY <1>3, <2>1, <2>2
  <1>15. AccessFits(t)'
    BY <1>2, <1>13, <1>14 DEF AccessFits
  <1> QED  BY <1>8, <1>9, <1>10, <1>11, <1>12, <1>15 DEF StepFits

\* A transaction begins with unused pages.
LEMMA BeginFits ==
    ASSUME AccessInv, NEW t \in Threads, Begin(t)
    PROVE  StepFits(t)
  <1>1. /\ Types /\ AccessFits(t) /\ JobFits(t) /\ Exclusive
        /\ \A b \in Blocks : PageFits(t, b)
    BY DEF AccessInv
  <1>2. /\ started[t] < MAX_TX /\ started' = [started EXCEPT ![t] = @ + 1]
        /\ phase[t] = "out" /\ phase' = [phase EXCEPT ![t] = "run"]
        /\ UNCHANGED <<memory, pages, job, pos, calls, loadable, storable>>
        /\ UNCHANGED <<seen, stored>>
    BY DEF Begin, pageVars, inPlace, history
  <1>3. /\ phase' \in [Threads -> {"out", "run", "apply", "undo", "finish"}]
        /\ phase'[t] = "run"
        /\ \A u \in Threads \ {t} : phase'[u] = phase[u]
    BY <1>1, <1>2 DEF Types
  <1>4. started' \in [Threads -> 0 .. MAX_TX]
    BY <1>1, <1>2, BoundsAssumption DEF Types
  <1>5. Types'
    BY <1>1, <1>2, <1>3, <1>4 DEF Types
  <1>6. OthersRest(t) /\ WritesLocked(t)
    BY <1>2, <1>3 DEF OthersRest, WritesLocked
  <1>7. Exclusive' /\ (\A b \in Blocks : PageFits(t, b))'
    BY <1>1, <1>2, <1>3 DEF Exclusive, PageFits
  <1>8. AccessFits(t)'
    BY <1>1, <1>2, <1>3 DEF AccessFits, Page
  <1>9. JobFits(t)'
    BY <1>1, <1>2 DEF JobFits, Page, Terminators
  <1> QED  BY <1>5, <1>6, <1>7, <1>8, <1>9 DEF StepFits

\* At the end of its execution a transaction forgets, but keeps its pages.
LEMMA LeaveFits ==
    ASSUME AccessInv, NEW t \in Threads, UNCHANGED started,
           NEW p \in {"apply", "undo"}, phase[t] = "run", Leave(t, p)
    PROVE  StepFits(t)
  <1>1. /\ Types /\ Exclusive
        /\ \A b \in Blocks : PageFits(t, b)
    BY DEF AccessInv
  <1>2. /\ phase' = [phase EXCEPT ![t] = p]
        /\ job' = [job EXCEPT ![t] = NoJob]
        /\ pos' = [pos EXCEPT ![t] = 0]
        /\ calls' = [calls EXCEPT ![t] = 0]
        /\ loadable' = [loadable EXCEPT ![t] = {}]
        /\ storable' = [storable EXCEPT ![t] = {}]
        /\ seen' = [seen EXCEPT ![t] = Nothing]
        /\ stored' = [stored EXCEPT ![t] = Nothing]
        /\ UNCHANGED <<memory, pages>>
    BY DEF Leave, pageVars
  <1>3. NoJob \in Jobs /\ Nothing \in Contents /\ DOMAIN Nothing = {}
    BY NothingIs DEF NoJob, Jobs, Ops
  <1>4. 0 \in 0 .. NBLOCKS
    BY BlockAssumption
  <1>5. /\ phase' \in [Threads -> {"out", "run", "apply", "undo", "finish"}]
        /\ job' \in [Threads -> Jobs] /\ pos' \in [Threads -> 0 .. NBLOCKS]
        /\ calls' \in [Threads -> Nat]
        /\ loadable' \in [Threads -> SUBSET Addresses]
        /\ storable' \in [Threads -> SUBSET Addresses]
        /\ seen' \in [Threads -> Contents] /\ stored' \in [Threads -> Contents]
    BY <1>1, <1>2, <1>3, <1>4 DEF Types
  <1>6. /\ phase'[t] = p /\ job'[t] = NoJob
        /\ loadable'[t] = {} /\ storable'[t] = {}
        /\ DOMAIN seen'[t] = {} /\ DOMAIN stored'[t] = {}
    BY <1>1, <1>2, <1>3 DEF Types
  <1>7. Types'
    BY <1>1, <1>2, <1>5 DEF Types
  <1>8. OthersRest(t) /\ WritesLocked(t)
    BY <1>1, <1>2 DEF OthersRest, WritesLocked, Types
  <1>9. Exclusive' /\ (\A b \in Blocks : PageFits(t, b))'
    BY <1>1, <1>2, <1>6 DEF Exclusive, PageFits
  <1>10. AccessFits(t)'
    BY <1>6 DEF AccessFits
  <1>11. JobFits(t)'
    BY <1>6 DEF JobFits, NoJob
  <1> QED  BY <1>7, <1>8, <1>9, <1>10, <1>11 DEF StepFits

\* Commit and roll-back write where the transaction is the writer.
LEMMA WritePageFits ==
    ASSUME AccessInv, NEW t \in Threads, UNCHANGED started,
           apply_page(t) \/ undo_page(t)
    PROVE  StepFits(t)
  <1>1. /\ Types /\ AccessFits(t) /\ JobFits(t) /\ Exclusive
        /\ \A b \in Blocks : PageFits(t, b)
        /\ memory \in [Addresses -> Values]
    BY DEF AccessInv, Types
  <1>2. /\ phase[t] \in {"apply", "undo"} /\ pos[t] < NBLOCKS
        /\ pos' = [pos EXCEPT ![t] = @ + 1]
        /\ UNCHANGED <<pages, phase, job, calls, loadable, storable>>
        /\ UNCHANGED <<seen, stored>>
        /\ \/ memory' = memory
           \/ /\ pages[t][pos[t]].lock = "WRLOCKED"
              /\ memory' = Over(pages[t][pos[t]].buf, memory)
    BY DEF apply_page, undo_page, Walking, NextPage, Applies, Undoes,
           tm_page_st, inPlace, history
  <1>3. /\ pos[t] \in Blocks
        /\ pos' \in [Threads -> 0 .. NBLOCKS] /\ pos'[t] = pos[t] + 1
        /\ \A u \in Threads \ {t} : pos'[u] = pos[u]
    BY <1>1, <1>2, BlockAssumption DEF Types, Blocks
  <1>4. PICK f : f = pages[t][pos[t]].buf
    OBVIOUS
  <1>5. /\ f \in Contents /\ DOMAIN f \subseteq Bytes(pos[t])
    BY <1>1, <1>3, <1>4 DEF Types, TMPage, PageFits
  <1>6. /\ memory' \in [Addresses -> Values]
        /\ \A a \in Addresses :
              memory'[a] # memory[a] =>
                 a \in Bytes(pos[t]) /\ pages[t][pos[t]].lock = "WRLOCKED"
    BY <1>1, <1>2, <1>4, <1>5, OverMemory
  <1>7. Types'
    BY <1>1, <1>2, <1>3, <1>6 DEF Types
  <1>8. OthersRest(t)
    BY <1>2, <1>3 DEF OthersRest
  <1>9. WritesLocked(t)
    BY <1>2, <1>6, BlockOf DEF WritesLocked, Page
  <1>10. Exclusive' /\ (\A b \in Blocks : PageFits(t, b))'
    BY <1>1, <1>2 DEF Exclusive, PageFits
  <1>11. AccessFits(t)'
    BY <1>1, <1>2 DEF AccessFits, Page
  <1>12. JobFits(t)'
    BY <1>1, <1>2 DEF JobFits, AccessFits, NoJob
  <1> QED  BY <1>7, <1>8, <1>9, <1>10, <1>11, <1>12 DEF StepFits

\* The end gives the locks back, one page after the other.
LEMMA FinishPageFits ==
    ASSUME AccessInv, NEW t \in Threads, UNCHANGED started, finish_page(t)
    PROVE  StepFits(t)
  <1>1. /\ Types /\ AccessFits(t) /\ JobFits(t) /\ Exclusive
        /\ \A b \in Blocks : PageFits(t, b)
    BY DEF AccessInv
  <1>2. /\ phase[t] = "finish" /\ pos[t] < NBLOCKS
        /\ pos' = [pos EXCEPT ![t] = @ + 1]
        /\ pages' = [pages EXCEPT ![t][pos[t]] = tm_page_init]
        /\ UNCHANGED <<memory, phase, job, calls, loadable, storable>>
        /\ UNCHANGED <<seen, stored>>
    BY DEF finish_page, Walking, NextPage, inPlace, history
  <1>3. /\ pos[t] \in Blocks /\ pos[t] \in Nat
        /\ pos' \in [Threads -> 0 .. NBLOCKS] /\ pos'[t] = pos[t] + 1
        /\ \A u \in Threads \ {t} : pos'[u] = pos[u]
    BY <1>1, <1>2, BlockAssumption DEF Types, Blocks
  <1>4. /\ tm_page_init \in TMPage /\ tm_page_init.lock = "UNLOCKED"
        /\ ~tm_page_init.discarded /\ DOMAIN tm_page_init.buf = {}
    BY NothingIs DEF tm_page_init, TMPage, Statuses
  <1>5. /\ pages' \in [Threads -> [Blocks -> TMPage]]
        /\ pages'[t][pos[t]] = tm_page_init
        /\ \A b \in Blocks \ {pos[t]} : pages'[t][b] = pages[t][b]
        /\ \A u \in Threads \ {t} : pages'[u] = pages[u]
    BY <1>1, <1>2, <1>3, <1>4 DEF Types
  <1>6. Types'
    BY <1>1, <1>2, <1>3, <1>5 DEF Types
  <1>7. OthersRest(t) /\ WritesLocked(t)
    BY <1>2, <1>3, <1>5 DEF OthersRest, WritesLocked
  <1>8. Exclusive'
    <2>1. \A u \in Threads, b \in Blocks :
             \/ pages'[u][b] = pages[u][b]
             \/ pages'[u][b].lock = "UNLOCKED"
      BY <1>4, <1>5
    <2> QED  BY <1>1, <2>1 DEF Exclusive
  <1>9. ASSUME NEW b \in Blocks
        PROVE  PageFits(t, b)'
    <2>1. CASE b = pos[t]
      BY <1>4, <1>5, <2>1 DEF PageFits
    <2>2. CASE b # pos[t]
      BY <1>1, <1>2, <1>3, <1>5, <2>2 DEF PageFits, Blocks
    <2> QED  BY <2>1, <2>2
  <1>10. AccessFits(t)'
    BY <1>1, <1>2 DEF AccessFits
  <1>11. JobFits(t)'
    BY <1>1, <1>2 DEF JobFits, AccessFits, NoJob
  <1> QED  BY <1>6, <1>7, <1>8, <1>9, <1>10, <1>11 DEF StepFits

\* After the last page the next walk begins, or the transaction is out.
LEMMA WalkedFits ==
    ASSUME AccessInv, NEW t \in Threads, UNCHANGED started, Walked(t)
    PROVE  StepFits(t)
  <1>1. /\ Types /\ AccessFits(t) /\ JobFits(t) /\ Exclusive
        /\ \A b \in Blocks : PageFits(t, b)
    BY DEF AccessInv
  <1>2. /\ phase[t] \in {"apply", "undo", "finish"} /\ pos[t] = NBLOCKS
        /\ phase' = [phase EXCEPT ![t] = IF @ = "finish" THEN "out"
                                                         ELSE "finish"]
        /\ pos' = [pos EXCEPT ![t] = 0]
        /\ UNCHANGED <<memory, pages, job, calls, loadable, storable>>
        /\ UNCHANGED <<seen, stored>>
    BY DEF Walked, pageVars, inPlace, history
  <1>3. /\ pos' \in [Threads -> 0 .. NBLOCKS] /\ pos'[t] = 0
        /\ \A u \in Threads \ {t} : pos'[u] = pos[u]
    BY <1>1, <1>2, BlockAssumption DEF Types
  <1>4. /\ phase' \in [Threads -> {"out", "run", "apply", "undo", "finish"}]
        /\ phase'[t] = IF phase[t] = "finish" THEN "out" ELSE "finish"
        /\ \A u \in Threads \ {t} : phase'[u] = phase[u]
    BY <1>1, <1>2 DEF Types
  <1>5. Types'
    BY <1>1, <1>2, <1>3, <1>4 DEF Types
  <1>6. OthersRest(t) /\ WritesLocked(t)
    BY <1>2, <1>3, <1>4 DEF OthersRest, WritesLocked
  <1>7. Exclusive'
    BY <1>1, <1>2 DEF Exclusive
  <1>8. ASSUME NEW b \in Blocks
        PROVE  PageFits(t, b)'
    <2>1. b \in Int /\ 0 <= b /\ b < NBLOCKS /\ NBLOCKS \in Int
      BY BlockAssumption DEF Blocks
    <2> QED  BY <1>1, <1>2, <1>3, <1>4, <2>1 DEF PageFits
  <1>9. AccessFits(t)'
    BY <1>1, <1>2, <1>4 DEF AccessFits
  <1>10. JobFits(t)'
    BY <1>1, <1>2 DEF JobFits, AccessFits, NoJob
  <1> QED  BY <1>5, <1>6, <1>7, <1>8, <1>9, <1>10 DEF StepFits

-----------------------------------------------------------------------------
(* The invariant.                                                          *)

\* In the beginning no page is used, and nothing has been accessed.
LEMMA AccessInit ==
    VMInit => AccessInv
  <1> SUFFICES ASSUME VMInit PROVE AccessInv
    OBVIOUS
  <1>1. /\ NoJob \in Jobs /\ NoJob.op = "none"
        /\ Nothing \in Contents /\ DOMAIN Nothing = {}
        /\ 0 \in 0 .. NBLOCKS /\ 0 \in 0 .. MAX_TX
    BY NothingIs, BlockAssumption, BoundsAssumption DEF NoJob, Jobs, Ops
  <1>2. /\ tm_page_init \in TMPage /\ tm_page_init.lock = "UNLOCKED"
        /\ ~tm_page_init.discarded /\ DOMAIN tm_page_init.buf = {}
    BY <1>1 DEF tm_page_init, TMPage, Statuses
  <1>3. memory \in [Addresses -> Values]
    BY InitiallyAssumption DEF VMInit
  <1>4. Types
    BY <1>1, <1>2, <1>3 DEF VMInit, Types
  <1>5. \A t \in Threads, b \in Blocks : pages[t][b] = tm_page_init
    BY DEF VMInit
  <1>6. Exclusive
    BY <1>2, <1>5 DEF Exclusive
  <1>7. ASSUME NEW t \in Threads
        PROVE  (\A b \in Blocks : PageFits(t, b)) /\ AccessFits(t) /\ JobFits(t)
    <2>1. \A b \in Blocks : PageFits(t, b)
      BY <1>2, <1>5 DEF PageFits
    <2>2. AccessFits(t)
      BY <1>1 DEF AccessFits, VMInit
    <2>3. JobFits(t)
      BY <1>1 DEF JobFits, VMInit
    <2> QED  BY <2>1, <2>2, <2>3
  <1> QED  BY <1>4, <1>6, <1>7 DEF AccessInv

(* The steps of thread t.                                                  *)
ThreadStep(t) ==
    \/ Begin(t)
    \/ (VMStep(t) \/ ProgramStep(t)) /\ UNCHANGED started

\* Each of them fits.
LEMMA ThreadStepFits ==
    ASSUME LocksSuffice, AccessInv, NEW t \in Threads, ThreadStep(t)
    PROVE  StepFits(t)
  <1>1. CASE Begin(t)
    BY <1>1, BeginFits
  <1>2. CASE VMStep(t) /\ UNCHANGED started
    <2>1. CASE tm_vmem_tx_st(t) \/ tm_vmem_tx_ldst(t)
      BY <1>2, <2>1, StorePuts, CopyPuts, PutFits
    <2>2. CASE tm_vmem_tx_privatize(t)
      BY <1>2, <2>2, DiscardFits, RegionOpens, OpenFits
    <2>3. CASE tm_vmem_tx_privatize_c(t)
      BY <1>2, <2>3, StringOpens, OpenFits
    <2> QED  BY <1>2, <2>1, <2>2, <2>3, LoadFits, WritePageFits,
                FinishPageFits, WalkedFits DEF VMStep
  <1>3. CASE ProgramStep(t) /\ UNCHANGED started
    <2>1. CASE Commit(t) \/ Rollback(t)
      BY <1>3, <2>1, LeaveFits DEF Commit, Rollback, Busy
    <2> QED  BY <1>3, <2>1, LoadCallFits, CopyCallFits, StringCallFits,
                InPlaceFits DEF ProgramStep
  <1> QED  BY <1>1, <1>2, <1>3 DEF ThreadStep

\* Every step keeps the invariant.
LEMMA AccessNext ==
    ASSUME LocksSuffice, AccessInv, [VMNext]_vmVars
    PROVE  AccessInv'
  <1>1. CASE UNCHANGED vmVars
    <2>1. /\ UNCHANGED <<memory, pages, phase, started, job, pos, calls>>
          /\ UNCHANGED <<loadable, storable, seen, stored>>
      BY <1>1 DEF vmVars, inPlace, history
    <2>2. Types' /\ Exclusive'
      BY <2>1 DEF AccessInv, Types, Exclusive
    <2>3. ASSUME NEW t \in Threads
          PROVE  /\ (\A b \in Blocks : PageFits(t, b))'
                 /\ AccessFits(t)' /\ JobFits(t)'
      BY <2>1 DEF AccessInv, PageFits, AccessFits, JobFits, Page, Terminators
    <2> QED  BY <2>2, <2>3 DEF AccessInv
  <1>2. CASE VMNext
    BY <1>2, ThreadStepFits, StepFitsAll DEF VMNext, ThreadStep
  <1> QED  BY <1>1, <1>2

(* Locks and buffers: in every state of a program that keeps to LocksSuffice *)
(* a writer is alone on its block, accesses are locked, what is changed has  *)
(* been saved, and calls stay within the memory.                             *)
THEOREM AccessInvariant ==
    LocksSuffice /\ VMSpec => []AccessInv
  <1> SUFFICES ASSUME LocksSuffice PROVE VMSpec => []AccessInv
    OBVIOUS
  <1>1. VMInit => AccessInv
    BY AccessInit
  <1>2. AccessInv /\ [VMNext]_vmVars => AccessInv'
    BY AccessNext
  <1> QED  BY <1>1, <1>2, PTL DEF VMSpec

(* Two-phase locking: whatever a transaction has read or may read in place  *)
(* is locked for it, and whatever it has changed or may change is locked    *)
(* for it alone, until it ends.                                             *)
THEOREM AccessesStayLocked ==
    LocksSuffice /\ VMSpec => []AccessesAreLocked
  <1>1. ASSUME AccessInv PROVE AccessesAreLocked
    <2>1. VMTypeOK
      <3>1. /\ memory \in [Addresses -> Values]
            /\ phase \in [Threads -> {"out", "run", "apply", "undo", "finish"}]
            /\ started \in [Threads -> 0 .. MAX_TX]
            /\ pos \in [Threads -> 0 .. NBLOCKS]
            /\ calls \in [Threads -> Nat]
        BY <1>1 DEF AccessInv, Types
      <3>2. ASSUME NEW t \in Threads, NEW b \in Blocks
            PROVE  /\ pages[t][b].lock \in Statuses
                   /\ pages[t][b].through \in BOOLEAN
                   /\ pages[t][b].discarded \in BOOLEAN
                   /\ DOMAIN pages[t][b].buf \subseteq Bytes(b)
                   /\ \A a \in DOMAIN pages[t][b].buf :
                         pages[t][b].buf[a] \in Values
        <4>1. pages[t][b] \in TMPage
          BY <1>1 DEF AccessInv, Types
        <4> QED  BY <1>1, <4>1, ContentsAre DEF TMPage, AccessInv, PageFits
      <3>3. ASSUME NEW t \in Threads
            PROVE  /\ job[t].op \in Ops /\ job[t].siz \in Nat
                   /\ loadable[t] \cup storable[t] \subseteq Addresses
                   /\ DOMAIN stored[t] \subseteq DOMAIN seen[t]
        BY <1>1 DEF AccessInv, Types, Jobs, AccessFits
      <3> QED  BY <3>1, <3>2, <3>3 DEF VMTypeOK
    <2> QED  BY <1>1, <2>1 DEF AccessInv, AccessFits, AccessesAreLocked
  <1> QED  BY <1>1, AccessInvariant, PTL

(* Whatever a transaction has changed in place, or may change, has been     *)
(* saved in the page's buffer, from which a roll-back restores it.          *)
THEOREM UndoCanAlwaysRestore ==
    LocksSuffice /\ VMSpec => []UndoCanRestore
  <1>1. AccessInv => UndoCanRestore
    BY DEF AccessInv, AccessFits, UndoCanRestore
  <1> QED  BY <1>1, AccessInvariant, PTL

-----------------------------------------------------------------------------
(* What the buffers hold.                                                  *)

(* The value of address a to the transaction.                              *)
Own(t, a) == IF a \in DOMAIN stored[t] THEN stored[t][a] ELSE memory[a]

(* In write-back mode the buffer has the transaction's value; in           *)
(* write-through mode the memory has it, and the buffer the one before.    *)
BufferFits(t, p, a) ==
    IF p.through
    THEN memory[a] = IF a \in DOMAIN stored[t] THEN stored[t][a] ELSE p.buf[a]
    ELSE p.discarded \/ p.buf[a] = Own(t, a)

(* The buffer has nothing that the memory does not have.                   *)
Agrees(p) == \A a \in DOMAIN p.buf : memory[a] = p.buf[a]

InUse(t, b) == (loadable[t] \cup storable[t]) \cap Bytes(b)
StoredIn(t, b) == DOMAIN stored[t] \cap Bytes(b)

(* Pages that have been applied or undone are in the memory.               *)
WalkFits(t, b) ==
    LET p == pages[t][b]
    IN  /\ phase[t] = "apply" /\ Applies(p) /\ b < pos[t] => Agrees(p)
        /\ phase[t] = "undo" /\ p.lock = "WRLOCKED" /\ p.through
              => (Undoes(p) /\ b >= pos[t]) \/ Agrees(p)

(* In-place work is in write-through mode.  What has been discarded is not *)
(* used any more, and need not be undone.                                  *)
ValuesFit(t, b) ==
    LET p == pages[t][b]
    IN  /\ InUse(t, b) # {} => p.through
        /\ p.discarded => InUse(t, b) = {} /\ StoredIn(t, b) = {}
        /\ phase[t] = "run" => \A a \in DOMAIN p.buf : BufferFits(t, p, a)
        /\ WalkFits(t, b)

(* The blocks that a call still has to go through.                         *)
Ahead(j) == {tm_block_index_at(a) : a \in j.addr .. j.addr + j.siz - 1}

(* A privatization finds no stores that it would lose.                     *)
PlanFits(t) ==
    LET j == job[t]
    IN  /\ j.op = "privatize" =>
              IF j.arg = {} THEN ~Modified(t, Ahead(j))
                            ELSE ~Buffered(t, Ahead(j))
        /\ j.op = "privatize_c" => ~Buffered(t, Ahead(j))

MemoryInv ==
    /\ AccessInv
    /\ \A t \in Threads : (\A b \in Blocks : ValuesFit(t, b)) /\ PlanFits(t)

(* What transaction t contributes to the committed memory.                 *)
Committed(t, a) == IF Keeps(t, a) THEN Page(t, a).buf[a] ELSE memory[a]

CommittedFrom(t, a) ==
    /\ Keeps(t, a) => CommittedMemory[a] = Page(t, a).buf[a]
    /\ (\A u \in Threads \ {t} : ~Keeps(u, a))
          => CommittedMemory[a] = Committed(t, a)

\* One transaction at a time decides what is committed at an address.
LEMMA CommittedIs ==
    Exclusive => \A t \in Threads, a \in Addresses : CommittedFrom(t, a)
  <1> SUFFICES ASSUME Exclusive, NEW t \in Threads, NEW a \in Addresses
               PROVE  CommittedFrom(t, a)
    OBVIOUS
  <1>1. \A u \in Threads : Keeps(u, a) /\ Keeps(t, a) => u = t
    BY BlockOf DEF Exclusive, Keeps, Page
  <1>2. CommittedMemory[a] =
           IF \E u \in Threads : Keeps(u, a)
           THEN Page(CHOOSE u \in Threads : Keeps(u, a), a).buf[a]
           ELSE memory[a]
    BY DEF CommittedMemory
  <1>3. CASE Keeps(t, a)
    <2>1. (CHOOSE u \in Threads : Keeps(u, a)) = t
      BY <1>1, <1>3
    <2> QED  BY <1>2, <1>3, <2>1 DEF CommittedFrom, Committed
  <1>4. CASE ~Keeps(t, a)
    <2>1. (\A u \in Threads \ {t} : ~Keeps(u, a))
             => ~ \E u \in Threads : Keeps(u, a)
      BY <1>4
    <2> QED  BY <1>2, <1>4, <2>1 DEF CommittedFrom, Committed
  <1> QED  BY <1>3, <1>4

\* So it is after a step.
LEMMA CommittedBecomes ==
    Exclusive' => (\A t \in Threads, a \in Addresses : CommittedFrom(t, a))'
  BY CommittedIs, PTL

\* A step of one transaction changes what is committed only as it itself does.
LEMMA CommittedStep ==
    ASSUME Exclusive, Exclusive', NEW t \in Threads, OthersRest(t),
           NEW a \in Addresses
    PROVE  \/ /\ CommittedMemory'[a] = CommittedMemory[a]
              /\ \E u \in Threads \ {t} : Keeps(u, a)
           \/ /\ CommittedMemory[a] = Committed(t, a)
              /\ CommittedMemory'[a] = Committed(t, a)'
  <1>1. \A u \in Threads \ {t} :
           /\ Page(u, a)' = Page(u, a)
           /\ Keeps(u, a)' <=> Keeps(u, a)
    BY DEF OthersRest, Page, Keeps
  <1>2. \A u \in Threads : CommittedFrom(u, a) /\ CommittedFrom(u, a)'
    BY CommittedIs, CommittedBecomes
  <1>3. CASE \E u \in Threads \ {t} : Keeps(u, a)
    <2>1. PICK u \in Threads \ {t} : Keeps(u, a)
      BY <1>3
    <2>2. /\ CommittedMemory[a] = Page(u, a).buf[a]
          /\ CommittedMemory'[a] = Page(u, a)'.buf[a]
      BY <1>1, <1>2, <2>1 DEF CommittedFrom
    <2> QED  BY <1>1, <2>1, <2>2
  <1>4. CASE \A u \in Threads \ {t} : ~Keeps(u, a)
    BY <1>1, <1>2, <1>4 DEF CommittedFrom
  <1> QED  BY <1>3, <1>4

\* What the transaction leaves as it is remains committed.
LEMMA CommittedKept ==
    ASSUME Exclusive, Exclusive', NEW t \in Threads, OthersRest(t),
           \A a \in Addresses : Committed(t, a)' = Committed(t, a)
    PROVE  CommittedMemory' = CommittedMemory
  <1>1. \A a \in Addresses : CommittedMemory'[a] = CommittedMemory[a]
    BY CommittedStep
  <1>2. /\ CommittedMemory = [a \in Addresses |-> CommittedMemory[a]]
        /\ CommittedMemory' = [a \in Addresses |-> CommittedMemory'[a]]
    BY DEF CommittedMemory
  <1> QED  BY <1>1, <1>2

-----------------------------------------------------------------------------
(* Steps and the values.                                                   *)

(* What has to be shown of a step of thread t.                             *)
StepValues(t) == (\A b \in Blocks : ValuesFit(t, b))' /\ PlanFits(t)'

\* The other threads' values still fit.
LEMMA OthersValues ==
    ASSUME MemoryInv, NEW t \in Threads, StepFits(t), NEW u \in Threads \ {t}
    PROVE  StepValues(u)
  <1>1. /\ pages'[u] = pages[u] /\ phase'[u] = phase[u] /\ job'[u] = job[u]
        /\ pos'[u] = pos[u] /\ loadable'[u] = loadable[u]
        /\ storable'[u] = storable[u] /\ stored'[u] = stored[u]
    BY DEF OthersRest, StepFits
  <1>2. ASSUME NEW b \in Blocks
        PROVE  ValuesFit(u, b)'
    <2>1. ValuesFit(u, b) /\ PageFits(u, b)
      BY DEF MemoryInv, AccessInv
    <2>2. ASSUME NEW a \in DOMAIN pages[u][b].buf
          PROVE  memory'[a] = memory[a]
      <3>1. a \in Addresses /\ tm_block_index_at(a) = b
        BY <2>1 DEF PageFits, Bytes
      <3>2. Page(u, a).lock # "UNLOCKED"
        BY <2>1, <3>1, NothingIs DEF PageFits, Page, tm_page_init
      <3> QED  BY <3>1, <3>2, MemoryKept DEF MemoryInv, StepFits
    <2>3. InUse(u, b)' = InUse(u, b) /\ StoredIn(u, b)' = StoredIn(u, b)
      BY <1>1 DEF InUse, StoredIn
    <2>4. \A a \in DOMAIN pages[u][b].buf :
             BufferFits(u, pages[u][b], a) => BufferFits(u, pages[u][b], a)'
      BY <1>1, <2>2 DEF BufferFits, Own
    <2>5. Agrees(pages[u][b]) => Agrees(pages[u][b])'
      BY <1>1, <2>2 DEF Agrees
    <2> QED  BY <1>1, <2>1, <2>3, <2>4, <2>5
                DEF ValuesFit, WalkFits, Applies, Undoes
  <1>3. PlanFits(u)'
    BY <1>1 DEF MemoryInv, PlanFits, Modified, Buffered
  <1> QED  BY <1>2, <1>3 DEF StepValues

\* It suffices to look at the thread that takes the step.
LEMMA StepValuesAll ==
    ASSUME MemoryInv, NEW t \in Threads, StepFits(t), StepValues(t)
    PROVE  MemoryInv'
  <1>1. AccessInv'
    BY StepFitsAll DEF MemoryInv
  <1>2. ASSUME NEW u \in Threads PROVE StepValues(u)
    BY OthersValues
  <1> QED  BY <1>1, <1>2 DEF MemoryInv, StepValues

(* The step has nothing to do with block b.                                *)
SameIn(t, b) ==
    /\ pages'[t][b] = pages[t][b]
    /\ \A a \in Bytes(b) :
          /\ memory'[a] = memory[a]
          /\ a \in DOMAIN stored'[t] <=> a \in DOMAIN stored[t]
          /\ a \in DOMAIN stored[t] => stored'[t][a] = stored[t][a]
          /\ a \in loadable'[t] => a \in loadable[t]
          /\ a \in storable'[t] => a \in storable[t]

\* Then its values still fit.
LEMMA SameValues ==
    ASSUME MemoryInv, NEW t \in Threads, NEW b \in Blocks, SameIn(t, b),
           phase'[t] = phase[t], pos'[t] = pos[t]
    PROVE  ValuesFit(t, b)'
  <1>1. ValuesFit(t, b) /\ DOMAIN pages[t][b].buf \subseteq Bytes(b)
    BY DEF MemoryInv, AccessInv, PageFits
  <1>2. InUse(t, b)' \subseteq InUse(t, b) /\ StoredIn(t, b)' = StoredIn(t, b)
    BY DEF SameIn, InUse, StoredIn
  <1>3. \A a \in DOMAIN pages[t][b].buf :
           BufferFits(t, pages[t][b], a) => BufferFits(t, pages[t][b], a)'
    BY <1>1 DEF SameIn, BufferFits, Own
  <1>4. Agrees(pages[t][b]) => Agrees(pages[t][b])'
    BY <1>1 DEF SameIn, Agrees
  <1>5. pages'[t][b] = pages[t][b]
    BY DEF SameIn
  <1> QED  BY <1>1, <1>2, <1>3, <1>4, <1>5 DEF ValuesFit, WalkFits, Applies, Undoes

\* Larger addresses are in the same block, or in a later one.
LEMMA LaterBlock ==
    ASSUME NEW a \in Addresses, NEW x \in Addresses, a <= x
    PROVE  tm_block_index_at(x) \in tm_block_index_at(a) .. NBLOCKS - 1
  <1> DEFINE b == tm_block_index_at(a)
             c == tm_block_index_at(x)
  <1>1. /\ b \in Nat /\ c \in Nat /\ c < NBLOCKS /\ NBLOCKS \in Nat
        /\ BLOCK_SIZE \in Nat /\ a \in Nat /\ x \in Nat
    BY BlockOf, BlockAssumption DEF Blocks, Addresses
  <1>2. b * BLOCK_SIZE <= a /\ x < c * BLOCK_SIZE + BLOCK_SIZE
    BY <1>1, Quotient DEF tm_block_index_at
  <1> HIDE DEF b, c
  <1>3. ~(c < b)
    <2> SUFFICES ASSUME c < b PROVE FALSE
      OBVIOUS
    <2>1. PICK k \in Nat : b = c + 1 + k
      <3>1. b - c - 1 \in Nat /\ b = c + 1 + (b - c - 1)
        BY <1>1
      <3> QED  BY <3>1
    <2>2. b * BLOCK_SIZE = c * BLOCK_SIZE + BLOCK_SIZE + k * BLOCK_SIZE
      BY <1>1, <2>1
    <2>3. k * BLOCK_SIZE \in Nat /\ c * BLOCK_SIZE \in Nat
      BY <1>1
    <2> QED  BY <1>1, <1>2, <2>2, <2>3
  <1>4. c \in b .. NBLOCKS - 1
    BY <1>1, <1>3
  <1> QED  BY <1>4 DEF b, c

\* The blocks ahead of a call, after a step: not the one it has worked on.
LEMMA AheadIs ==
    ASSUME AccessInv, NEW t \in Threads, job[t].op # "none",
           NEW n, n = Cardinality(Part(t)), n # job[t].siz
    PROVE  /\ Rest(job[t], n).op = job[t].op
           /\ Rest(job[t], n).arg = job[t].arg
           /\ Ahead(Rest(job[t], n)) \subseteq Ahead(job[t]) \ {Block(t)}
           /\ Ahead(job[t]) \subseteq Blocks
  <1>1. PICK j : j = job[t]
    OBVIOUS
  <1>2. /\ j \in Jobs /\ j.siz \in Nat \ {0} /\ j.addr \in Addresses
        /\ j.addr + j.siz - 1 \in Addresses
    BY <1>1 DEF AccessInv, JobFits, Types, Jobs
  <1>3. Part(t) = FirstPart(j.addr, j.siz) /\ Block(t) = tm_block_index_at(j.addr)
    BY <1>1 DEF Part, FirstPart, Block
  <1>4. /\ n \in Nat \ {0} /\ n <= j.siz /\ n # j.siz
        /\ j.addr + n \in Addresses
        /\ \A a \in Addresses :
              a >= j.addr + n => tm_block_index_at(a) # tm_block_index_at(j.addr)
    BY <1>1, <1>2, <1>3, FirstPartIs
  <1>5. PICK k : k = Rest(j, n)
    OBVIOUS
  <1>6. /\ k.op = j.op /\ k.arg = j.arg
        /\ k.addr = j.addr + n /\ k.siz = j.siz - n
    BY <1>2, <1>4, <1>5 DEF Jobs, Rest
  <1>7. PICK top \in Addresses : top = j.addr + j.siz - 1
    BY <1>2
  <1>8. k.addr + k.siz - 1 = top /\ j.addr \in Nat /\ n \in Nat /\ top \in Nat
    BY <1>2, <1>4, <1>6, <1>7 DEF Addresses
  <1>9. /\ \A a \in k.addr .. top : /\ a \in j.addr .. top
                                    /\ a >= j.addr + n
        /\ \A a \in j.addr .. top : a \in Addresses
    BY <1>6, <1>7, <1>8, BlockAssumption DEF Addresses
  <1>10. /\ Ahead(k) = {tm_block_index_at(a) : a \in k.addr .. top}
         /\ Ahead(j) = {tm_block_index_at(a) : a \in j.addr .. top}
    BY <1>7, <1>8 DEF Ahead
  <1>11. Ahead(k) \subseteq Ahead(j) \ {tm_block_index_at(j.addr)}
    BY <1>4, <1>9, <1>10
  <1>12. Ahead(j) \subseteq Blocks
    BY <1>9, <1>10, BlockOf
  <1> QED  BY <1>1, <1>3, <1>5, <1>6, <1>11, <1>12

\* A call that goes on still loses no stores.
LEMMA PlanGoesOn ==
    ASSUME MemoryInv, NEW t \in Threads, job[t].op # "none",
           NEW n, n = Cardinality(Part(t)) \/ n = job[t].siz, Advance(t, n),
           \A c \in Blocks \ {Block(t)} : SameIn(t, c)
    PROVE  PlanFits(t)'
  <1>1. AccessInv /\ job \in [Threads -> Jobs] /\ PlanFits(t)
    BY DEF MemoryInv, AccessInv, Types
  <1>2. CASE n = job[t].siz
    <2>1. job'[t] = NoJob
      BY <1>1, <1>2 DEF Advance, Rest
    <2> QED  BY <2>1 DEF PlanFits, NoJob
  <1>3. CASE n # job[t].siz
    <2>1. PICK k, A, B : /\ k = Rest(job[t], n)
                         /\ A = Ahead(job[t]) /\ B = Ahead(k)
      OBVIOUS
    <2>2. /\ job'[t] = k /\ k.op = job[t].op /\ k.arg = job[t].arg
          /\ B \subseteq A \ {Block(t)} /\ A \subseteq Blocks
      BY <1>1, <1>3, <2>1, AheadIs DEF Advance
    <2>3. \A c \in B : /\ c \in A
                       /\ pages'[t][c] = pages[t][c]
                       /\ StoredIn(t, c)' = StoredIn(t, c)
      BY <2>2 DEF SameIn, StoredIn
    <2>4. /\ Modified(t, B)' => Modified(t, A)
          /\ Buffered(t, B)' => Buffered(t, A)
      BY <2>3 DEF Modified, Buffered, StoredIn
    <2> QED  BY <1>1, <2>1, <2>2, <2>4 DEF PlanFits
  <1> QED  BY <1>2, <1>3

-----------------------------------------------------------------------------
(* What is committed while a transaction runs.                             *)

(* The value of address a without the stores of transaction t.             *)
OldValue(t, a) ==
    IF a \in DOMAIN stored[t] /\ Page(t, a).through THEN Page(t, a).buf[a]
                                                    ELSE memory[a]

\* It is what the transaction contributes.
LEMMA RunCommitted ==
    MemoryInv => \A t \in Threads, a \in Addresses :
        phase[t] = "run" => Committed(t, a) = OldValue(t, a)
  <1> SUFFICES ASSUME MemoryInv, NEW t \in Threads, NEW a \in Addresses,
                      phase[t] = "run"
               PROVE  Committed(t, a) = OldValue(t, a)
    OBVIOUS
  <1>1. PICK b \in Blocks : b = tm_block_index_at(a)
    BY BlockOf
  <1>2. ValuesFit(t, b) /\ AccessFits(t) /\ Page(t, a) = pages[t][b]
    BY <1>1 DEF MemoryInv, AccessInv, Page
  <1>3. a \in DOMAIN pages[t][b].buf => BufferFits(t, pages[t][b], a)
    BY <1>2 DEF ValuesFit
  <1>4. a \in DOMAIN stored[t] =>
           pages[t][b].lock = "WRLOCKED" /\ a \in DOMAIN pages[t][b].buf
    BY <1>2 DEF AccessFits
  <1>5. Keeps(t, a) <=> /\ pages[t][b].lock = "WRLOCKED"
                        /\ a \in DOMAIN pages[t][b].buf
                        /\ pages[t][b].through
    BY <1>2 DEF Keeps
  <1>6. CASE a \in DOMAIN stored[t]
    BY <1>2, <1>4, <1>5, <1>6 DEF Committed, OldValue
  <1>7. CASE a \notin DOMAIN stored[t]
    BY <1>2, <1>3, <1>5, <1>7 DEF Committed, OldValue, BufferFits
  <1> QED  BY <1>6, <1>7

\* So it is after a step.
LEMMA RunCommits ==
    MemoryInv' => (\A t \in Threads, a \in Addresses :
        phase[t] = "run" => Committed(t, a) = OldValue(t, a))'
  BY RunCommitted, PTL

\* If it stays the same in a step, then so does the committed memory.
LEMMA OldValuesStay ==
    ASSUME MemoryInv, NEW t \in Threads, StepFits(t), StepValues(t),
           phase[t] = "run", phase'[t] = "run",
           \A a \in Addresses : OldValue(t, a)' = OldValue(t, a)
    PROVE  CommittedMemory' = CommittedMemory
  <1>1. MemoryInv'
    BY StepValuesAll
  <1>2. \A a \in Addresses : /\ Committed(t, a) = OldValue(t, a)
                             /\ Committed(t, a)' = OldValue(t, a)'
    BY <1>1, RunCommitted, RunCommits
  <1> QED  BY <1>2, CommittedKept DEF StepFits, MemoryInv, AccessInv

\* Loading keeps the values of a page.
LEMMA LoadedValues ==
    ASSUME MemoryInv, NEW t \in Threads, NEW b \in Blocks, phase[t] = "run",
           NEW S, S \subseteq Bytes(b), NEW q, Loaded(pages[t][b], S, q)
    PROVE  \A a \in DOMAIN q.buf : BufferFits(t, q, a)
  <1>1. ValuesFit(t, b) /\ AccessFits(t) /\ PageFits(t, b)
    BY DEF MemoryInv, AccessInv
  <1>2. /\ q.through = pages[t][b].through
        /\ q.discarded = pages[t][b].discarded
        /\ DOMAIN q.buf = DOMAIN pages[t][b].buf \cup S
    BY DEF Loaded
  <1>3. ASSUME NEW a \in DOMAIN pages[t][b].buf
        PROVE  BufferFits(t, q, a)
    <2>1. BufferFits(t, pages[t][b], a) /\ q.buf[a] = pages[t][b].buf[a]
      BY <1>1 DEF ValuesFit, Loaded
    <2> QED  BY <1>2, <2>1 DEF BufferFits
  <1>4. ASSUME NEW a \in S \ DOMAIN pages[t][b].buf
        PROVE  BufferFits(t, q, a)
    <2>1. Page(t, a) = pages[t][b]
      BY DEF Page, Bytes
    <2>2. a \notin DOMAIN stored[t]
      BY <1>1, <2>1 DEF AccessFits
    <2>3. q.buf[a] = memory[a]
      BY DEF Loaded
    <2> QED  BY <2>2, <2>3 DEF BufferFits, Own
  <1> QED  BY <1>2, <1>3, <1>4

\* A transaction finds its own stores, or else the committed memory.
LEMMA ShownValue ==
    ASSUME MemoryInv, NEW t \in Threads, NEW b \in Blocks, phase[t] = "run",
           \A u \in Threads \ {t} : pages[u][b].lock # "WRLOCKED",
           NEW a \in Bytes(b)
    PROVE  Over(stored[t], CommittedMemory)[a] = Own(t, a)
  <1>1. a \in Addresses /\ b = tm_block_index_at(a)
    BY DEF Bytes
  <1>2. \A u \in Threads \ {t} : ~Keeps(u, a)
    BY <1>1 DEF Keeps, Page
  <1>3. CommittedMemory[a] = Committed(t, a)
    BY <1>1, <1>2, CommittedIs DEF CommittedFrom, MemoryInv, AccessInv
  <1>4. DOMAIN CommittedMemory = Addresses
    BY DEF CommittedMemory
  <1>5. a \notin DOMAIN stored[t] => Committed(t, a) = memory[a]
    BY <1>1, RunCommitted DEF OldValue
  <1> QED  BY <1>1, <1>3, <1>4, <1>5 DEF Over, Own

-----------------------------------------------------------------------------
(* Every step of a call does what transactional memory promises.           *)

PromisedStep == [Promise!TMNext]_(Promise!tmVars)

(* What is shown of a step: the values fit, and it keeps the promise.      *)
StepPromised(t) == StepValues(t) /\ PromisedStep

\* Reading the addresses of S is a load.
LEMMA IsLoad ==
    ASSUME NEW t \in Threads, NEW S, S \subseteq Addresses,
           seen' = [seen EXCEPT ![t] =
              Over([a \in S |-> Over(stored[t], CommittedMemory)[a]], @)],
           stored' = stored, CommittedMemory' = CommittedMemory
    PROVE  PromisedStep
  <1>1. Promise!Load(t, S)
    BY DEF Promise!Load, Promise!Over, Over
  <1>2. Promise!TMNext
    BY <1>1 DEF Promise!TMNext
  <1> QED  BY <1>2 DEF PromisedStep

\* Writing the contents f is a store.
LEMMA IsStore ==
    ASSUME NEW t \in Threads, NEW f \in Contents,
           seen' = [seen EXCEPT ![t] = Over(f, @)],
           stored' = [stored EXCEPT ![t] = Over(f, @)],
           CommittedMemory' = CommittedMemory
    PROVE  PromisedStep
  <1>1. Promise!Store(t, f)
    BY DEF Promise!Store, Promise!Over, Over
  <1>2. f \in Promise!Contents
    BY DEF Promise!Contents, Contents
  <1>3. Promise!TMNext
    BY <1>1, <1>2 DEF Promise!TMNext
  <1> QED  BY <1>3 DEF PromisedStep

\* Everything else that happens behind the scenes is not seen at all.
LEMMA IsHidden ==
    ASSUME seen' = seen, stored' = stored, CommittedMemory' = CommittedMemory
    PROVE  PromisedStep
  BY DEF PromisedStep, Promise!tmVars

\* The pages of the other blocks are as they have been.
LEMMA OtherBlocks ==
    ASSUME MemoryInv, NEW t \in Threads, NEW b \in Blocks,
           phase' = phase, pos' = pos, job[t].op # "none", b = Block(t),
           NEW n, n = Cardinality(Part(t)) \/ n = job[t].siz, Advance(t, n),
           \A c \in Blocks \ {b} : SameIn(t, c), ValuesFit(t, b)'
    PROVE  StepValues(t)
  <1>1. \A c \in Blocks \ {b} : ValuesFit(t, c)'
    BY SameValues
  <1>2. PlanFits(t)'
    BY PlanGoesOn
  <1> QED  BY <1>1, <1>2 DEF StepValues

\* Different blocks have no address in common.
LEMMA BlocksDiffer ==
    ASSUME NEW b, NEW c, b # c
    PROVE  Bytes(b) \cap Bytes(c) = {}
  BY DEF Bytes

\* A load shows the transaction's own stores and the committed memory.
LEMMA LoadPromised ==
    ASSUME MemoryInv, NEW t \in Threads, StepFits(t), tm_vmem_tx_ld(t)
    PROVE  StepPromised(t)
  <1>1. PICK b, S : b = Block(t) /\ S = Part(t)
    OBVIOUS
  <1>2. PICK q : q = tm_page_ld(Rdlocked(pages[t][b]), S)
    OBVIOUS
  <1>3. PICK g : g = [a \in S |-> tm_page_buffer(q, a)]
    OBVIOUS
  <1>4. /\ phase[t] = "run" /\ job[t].op = "ld"
        /\ ~q.discarded /\ Readable(t, b)
        /\ pages' = [pages EXCEPT ![t][b] = q]
        /\ seen' = [seen EXCEPT ![t] = Over(g, @)]
        /\ Advance(t, Cardinality(S))
        /\ UNCHANGED <<memory, loadable, storable, stored>>
    BY <1>1, <1>2, <1>3 DEF tm_vmem_tx_ld, Busy, Show, inPlace
  <1>5. /\ b \in Blocks /\ S \subseteq Bytes(b) /\ S \subseteq Addresses
    BY <1>1, <1>4, PartIs DEF MemoryInv
  <1>6. /\ AccessInv /\ Exclusive /\ AccessFits(t) /\ ValuesFit(t, b)
        /\ pages \in [Threads -> [Blocks -> TMPage]]
    BY <1>5 DEF MemoryInv, AccessInv, Types
  <1>7. Loaded(pages[t][b], S, q)
    BY <1>2, <1>5, <1>6, PreparedPages
  <1>8. /\ pages'[t][b] = q
        /\ \A c \in Blocks \ {b} : pages'[t][c] = pages[t][c]
    BY <1>4, <1>5, <1>6
  <1>9. phase' = phase /\ pos' = pos
    BY <1>4 DEF Advance
  <1>10. \A a \in DOMAIN q.buf : BufferFits(t, q, a)
    BY <1>4, <1>5, <1>7, LoadedValues
  <1>11. ValuesFit(t, b)'
    <2>1. InUse(t, b)' = InUse(t, b) /\ StoredIn(t, b)' = StoredIn(t, b)
      BY <1>4 DEF InUse, StoredIn
    <2>2. \A a \in DOMAIN q.buf : BufferFits(t, q, a)'
      BY <1>4, <1>10 DEF BufferFits, Own
    <2>3. q.through = pages[t][b].through
      BY <1>7 DEF Loaded
    <2> QED  BY <1>4, <1>6, <1>8, <1>9, <2>1, <2>2, <2>3 DEF ValuesFit, WalkFits
  <1>12. StepValues(t)
    <2>1. \A c \in Blocks \ {b} : SameIn(t, c)
      BY <1>4, <1>8 DEF SameIn
    <2> QED  BY <1>1, <1>4, <1>5, <1>9, <1>11, <2>1, OtherBlocks
  <1>13. CommittedMemory' = CommittedMemory
    <2>1. ASSUME NEW a \in Addresses
          PROVE  OldValue(t, a)' = OldValue(t, a)
      <3>1. CASE tm_block_index_at(a) = b
        <4>1. Page(t, a) = pages[t][b] /\ Page(t, a)' = q
          BY <1>8, <3>1 DEF Page
        <4>2. a \in DOMAIN stored[t] => a \in DOMAIN pages[t][b].buf
          BY <1>6, <4>1 DEF AccessFits
        <4> QED  BY <1>4, <1>7, <4>1, <4>2 DEF OldValue, Loaded
      <3>2. CASE tm_block_index_at(a) # b
        <4>1. Page(t, a)' = Page(t, a)
          BY <1>8, <3>2, BlockOf DEF Page
        <4> QED  BY <1>4, <4>1 DEF OldValue
      <3> QED  BY <3>1, <3>2
    <2> QED  BY <1>4, <1>9, <1>12, <2>1, OldValuesStay
  <1>14. ASSUME NEW a \in S
         PROVE  tm_page_buffer(q, a) = Over(stored[t], CommittedMemory)[a]
    <2>1. \A u \in Threads \ {t} : pages[u][b].lock # "WRLOCKED"
      BY <1>4, <1>5, <1>6 DEF Readable, Exclusive
    <2>2. Over(stored[t], CommittedMemory)[a] = Own(t, a)
      BY <1>4, <1>5, <2>1, ShownValue
    <2>3. a \in DOMAIN q.buf /\ BufferFits(t, q, a)
      BY <1>7, <1>10 DEF Loaded
    <2>4. tm_page_buffer(q, a) = Own(t, a)
      <3>1. CASE q.through
        <4>1. a \in DOMAIN stored[t] => memory[a] = stored[t][a]
          BY <2>3, <3>1 DEF BufferFits
        <4> QED  BY <3>1, <4>1 DEF tm_page_buffer, Own
      <3>2. CASE ~q.through
        BY <1>4, <2>3, <3>2 DEF BufferFits, tm_page_buffer
      <3> QED  BY <3>1, <3>2
    <2> QED  BY <2>2, <2>4
  <1>15. g = [a \in S |-> Over(stored[t], CommittedMemory)[a]]
    BY <1>3, <1>14
  <1>16. PromisedStep
    BY <1>4, <1>5, <1>13, <1>15, IsLoad
  <1> QED  BY <1>12, <1>16 DEF StepPromised

\* A store, or a copy, is a store of the values that it has written.
LEMMA PutPromised ==
    ASSUME MemoryInv, NEW t \in Threads, StepFits(t), NEW q, NEW f, Puts(t, q, f)
    PROVE  StepPromised(t)
  <1>1. PICK b, S, p : b = Block(t) /\ S = Part(t) /\ p = pages[t][b]
    OBVIOUS
  <1>2. /\ phase[t] = "run" /\ job[t].op # "none"
        /\ Grown(t, b, p, q) /\ Loaded(p, S, q) /\ q.lock = "WRLOCKED"
        /\ ~q.discarded
        /\ f \in Contents /\ DOMAIN f = S
        /\ CopyIntoBuffer(t, b, q, f)
        /\ seen' = [seen EXCEPT ![t] = Over(f, @)]
        /\ stored' = [stored EXCEPT ![t] = Over(f, @)]
        /\ Advance(t, Cardinality(S))
        /\ UNCHANGED <<loadable, storable>>
    BY <1>1 DEF Puts, Prepared
  <1>3. /\ b \in Blocks /\ S \subseteq Bytes(b) /\ S \subseteq Addresses
    BY <1>1, <1>2, PartIs DEF MemoryInv
  <1>4. /\ AccessInv /\ AccessFits(t) /\ ValuesFit(t, b) /\ PageFits(t, b)
        /\ memory \in [Addresses -> Values]
        /\ stored \in [Threads -> Contents]
    BY <1>3 DEF MemoryInv, AccessInv, Types
  <1>5. PICK r : r = pages'[t][b]
    OBVIOUS
  <1>6. /\ r.through = q.through /\ r.discarded = q.discarded
        /\ DOMAIN r.buf = DOMAIN q.buf
        /\ r.buf = IF q.through THEN q.buf ELSE Over(f, q.buf)
        /\ memory' = IF q.through THEN Over(f, memory) ELSE memory
        /\ \A c \in Blocks \ {b} : pages'[t][c] = pages[t][c]
    BY <1>1, <1>2, <1>3, <1>4, <1>5, CopyFits DEF Loaded
  <1>7. /\ DOMAIN stored'[t] = S \cup DOMAIN stored[t]
        /\ \A a \in S : stored'[t][a] = f[a]
        /\ \A a \in DOMAIN stored[t] \ S : stored'[t][a] = stored[t][a]
    BY <1>2, <1>4 DEF Over
  <1>8. /\ \A a \in S : q.through => memory'[a] = f[a]
        /\ \A a \in Addresses \ S : memory'[a] = memory[a]
        /\ \A a \in Addresses : ~q.through => memory'[a] = memory[a]
    BY <1>2, <1>3, <1>4, <1>6, OverMemory
  <1>9. /\ \A a \in S : ~q.through => r.buf[a] = f[a]
        /\ \A a \in DOMAIN q.buf \ S : r.buf[a] = q.buf[a]
        /\ \A a \in DOMAIN q.buf : q.through => r.buf[a] = q.buf[a]
    BY <1>2, <1>6 DEF Over
  <1>10. /\ \A a \in DOMAIN q.buf : BufferFits(t, q, a)
         /\ DOMAIN q.buf \subseteq Addresses
         /\ S \subseteq DOMAIN q.buf
    <2>1. DOMAIN q.buf \subseteq Addresses
      BY <1>2 DEF Grown, Bytes
    <2> QED  BY <1>1, <1>2, <1>3, <2>1, LoadedValues DEF Loaded
  <1>11. phase' = phase /\ pos' = pos
    BY <1>2 DEF Advance
  <1>12. ValuesFit(t, b)'
    <2>1. InUse(t, b)' = InUse(t, b)
      BY <1>2 DEF InUse
    <2>2. ASSUME NEW a \in DOMAIN r.buf
          PROVE  BufferFits(t, r, a)'
      <3>1. a \in Addresses /\ a \in DOMAIN q.buf /\ BufferFits(t, q, a)
        BY <1>6, <1>10
      <3>2. CASE a \in S
        BY <1>6, <1>7, <1>8, <1>9, <3>2 DEF BufferFits, Own
      <3>3. CASE a \notin S
        <4>1. /\ memory'[a] = memory[a] /\ r.buf[a] = q.buf[a]
              /\ a \in DOMAIN stored'[t] <=> a \in DOMAIN stored[t]
              /\ a \in DOMAIN stored[t] => stored'[t][a] = stored[t][a]
          BY <1>7, <1>8, <1>9, <3>1, <3>3
        <4> QED  BY <1>6, <3>1, <4>1 DEF BufferFits, Own
      <3> QED  BY <3>2, <3>3
    <2>3. q.through = p.through
      BY <1>2 DEF Loaded
    <2> QED  BY <1>1, <1>2, <1>4, <1>5, <1>6, <1>11, <2>1, <2>2, <2>3
                DEF ValuesFit, WalkFits
  <1>13. StepValues(t)
    <2>1. ASSUME NEW c \in Blocks \ {b}
          PROVE  SameIn(t, c)
      <3>1. \A a \in Bytes(c) : a \in Addresses /\ a \notin S
        BY <1>3 DEF Bytes
      <3> QED  BY <1>2, <1>6, <1>7, <1>8, <3>1 DEF SameIn
    <2> QED  BY <1>1, <1>2, <1>3, <1>11, <1>12, <2>1, OtherBlocks
  <1>14. CommittedMemory' = CommittedMemory
    <2>1. ASSUME NEW a \in Addresses
          PROVE  OldValue(t, a)' = OldValue(t, a)
      <3>1. CASE tm_block_index_at(a) = b
        <4>1. Page(t, a) = p /\ Page(t, a)' = r
          BY <1>1, <1>5, <3>1 DEF Page
        <4>2. q.through = p.through
          BY <1>2 DEF Loaded
        <4>3. CASE a \in DOMAIN stored[t]
          <5>1. a \in DOMAIN p.buf
            BY <1>4, <4>1, <4>3 DEF AccessFits
          <5>2. a \in DOMAIN q.buf /\ q.buf[a] = p.buf[a]
            BY <1>2, <5>1 DEF Loaded
          <5> QED  BY <1>6, <1>7, <1>8, <1>9, <4>1, <4>2, <4>3, <5>2
                      DEF OldValue
        <4>4. CASE a \notin DOMAIN stored[t] /\ a \in S
          <5>1. q.through => memory[a] = q.buf[a]
            BY <1>10, <4>4 DEF BufferFits
          <5> QED  BY <1>6, <1>7, <1>8, <1>9, <1>10, <4>1, <4>2, <4>4, <5>1
                      DEF OldValue
        <4>5. CASE a \notin DOMAIN stored[t] /\ a \notin S
          BY <1>7, <1>8, <4>5 DEF OldValue
        <4> QED  BY <4>3, <4>4, <4>5
      <3>2. CASE tm_block_index_at(a) # b
        <4>1. Page(t, a)' = Page(t, a)
          BY <1>6, <3>2, BlockOf DEF Page
        <4>2. a \notin S
          BY <1>3, <3>2 DEF Bytes
        <4> QED  BY <1>7, <1>8, <4>1, <4>2 DEF OldValue
      <3> QED  BY <3>1, <3>2
    <2> QED  BY <1>2, <1>11, <1>13, <2>1, OldValuesStay
  <1>15. PromisedStep
    BY <1>2, <1>14, IsStore
  <1> QED  BY <1>13, <1>15 DEF StepPromised

\* Privatization is not seen.
LEMMA OpenPromised ==
    ASSUME MemoryInv, NEW t \in Threads, StepFits(t),
           NEW q, NEW S, S \subseteq Bytes(Block(t)), NEW G, Opens(t, q, S, G)
    PROVE  StepPromised(t)
  <1>1. PICK b, p, flags : /\ b = Block(t) /\ p = pages[t][b]
                           /\ flags = job[t].arg
    OBVIOUS
  <1>2. /\ phase[t] = "run" /\ job[t].op \in {"privatize", "privatize_c"}
        /\ flags # {} /\ ~p.discarded
        /\ Opened(t, b, S, flags, q)
        /\ G \subseteq DOMAIN q.buf
        /\ pages' = [pages EXCEPT ![t][b] = q]
        /\ loadable' = [loadable EXCEPT ![t] =
               IF "LOAD" \in flags THEN @ \cup G ELSE @]
        /\ storable' = [storable EXCEPT ![t] =
               IF "STORE" \in flags THEN @ \cup G ELSE @]
        /\ \/ Advance(t, Cardinality(Part(t)))
           \/ Advance(t, job[t].siz)
        /\ UNCHANGED <<memory, seen, stored>>
    BY <1>1 DEF Opens, Grant
  <1>3. b \in Blocks /\ job[t].addr \in Addresses /\ b \in Ahead(job[t])
    <2>1. b \in Blocks /\ job[t].addr \in Addresses
      BY <1>1, <1>2, PartIs DEF MemoryInv
    <2>2. job[t].siz \in Nat \ {0}
      BY <1>2 DEF MemoryInv, AccessInv, JobFits, Types, Jobs
    <2>3. job[t].addr \in job[t].addr .. job[t].addr + job[t].siz - 1
      BY <2>1, <2>2 DEF Addresses
    <2> QED  BY <1>1, <2>1, <2>3 DEF Ahead, Block
  <1>4. /\ AccessInv /\ AccessFits(t) /\ ValuesFit(t, b) /\ PageFits(t, b)
        /\ PlanFits(t)
        /\ pages \in [Threads -> [Blocks -> TMPage]]
        /\ loadable \in [Threads -> SUBSET Addresses]
        /\ storable \in [Threads -> SUBSET Addresses]
    BY <1>3 DEF MemoryInv, AccessInv, Types
  <1>5. /\ q.through /\ ~q.discarded
        /\ DOMAIN q.buf = DOMAIN p.buf \cup S /\ DOMAIN q.buf \subseteq Bytes(b)
        /\ \A a \in DOMAIN p.buf : q.buf[a] = p.buf[a]
        /\ \A a \in S \ DOMAIN p.buf : q.buf[a] = memory[a]
    BY <1>1, <1>2 DEF Opened, Grown
  <1>6. ~p.through => StoredIn(t, b) = {}
    BY <1>1, <1>2, <1>3, <1>4 DEF PlanFits, Buffered, StoredIn
  <1>7. /\ pages'[t][b] = q
        /\ \A c \in Blocks \ {b} : pages'[t][c] = pages[t][c]
    BY <1>2, <1>3, <1>4
  <1>8. phase' = phase /\ pos' = pos
    BY <1>2 DEF Advance
  <1>9. ASSUME NEW a \in DOMAIN q.buf
        PROVE  BufferFits(t, q, a)
    <2>1. CASE a \in DOMAIN p.buf
      <3>1. BufferFits(t, p, a) /\ q.buf[a] = p.buf[a]
        BY <1>1, <1>2, <1>4, <1>5, <2>1 DEF ValuesFit
      <3>2. a \in Bytes(b)
        BY <1>5
      <3> QED  BY <1>2, <1>5, <1>6, <3>1, <3>2 DEF BufferFits, Own, StoredIn
    <2>2. CASE a \notin DOMAIN p.buf
      <3>1. Page(t, a) = p
        BY <1>1, <1>5 DEF Page, Bytes
      <3>2. a \notin DOMAIN stored[t]
        BY <1>4, <2>2, <3>1 DEF AccessFits
      <3> QED  BY <1>5, <2>2, <3>2 DEF BufferFits
    <2> QED  BY <2>1, <2>2
  <1>10. ValuesFit(t, b)'
    <2>1. \A a \in DOMAIN q.buf : BufferFits(t, q, a)'
      BY <1>2, <1>9 DEF BufferFits, Own
    <2> QED  BY <1>2, <1>5, <1>7, <1>8, <2>1 DEF ValuesFit, WalkFits
  <1>11. StepValues(t)
    <2>1. ASSUME NEW c \in Blocks \ {b}
          PROVE  SameIn(t, c)
      <3>1. Bytes(c) \cap G = {}
        BY <1>2, <1>5 DEF Bytes
      <3> QED  BY <1>2, <1>4, <1>7, <3>1 DEF SameIn
    <2>2. job[t].op # "none"
      BY <1>2
    <2>3. CASE Advance(t, Cardinality(Part(t)))
      BY <1>1, <1>3, <1>8, <1>10, <2>1, <2>2, <2>3, OtherBlocks
    <2>4. CASE Advance(t, job[t].siz)
      BY <1>1, <1>3, <1>8, <1>10, <2>1, <2>2, <2>4, OtherBlocks
    <2> QED  BY <1>2, <2>3, <2>4
  <1>12. CommittedMemory' = CommittedMemory
    <2>1. ASSUME NEW a \in Addresses
          PROVE  OldValue(t, a)' = OldValue(t, a)
      <3>1. CASE tm_block_index_at(a) = b
        <4>1. Page(t, a) = p /\ Page(t, a)' = q /\ a \in Bytes(b)
          BY <1>1, <1>7, <3>1 DEF Page, Bytes
        <4>2. a \in DOMAIN stored[t] => p.through /\ q.buf[a] = p.buf[a]
          BY <1>4, <1>5, <1>6, <4>1 DEF AccessFits, StoredIn
        <4> QED  BY <1>2, <1>5, <4>1, <4>2 DEF OldValue
      <3>2. CASE tm_block_index_at(a) # b
        <4>1. Page(t, a)' = Page(t, a)
          BY <1>7, <3>2, BlockOf DEF Page
        <4> QED  BY <1>2, <4>1 DEF OldValue
      <3> QED  BY <3>1, <3>2
    <2> QED  BY <1>2, <1>8, <1>11, <2>1, OldValuesStay
  <1>13. PromisedStep
    BY <1>2, <1>12, IsHidden
  <1> QED  BY <1>11, <1>13 DEF StepPromised

\* To discard a block is to forget what has been stored there, if anything.
LEMMA DiscardPromised ==
    ASSUME MemoryInv, NEW t \in Threads, StepFits(t),
           tm_vmem_tx_privatize(t), job[t].arg = {}
    PROVE  StepPromised(t)
  <1>1. PICK b, p : b = Block(t) /\ p = pages[t][b]
    OBVIOUS
  <1>2. PICK q : q = [Wrlocked(p) EXCEPT !.discarded = TRUE]
    OBVIOUS
  <1>3. PICK f : f = IF p.through THEN stored[t]
                     ELSE [a \in DOMAIN stored[t] \ Bytes(b) |-> stored[t][a]]
    OBVIOUS
  <1>4. /\ phase[t] = "run" /\ job[t].op = "privatize" /\ ~p.discarded
        /\ pages' = [pages EXCEPT ![t][b] = q]
        /\ loadable' = [loadable EXCEPT ![t] = @ \ Bytes(b)]
        /\ storable' = [storable EXCEPT ![t] = @ \ Bytes(b)]
        /\ stored' = [stored EXCEPT ![t] = f]
        /\ Advance(t, Cardinality(Part(t)))
        /\ UNCHANGED <<memory, seen>>
    BY <1>1, <1>2, <1>3 DEF tm_vmem_tx_privatize, prepare_page_privatize, Busy
  <1>5. b \in Blocks /\ job[t].addr \in Addresses /\ b \in Ahead(job[t])
    <2>1. b \in Blocks /\ job[t].addr \in Addresses
      BY <1>1, <1>4, PartIs DEF MemoryInv
    <2>2. job[t].siz \in Nat \ {0}
      BY <1>4 DEF MemoryInv, AccessInv, JobFits, Types, Jobs
    <2>3. job[t].addr \in job[t].addr .. job[t].addr + job[t].siz - 1
      BY <2>1, <2>2 DEF Addresses
    <2> QED  BY <1>1, <2>1, <2>3 DEF Ahead, Block
  <1>6. /\ AccessInv /\ AccessFits(t) /\ ValuesFit(t, b) /\ PageFits(t, b)
        /\ PlanFits(t) /\ p \in TMPage
        /\ pages \in [Threads -> [Blocks -> TMPage]]
        /\ loadable \in [Threads -> SUBSET Addresses]
        /\ storable \in [Threads -> SUBSET Addresses]
        /\ stored \in [Threads -> Contents]
    BY <1>1, <1>5 DEF MemoryInv, AccessInv, Types
  <1>7. q.through = p.through /\ q.buf = p.buf /\ q.discarded
    BY <1>2, <1>6 DEF Wrlocked, TMPage
  <1>8. p.through => StoredIn(t, b) = {}
    BY <1>1, <1>4, <1>5, <1>6 DEF PlanFits, Modified, StoredIn
  <1>9. /\ pages'[t][b] = q
        /\ \A c \in Blocks \ {b} : pages'[t][c] = pages[t][c]
    BY <1>4, <1>5, <1>6
  <1>10. phase' = phase /\ pos' = pos
    BY <1>4 DEF Advance
  <1>11. /\ stored'[t] = f
         /\ DOMAIN f \subseteq DOMAIN stored[t]
         /\ DOMAIN f \cap Bytes(b) = {}
         /\ \A a \in DOMAIN stored[t] \ Bytes(b) :
               a \in DOMAIN f /\ f[a] = stored[t][a]
    BY <1>3, <1>4, <1>6, <1>8 DEF StoredIn
  <1>12. /\ loadable'[t] = loadable[t] \ Bytes(b)
         /\ storable'[t] = storable[t] \ Bytes(b)
    BY <1>4, <1>6
  <1>13. ValuesFit(t, b)'
    <2>1. InUse(t, b)' = {} /\ StoredIn(t, b)' = {}
      BY <1>11, <1>12 DEF InUse, StoredIn
    <2>2. ASSUME NEW a \in DOMAIN q.buf
          PROVE  BufferFits(t, q, a)'
      <3>1. a \in Bytes(b) /\ BufferFits(t, p, a)
        BY <1>1, <1>4, <1>6, <1>7, <2>2 DEF ValuesFit, PageFits
      <3>2. p.through => a \notin DOMAIN stored[t] /\ a \notin DOMAIN stored'[t]
        BY <1>8, <1>11, <3>1 DEF StoredIn
      <3> QED  BY <1>4, <1>7, <3>1, <3>2 DEF BufferFits
    <2> QED  BY <1>4, <1>7, <1>9, <1>10, <2>1, <2>2 DEF ValuesFit, WalkFits
  <1>14. StepValues(t)
    <2>1. ASSUME NEW c \in Blocks \ {b}
          PROVE  SameIn(t, c)
      <3>1. \A a \in Bytes(c) : a \notin Bytes(b)
        BY DEF Bytes
      <3> QED  BY <1>4, <1>9, <1>11, <1>12, <3>1 DEF SameIn
    <2> QED  BY <1>1, <1>4, <1>5, <1>10, <1>13, <2>1, OtherBlocks
  <1>15. CommittedMemory' = CommittedMemory
    <2>1. ASSUME NEW a \in Addresses
          PROVE  OldValue(t, a)' = OldValue(t, a)
      <3>1. CASE tm_block_index_at(a) = b
        <4>1. Page(t, a) = p /\ Page(t, a)' = q /\ a \in Bytes(b)
          BY <1>1, <1>9, <3>1 DEF Page, Bytes
        <4>2. a \notin DOMAIN stored'[t]
          BY <1>11, <4>1
        <4>3. p.through => a \notin DOMAIN stored[t]
          BY <1>8, <4>1 DEF StoredIn
        <4> QED  BY <1>4, <4>1, <4>2, <4>3 DEF OldValue
      <3>2. CASE tm_block_index_at(a) # b
        <4>1. Page(t, a)' = Page(t, a) /\ a \notin Bytes(b)
          BY <1>9, <3>2, BlockOf DEF Page, Bytes
        <4> QED  BY <1>4, <1>11, <4>1 DEF OldValue
      <3> QED  BY <3>1, <3>2
    <2> QED  BY <1>4, <1>10, <1>14, <2>1, OldValuesStay
  <1>16. PromisedStep
    <2>1. CASE p.through
      <3>1. stored' = stored
        BY <1>3, <1>4, <1>6, <2>1
      <3> QED  BY <1>4, <1>15, <3>1, IsHidden
    <2>2. CASE ~p.through
      <3>1. stored' = [stored EXCEPT ![t] = [a \in DOMAIN @ \ Bytes(b) |-> @[a]]]
        BY <1>3, <1>4, <2>2
      <3>2. Promise!Discard(t, Bytes(b))
        BY <1>4, <1>15, <3>1 DEF Promise!Discard
      <3>3. Bytes(b) \in SUBSET Addresses
        BY DEF Bytes
      <3>4. Promise!TMNext
        BY <3>2, <3>3 DEF Promise!TMNext
      <3> QED  BY <3>4 DEF PromisedStep
    <2> QED  BY <2>1, <2>2
  <1> QED  BY <1>14, <1>16 DEF StepPromised

\* What the program reads in place is its own or committed.
LEMMA ReadPromised ==
    ASSUME MemoryInv, NEW t \in Threads, StepFits(t), ReadInPlace(t)
    PROVE  StepPromised(t)
  <1>1. PICK S, g : S = loadable[t] /\ g = [a \in S |-> memory[a]]
    OBVIOUS
  <1>2. /\ phase[t] = "run" /\ job[t].op = "none"
        /\ seen' = [seen EXCEPT ![t] = Over(g, @)]
        /\ UNCHANGED <<memory, pages, phase, job, pos, loadable, storable>>
        /\ UNCHANGED stored
    BY <1>1 DEF ReadInPlace, Busy, Show, pageVars, inPlace
  <1>3. /\ AccessInv /\ Exclusive /\ AccessFits(t) /\ PlanFits(t)
        /\ S \subseteq Addresses
        /\ \A b \in Blocks : ValuesFit(t, b)
    BY <1>1 DEF MemoryInv, AccessInv, Types
  <1>4. StepValues(t)
    <2>1. \A b \in Blocks : SameIn(t, b)
      BY <1>2 DEF SameIn
    <2>2. \A b \in Blocks : ValuesFit(t, b)'
      BY <1>2, <2>1, SameValues
    <2>3. PlanFits(t)'
      BY <1>2, <1>3 DEF PlanFits
    <2> QED  BY <2>2, <2>3 DEF StepValues
  <1>5. CommittedMemory' = CommittedMemory
    <2>1. \A a \in Addresses : OldValue(t, a)' = OldValue(t, a)
      BY <1>2 DEF OldValue, Page
    <2> QED  BY <1>2, <1>4, <2>1, OldValuesStay
  <1>6. ASSUME NEW a \in S
        PROVE  memory[a] = Over(stored[t], CommittedMemory)[a]
    <2>1. PICK b \in Blocks : b = tm_block_index_at(a) /\ a \in Bytes(b)
      BY <1>3, BlockOf
    <2>2. pages[t][b].lock # "UNLOCKED" /\ pages[t][b].through
      BY <1>1, <1>3, <2>1 DEF AccessFits, Page, ValuesFit, InUse
    <2>3. \A u \in Threads \ {t} : pages[u][b].lock # "WRLOCKED"
      BY <1>3, <2>2 DEF Exclusive
    <2>4. Over(stored[t], CommittedMemory)[a] = Own(t, a)
      BY <1>2, <2>1, <2>3, ShownValue
    <2>5. CASE a \in DOMAIN stored[t]
      <3>1. a \in DOMAIN pages[t][b].buf
        BY <1>3, <2>1, <2>5 DEF AccessFits, Page
      <3>2. BufferFits(t, pages[t][b], a)
        BY <1>2, <1>3, <3>1 DEF ValuesFit
      <3> QED  BY <2>2, <2>4, <2>5, <3>2 DEF BufferFits, Own
    <2>6. CASE a \notin DOMAIN stored[t]
      BY <2>4, <2>6 DEF Own
    <2> QED  BY <2>5, <2>6
  <1>7. g = [a \in S |-> Over(stored[t], CommittedMemory)[a]]
    BY <1>1, <1>6
  <1>8. PromisedStep
    BY <1>2, <1>3, <1>5, <1>7, IsLoad
  <1> QED  BY <1>4, <1>8 DEF StepPromised

\* What it writes in place is a store.
LEMMA WritePromised ==
    ASSUME MemoryInv, NEW t \in Threads, StepFits(t), WriteInPlace(t)
    PROVE  StepPromised(t)
  <1>1. PICK S : S = storable[t]
    OBVIOUS
  <1>2. PICK f \in [S -> Values] :
           /\ memory' = Over(f, memory)
           /\ seen' = [seen EXCEPT ![t] = Over(f, @)]
           /\ stored' = [stored EXCEPT ![t] = Over(f, @)]
    <2>1. PICK v \in Values :
             LET f == [a \in S |-> v]
             IN  /\ memory' = Over(f, memory)
                 /\ seen' = [seen EXCEPT ![t] = Over(f, @)]
                 /\ stored' = [stored EXCEPT ![t] = Over(f, @)]
      BY <1>1 DEF WriteInPlace, Show
    <2>2. PICK f : f = [a \in S |-> v]
      OBVIOUS
    <2>3. f \in [S -> Values]
      BY <2>2
    <2> QED  BY <2>1, <2>2, <2>3
  <1>3. /\ phase[t] = "run" /\ job[t].op = "none"
        /\ UNCHANGED <<pages, phase, job, pos, loadable, storable>>
    BY DEF WriteInPlace, Busy, inPlace
  <1>4. /\ AccessInv /\ AccessFits(t) /\ S \subseteq Addresses
        /\ memory \in [Addresses -> Values]
        /\ stored \in [Threads -> Contents]
        /\ \A b \in Blocks : ValuesFit(t, b) /\ PageFits(t, b)
    BY <1>1 DEF MemoryInv, AccessInv, Types
  <1>5. f \in Contents /\ DOMAIN f = S
    BY <1>2, <1>4, ContentsAre
  <1>6. /\ DOMAIN stored'[t] = S \cup DOMAIN stored[t]
        /\ \A a \in S : stored'[t][a] = f[a]
        /\ \A a \in DOMAIN stored[t] \ S : stored'[t][a] = stored[t][a]
    BY <1>2, <1>4, <1>5 DEF Over
  <1>7. /\ \A a \in S : memory'[a] = f[a]
        /\ \A a \in Addresses \ S : memory'[a] = memory[a]
    BY <1>2, <1>4, <1>5, OverMemory
  <1>8. ASSUME NEW b \in Blocks
        PROVE  ValuesFit(t, b)'
    <2>1. PICK p : p = pages[t][b]
      OBVIOUS
    <2>2. /\ ValuesFit(t, b) /\ DOMAIN p.buf \subseteq Bytes(b)
          /\ Bytes(b) \subseteq Addresses
      BY <1>4, <2>1 DEF PageFits, Bytes
    <2>3. \A a \in S \cap Bytes(b) : p.through /\ ~p.discarded
      BY <1>1, <2>1, <2>2 DEF ValuesFit, InUse
    <2>4. InUse(t, b)' = InUse(t, b)
      BY <1>3 DEF InUse
    <2>5. p.discarded => StoredIn(t, b)' = {}
      BY <1>6, <2>1, <2>2, <2>3 DEF StoredIn, ValuesFit
    <2>6. ASSUME NEW a \in DOMAIN p.buf
          PROVE  BufferFits(t, p, a)'
      <3>1. BufferFits(t, p, a) /\ a \in Addresses /\ a \in Bytes(b)
        BY <1>3, <2>1, <2>2 DEF ValuesFit
      <3>2. CASE a \in S
        BY <1>6, <1>7, <2>3, <3>1, <3>2 DEF BufferFits
      <3>3. CASE a \notin S
        <4>1. /\ memory'[a] = memory[a]
              /\ a \in DOMAIN stored'[t] <=> a \in DOMAIN stored[t]
              /\ a \in DOMAIN stored[t] => stored'[t][a] = stored[t][a]
          BY <1>6, <1>7, <3>1, <3>3
        <4> QED  BY <3>1, <4>1 DEF BufferFits, Own
      <3> QED  BY <3>2, <3>3
    <2> QED  BY <1>3, <2>1, <2>2, <2>4, <2>5, <2>6 DEF ValuesFit, WalkFits
  <1>9. StepValues(t)
    <2>1. PlanFits(t)'
      BY <1>3 DEF PlanFits
    <2> QED  BY <1>8, <2>1 DEF StepValues
  <1>10. CommittedMemory' = CommittedMemory
    <2>1. ASSUME NEW a \in Addresses
          PROVE  OldValue(t, a)' = OldValue(t, a)
      <3>1. PICK b \in Blocks : b = tm_block_index_at(a) /\ a \in Bytes(b)
        BY BlockOf
      <3>2. PICK p : p = pages[t][b]
        OBVIOUS
      <3>3. Page(t, a) = p /\ Page(t, a)' = p
        BY <1>3, <3>1, <3>2 DEF Page
      <3>4. CASE a \in S
        <4>1. p.through /\ a \in DOMAIN p.buf /\ BufferFits(t, p, a)
          BY <1>1, <1>3, <1>4, <3>1, <3>2, <3>3, <3>4
             DEF ValuesFit, InUse, AccessFits
        <4>2. OldValue(t, a) = p.buf[a]
          BY <3>3, <4>1 DEF OldValue, BufferFits
        <4>3. OldValue(t, a)' = p.buf[a]
          BY <1>6, <3>3, <3>4, <4>1 DEF OldValue
        <4> QED  BY <4>2, <4>3
      <3>5. CASE a \notin S
        BY <1>6, <1>7, <3>3, <3>5 DEF OldValue
      <3> QED  BY <3>4, <3>5
    <2> QED  BY <1>3, <1>9, <2>1, OldValuesStay
  <1>11. PromisedStep
    BY <1>2, <1>5, <1>10, IsStore
  <1> QED  BY <1>9, <1>11 DEF StepPromised

\* Outside of its execution a transaction has only its pages.
LEMMA EndValues ==
    ASSUME NEW t \in Threads, StepFits(t), phase'[t] # "run",
           (\A b \in Blocks : WalkFits(t, b))'
    PROVE  StepValues(t)
  <1>1. /\ DOMAIN stored'[t] = {} /\ loadable'[t] = {} /\ storable'[t] = {}
        /\ job'[t] = NoJob
    BY DEF StepFits, AccessFits
  <1>2. ASSUME NEW b \in Blocks
        PROVE  ValuesFit(t, b)'
    <2>1. InUse(t, b)' = {} /\ StoredIn(t, b)' = {}
      BY <1>1 DEF InUse, StoredIn
    <2> QED  BY <2>1 DEF ValuesFit
  <1>3. PlanFits(t)'
    BY <1>1 DEF PlanFits, NoJob
  <1> QED  BY <1>2, <1>3 DEF StepValues

\* A beginning transaction has nothing yet.
LEMMA BeginPromised ==
    ASSUME MemoryInv, NEW t \in Threads, StepFits(t), Begin(t)
    PROVE  StepPromised(t)
  <1>1. /\ phase[t] = "out" /\ phase' = [phase EXCEPT ![t] = "run"]
        /\ UNCHANGED <<memory, pages, job, pos, loadable, storable>>
        /\ UNCHANGED <<seen, stored>>
    BY DEF Begin, pageVars, inPlace, history
  <1>2. /\ AccessInv /\ AccessFits(t) /\ Exclusive /\ Exclusive'
        /\ phase \in [Threads -> {"out", "run", "apply", "undo", "finish"}]
    BY DEF MemoryInv, AccessInv, Types, StepFits
  <1>3. phase'[t] = "run"
    BY <1>1, <1>2
  <1>4. \A b \in Blocks : pages[t][b] = tm_page_init
    BY <1>1 DEF MemoryInv, AccessInv, PageFits
  <1>5. /\ DOMAIN stored[t] = {} /\ loadable[t] = {} /\ storable[t] = {}
        /\ job[t] = NoJob
    BY <1>1, <1>2 DEF AccessFits
  <1>6. /\ DOMAIN tm_page_init.buf = {} /\ ~tm_page_init.discarded
        /\ tm_page_init.lock # "WRLOCKED"
    BY NothingIs DEF tm_page_init
  <1>7. ASSUME NEW b \in Blocks
        PROVE  ValuesFit(t, b)'
    <2>1. InUse(t, b)' = {} /\ StoredIn(t, b)' = {}
      BY <1>1, <1>5 DEF InUse, StoredIn
    <2> QED  BY <1>1, <1>3, <1>4, <1>6, <2>1 DEF ValuesFit, WalkFits
  <1>8. StepValues(t)
    BY <1>1, <1>5, <1>7 DEF StepValues, PlanFits, NoJob
  <1>9. \A a \in Addresses : Committed(t, a)' = Committed(t, a)
    <2>1. ASSUME NEW a \in Addresses
          PROVE  Committed(t, a)' = Committed(t, a)
      <3>1. Page(t, a) = tm_page_init /\ Page(t, a)' = tm_page_init
        BY <1>1, <1>4, BlockOf DEF Page
      <3> QED  BY <1>1, <1>6, <3>1 DEF Committed, Keeps
    <2> QED  BY <2>1
  <1>10. CommittedMemory' = CommittedMemory
    BY <1>2, <1>9, CommittedKept DEF StepFits
  <1>11. PromisedStep
    BY <1>1, <1>10, IsHidden
  <1> QED  BY <1>8, <1>11 DEF StepPromised

\* When a transaction commits, its stores are committed, all of them at once.
LEMMA CommitPromised ==
    ASSUME MemoryInv, NEW t \in Threads, StepFits(t), Commit(t)
    PROVE  StepPromised(t)
  <1>1. /\ phase[t] = "run" /\ phase' = [phase EXCEPT ![t] = "apply"]
        /\ pos' = [pos EXCEPT ![t] = 0]
        /\ seen' = [seen EXCEPT ![t] = Nothing]
        /\ stored' = [stored EXCEPT ![t] = Nothing]
        /\ UNCHANGED <<memory, pages>>
    BY DEF Commit, Leave, Busy, pageVars
  <1>2. /\ AccessInv /\ Types /\ AccessFits(t) /\ Exclusive /\ Exclusive'
        /\ phase \in [Threads -> {"out", "run", "apply", "undo", "finish"}]
        /\ pos \in [Threads -> 0 .. NBLOCKS]
    BY DEF MemoryInv, AccessInv, Types, StepFits
  <1>3. phase'[t] = "apply" /\ pos'[t] = 0
    BY <1>1, <1>2
  <1>4. StepValues(t)
    <2>1. ASSUME NEW b \in Blocks
          PROVE  WalkFits(t, b)'
      <3>1. ~(b < 0)
        BY DEF Blocks
      <3> QED  BY <1>3, <3>1 DEF WalkFits
    <2> QED  BY <1>3, <2>1, EndValues
  <1>5. ASSUME NEW a \in DOMAIN stored[t]
        PROVE  /\ a \in Addresses
               /\ \A u \in Threads \ {t} : Page(u, a).lock = "UNLOCKED"
    <2>1. a \in Addresses
      BY <1>2, ContentsAre DEF Types
    <2>2. Page(t, a).lock = "WRLOCKED"
      BY <1>2 DEF AccessFits
    <2> QED  BY <1>2, <2>1, <2>2, BlockOf DEF Exclusive, Page
  <1>6. ASSUME NEW u \in Threads \ {t}
        PROVE  DOMAIN seen[u] \cap DOMAIN stored[t] = {}
    <2>1. AccessFits(u)
      BY DEF MemoryInv, AccessInv
    <2> QED  BY <1>5, <2>1 DEF AccessFits
  <1>7. ASSUME NEW a \in Addresses
        PROVE  CommittedMemory'[a] = Over(stored[t], CommittedMemory)[a]
    <2>1. Over(stored[t], CommittedMemory)[a] =
             IF a \in DOMAIN stored[t] THEN stored[t][a] ELSE CommittedMemory[a]
      BY DEF Over, CommittedMemory
    <2>2. CASE /\ CommittedMemory'[a] = CommittedMemory[a]
               /\ \E u \in Threads \ {t} : Keeps(u, a)
      <3>1. PICK u \in Threads \ {t} : Keeps(u, a)
        BY <2>2
      <3>2. a \notin DOMAIN stored[t]
        BY <1>5, <3>1 DEF Keeps
      <3> QED  BY <2>1, <2>2, <3>2
    <2>3. CASE /\ CommittedMemory[a] = Committed(t, a)
               /\ CommittedMemory'[a] = Committed(t, a)'
      <3>1. PICK b \in Blocks : b = tm_block_index_at(a) /\ a \in Bytes(b)
        BY BlockOf
      <3>2. PICK p : p = pages[t][b]
        OBVIOUS
      <3>3. Page(t, a) = p /\ Page(t, a)' = p /\ ValuesFit(t, b)
        BY <1>1, <3>1, <3>2 DEF Page, MemoryInv
      <3>4. Committed(t, a)' =
               IF /\ p.lock = "WRLOCKED" /\ a \in DOMAIN p.buf
                  /\ ~p.through /\ ~p.discarded
               THEN p.buf[a] ELSE memory[a]
        BY <1>1, <1>3, <3>3 DEF Committed, Keeps
      <3>5. a \in DOMAIN p.buf => BufferFits(t, p, a)
        BY <1>1, <3>2, <3>3 DEF ValuesFit
      <3>6. CASE a \in DOMAIN stored[t]
        <4>1. p.lock = "WRLOCKED" /\ a \in DOMAIN p.buf
          BY <1>2, <3>3, <3>6 DEF AccessFits
        <4>2. ~p.discarded
          BY <3>1, <3>2, <3>3, <3>6 DEF ValuesFit, StoredIn
        <4> QED  BY <2>1, <2>3, <3>4, <3>5, <3>6, <4>1, <4>2
                    DEF BufferFits, Own
      <3>7. CASE a \notin DOMAIN stored[t]
        <4>1. CommittedMemory[a] = memory[a]
          BY <1>1, <2>3, <3>7, RunCommitted DEF OldValue
        <4> QED  BY <2>1, <2>3, <3>4, <3>5, <3>7, <4>1 DEF BufferFits, Own
      <3> QED  BY <3>6, <3>7
    <2> QED  BY <1>2, <2>2, <2>3, CommittedStep DEF StepFits
  <1>8. CommittedMemory' = Over(stored[t], CommittedMemory)
    <2>1. /\ CommittedMemory' = [a \in Addresses |-> CommittedMemory'[a]]
          /\ DOMAIN CommittedMemory = Addresses
      BY DEF CommittedMemory
    <2>2. DOMAIN Over(stored[t], CommittedMemory) = Addresses
      <3>1. DOMAIN stored[t] \subseteq Addresses
        BY <1>5
      <3>2. DOMAIN Over(stored[t], CommittedMemory)
               = DOMAIN stored[t] \cup DOMAIN CommittedMemory
        BY DEF Over
      <3> QED  BY <2>1, <3>1, <3>2
    <2>3. Over(stored[t], CommittedMemory)
             = [a \in Addresses |-> Over(stored[t], CommittedMemory)[a]]
      BY <2>2, OverIs
    <2> QED  BY <1>7, <2>1, <2>3
  <1>9. PromisedStep
    <2>1. Promise!End(t)
      BY <1>1 DEF Promise!End, Promise!Empty, Nothing
    <2>2. Promise!Commit(t)
      BY <1>6, <1>8, <2>1 DEF Promise!Commit, Promise!Over, Over
    <2>3. Promise!TMNext
      BY <2>2 DEF Promise!TMNext
    <2> QED  BY <2>3 DEF PromisedStep
  <1> QED  BY <1>4, <1>9 DEF StepPromised

\* When it rolls back, none of them is.
LEMMA RollbackPromised ==
    ASSUME MemoryInv, NEW t \in Threads, StepFits(t), Rollback(t)
    PROVE  StepPromised(t)
  <1>1. /\ phase[t] = "run" /\ phase' = [phase EXCEPT ![t] = "undo"]
        /\ pos' = [pos EXCEPT ![t] = 0]
        /\ seen' = [seen EXCEPT ![t] = Nothing]
        /\ stored' = [stored EXCEPT ![t] = Nothing]
        /\ UNCHANGED <<memory, pages>>
    BY DEF Rollback, Leave, pageVars
  <1>2. /\ AccessInv /\ AccessFits(t) /\ Exclusive /\ Exclusive'
        /\ phase \in [Threads -> {"out", "run", "apply", "undo", "finish"}]
        /\ pos \in [Threads -> 0 .. NBLOCKS]
    BY DEF MemoryInv, AccessInv, Types, StepFits
  <1>3. phase'[t] = "undo" /\ pos'[t] = 0
    BY <1>1, <1>2
  <1>4. StepValues(t)
    <2>1. ASSUME NEW b \in Blocks
          PROVE  WalkFits(t, b)'
      <3>1. PICK p : p = pages[t][b]
        OBVIOUS
      <3>2. ValuesFit(t, b) /\ PageFits(t, b) /\ b >= 0
        BY DEF MemoryInv, AccessInv, Blocks
      <3>3. p.discarded /\ p.through => Agrees(p)
        <4> SUFFICES ASSUME p.discarded, p.through, NEW a \in DOMAIN p.buf
                     PROVE  memory[a] = p.buf[a]
          BY DEF Agrees
        <4>1. a \in Bytes(b) /\ BufferFits(t, p, a)
          BY <1>1, <3>1, <3>2 DEF ValuesFit, PageFits
        <4>2. a \notin DOMAIN stored[t]
          BY <3>1, <3>2, <4>1 DEF ValuesFit, StoredIn
        <4> QED  BY <4>1, <4>2 DEF BufferFits
      <3>4. Agrees(p) => Agrees(p)'
        BY <1>1 DEF Agrees
      <3> QED  BY <1>1, <1>3, <3>1, <3>2, <3>3, <3>4 DEF WalkFits, Undoes
    <2> QED  BY <1>3, <2>1, EndValues
  <1>5. \A a \in Addresses : Committed(t, a)' = Committed(t, a)
    BY <1>1, <1>3 DEF Committed, Keeps, Page
  <1>6. CommittedMemory' = CommittedMemory
    BY <1>2, <1>5, CommittedKept DEF StepFits
  <1>7. Promise!Abort(t)
    BY <1>1, <1>6 DEF Promise!Abort, Promise!End, Promise!Empty, Nothing
  <1>8. Promise!TMNext
    BY <1>7 DEF Promise!TMNext
  <1> QED  BY <1>4, <1>8 DEF StepPromised, PromisedStep

\* The commit writes to the memory what has been committed already.
LEMMA ApplyPromised ==
    ASSUME MemoryInv, NEW t \in Threads, StepFits(t), apply_page(t)
    PROVE  StepPromised(t)
  <1>1. PICK b, p : b = pos[t] /\ p = pages[t][b]
    OBVIOUS
  <1>2. /\ phase[t] = "apply" /\ b < NBLOCKS
        /\ memory' = IF Applies(p) THEN Over(p.buf, memory) ELSE memory
        /\ pos' = [pos EXCEPT ![t] = @ + 1]
        /\ UNCHANGED <<pages, phase, seen, stored>>
    BY <1>1 DEF apply_page, Walking, NextPage, tm_page_st, history
  <1>3. /\ AccessInv /\ Exclusive /\ Exclusive' /\ pos'[t] = b + 1
        /\ b \in Blocks /\ b \in Int
    <2>1. AccessInv /\ Exclusive /\ Exclusive' /\ pos \in [Threads -> 0 .. NBLOCKS]
      BY DEF MemoryInv, AccessInv, Types, StepFits
    <2>2. b \in 0 .. NBLOCKS /\ NBLOCKS \in Nat
      BY <1>1, <2>1, BlockAssumption
    <2>3. b \in Blocks /\ b \in Int
      BY <1>2, <2>2 DEF Blocks
    <2> QED  BY <1>1, <1>2, <2>1, <2>3
  <1>4. p.buf \in Contents /\ DOMAIN p.buf \subseteq Bytes(b)
    BY <1>1, <1>3 DEF AccessInv, Types, TMPage, PageFits
  <1>5. /\ Applies(p) => \A a \in DOMAIN p.buf : memory'[a] = p.buf[a]
        /\ \A a \in Addresses \ DOMAIN p.buf : memory'[a] = memory[a]
        /\ ~Applies(p) => memory' = memory
    BY <1>2, <1>3, <1>4, OverMemory DEF AccessInv, Types
  <1>6. ASSUME NEW c \in Blocks
        PROVE  WalkFits(t, c)'
    <2>1. CASE c = b
      BY <1>1, <1>2, <1>5, <2>1 DEF WalkFits, Agrees
    <2>2. CASE c # b
      <3>1. /\ WalkFits(t, c) /\ DOMAIN pages[t][c].buf \subseteq Bytes(c)
        BY DEF MemoryInv, ValuesFit, AccessInv, PageFits
      <3>2. \A a \in DOMAIN pages[t][c].buf : memory'[a] = memory[a]
        BY <1>4, <1>5, <2>2, <3>1, BlocksDiffer DEF Bytes
      <3>3. c < b + 1 => c < b
        BY <1>3, <2>2 DEF Blocks
      <3> QED  BY <1>1, <1>2, <1>3, <3>1, <3>2, <3>3
                  DEF WalkFits, Agrees, Applies
    <2> QED  BY <2>1, <2>2
  <1>7. StepValues(t)
    BY <1>2, <1>6, EndValues
  <1>8. ASSUME NEW a \in Addresses
        PROVE  Committed(t, a)' = Committed(t, a)
    <2>1. Page(t, a)' = Page(t, a) /\ (Keeps(t, a)' <=> Keeps(t, a))
      BY <1>2 DEF Page, Keeps
    <2>2. ~Keeps(t, a) => memory'[a] = memory[a]
      <3> SUFFICES ASSUME Applies(p), a \in DOMAIN p.buf PROVE Keeps(t, a)
        BY <1>5
      <3>1. Page(t, a) = p
        BY <1>1, <1>4 DEF Page, Bytes
      <3> QED  BY <1>2, <3>1 DEF Keeps, Applies
    <2> QED  BY <2>1, <2>2 DEF Committed
  <1>9. CommittedMemory' = CommittedMemory
    BY <1>3, <1>8, CommittedKept DEF StepFits
  <1>10. PromisedStep
    BY <1>2, <1>9, IsHidden
  <1> QED  BY <1>7, <1>10 DEF StepPromised

\* The roll-back writes back what has never stopped to be committed.
LEMMA UndoPromised ==
    ASSUME MemoryInv, NEW t \in Threads, StepFits(t), undo_page(t)
    PROVE  StepPromised(t)
  <1>1. PICK b, p : b = pos[t] /\ p = pages[t][b]
    OBVIOUS
  <1>2. /\ phase[t] = "undo" /\ b < NBLOCKS
        /\ memory' = IF Undoes(p) THEN Over(p.buf, memory) ELSE memory
        /\ pos' = [pos EXCEPT ![t] = @ + 1]
        /\ UNCHANGED <<pages, phase, seen, stored>>
    BY <1>1 DEF undo_page, Walking, NextPage, tm_page_st, history
  <1>3. /\ AccessInv /\ Exclusive /\ Exclusive' /\ pos'[t] = b + 1
        /\ b \in Blocks /\ b \in Int
    <2>1. AccessInv /\ Exclusive /\ Exclusive' /\ pos \in [Threads -> 0 .. NBLOCKS]
      BY DEF MemoryInv, AccessInv, Types, StepFits
    <2>2. b \in 0 .. NBLOCKS /\ NBLOCKS \in Nat
      BY <1>1, <2>1, BlockAssumption
    <2>3. b \in Blocks /\ b \in Int
      BY <1>2, <2>2 DEF Blocks
    <2> QED  BY <1>1, <1>2, <2>1, <2>3
  <1>4. p.buf \in Contents /\ DOMAIN p.buf \subseteq Bytes(b)
    BY <1>1, <1>3 DEF AccessInv, Types, TMPage, PageFits
  <1>5. /\ Undoes(p) => \A a \in DOMAIN p.buf : memory'[a] = p.buf[a]
        /\ \A a \in Addresses \ DOMAIN p.buf : memory'[a] = memory[a]
        /\ ~Undoes(p) => memory' = memory
    BY <1>2, <1>3, <1>4, OverMemory DEF AccessInv, Types
  <1>6. ASSUME NEW c \in Blocks
        PROVE  WalkFits(t, c)'
    <2>1. WalkFits(t, c)
      BY DEF MemoryInv, ValuesFit
    <2>2. CASE c = b
      <3>1. Undoes(p) => Agrees(p)'
        BY <1>5 DEF Agrees
      <3>2. ~Undoes(p) /\ Agrees(p) => Agrees(p)'
        BY <1>5 DEF Agrees
      <3> QED  BY <1>1, <1>2, <2>1, <2>2, <3>1, <3>2 DEF WalkFits, Undoes
    <2>3. CASE c # b
      <3>1. DOMAIN pages[t][c].buf \subseteq Bytes(c)
        BY DEF MemoryInv, AccessInv, PageFits
      <3>2. \A a \in DOMAIN pages[t][c].buf : memory'[a] = memory[a]
        BY <1>4, <1>5, <2>3, <3>1, BlocksDiffer DEF Bytes
      <3>3. c >= b => c >= b + 1
        BY <1>3, <2>3 DEF Blocks
      <3> QED  BY <1>1, <1>2, <1>3, <2>1, <3>2, <3>3
                  DEF WalkFits, Agrees, Undoes
    <2> QED  BY <2>2, <2>3
  <1>7. StepValues(t)
    BY <1>2, <1>6, EndValues
  <1>8. ASSUME NEW a \in Addresses
        PROVE  Committed(t, a)' = Committed(t, a)
    <2>1. Page(t, a)' = Page(t, a) /\ (Keeps(t, a)' <=> Keeps(t, a))
      BY <1>2 DEF Page, Keeps
    <2>2. ~Keeps(t, a) => memory'[a] = memory[a]
      <3> SUFFICES ASSUME Undoes(p), a \in DOMAIN p.buf PROVE Keeps(t, a)
        BY <1>5
      <3>1. Page(t, a) = p
        BY <1>1, <1>4 DEF Page, Bytes
      <3> QED  BY <1>2, <3>1 DEF Keeps, Undoes
    <2> QED  BY <2>1, <2>2 DEF Committed
  <1>9. CommittedMemory' = CommittedMemory
    BY <1>3, <1>8, CommittedKept DEF StepFits
  <1>10. PromisedStep
    BY <1>2, <1>9, IsHidden
  <1> QED  BY <1>7, <1>10 DEF StepPromised

\* A page that is given back has nothing left to keep.
LEMMA FinishPromised ==
    ASSUME MemoryInv, NEW t \in Threads, StepFits(t), finish_page(t)
    PROVE  StepPromised(t)
  <1>1. phase[t] = "finish" /\ UNCHANGED <<memory, phase, seen, stored>>
    BY DEF finish_page, Walking, NextPage, history
  <1>2. StepValues(t)
    BY <1>1, EndValues DEF WalkFits
  <1>3. \A a \in Addresses : Committed(t, a)' = Committed(t, a)
    BY <1>1 DEF Committed, Keeps
  <1>4. CommittedMemory' = CommittedMemory
    BY <1>3, CommittedKept DEF MemoryInv, AccessInv, StepFits
  <1>5. PromisedStep
    BY <1>1, <1>4, IsHidden
  <1> QED  BY <1>2, <1>5 DEF StepPromised

\* After a walk the memory holds what the buffers have been kept for.
LEMMA WalkedPromised ==
    ASSUME MemoryInv, NEW t \in Threads, StepFits(t), Walked(t)
    PROVE  StepPromised(t)
  <1>1. /\ phase[t] \in {"apply", "undo", "finish"} /\ pos[t] = NBLOCKS
        /\ phase' = [phase EXCEPT ![t] = IF @ = "finish" THEN "out"
                                                         ELSE "finish"]
        /\ UNCHANGED <<memory, pages, seen, stored>>
    BY DEF Walked, pageVars, history
  <1>2. phase'[t] \in {"finish", "out"}
    BY <1>1 DEF MemoryInv, AccessInv, Types
  <1>3. StepValues(t)
    BY <1>2, EndValues DEF WalkFits
  <1>4. ASSUME NEW a \in Addresses
        PROVE  Committed(t, a)' = Committed(t, a)
    <2>1. PICK b \in Blocks : b = tm_block_index_at(a)
      BY BlockOf
    <2>2. PICK p : p = pages[t][b]
      OBVIOUS
    <2>3. Page(t, a) = p /\ WalkFits(t, b)
      BY <2>1, <2>2 DEF Page, MemoryInv, ValuesFit
    <2>4. b < NBLOCKS /\ ~(b >= NBLOCKS)
      BY BlockAssumption DEF Blocks
    <2>5. Keeps(t, a) => Agrees(p)
      BY <1>1, <2>2, <2>3, <2>4 DEF Keeps, WalkFits, Applies
    <2>6. Keeps(t, a) => memory[a] = p.buf[a]
      BY <2>3, <2>5 DEF Keeps, Agrees
    <2>7. ~Keeps(t, a)'
      BY <1>2 DEF Keeps
    <2> QED  BY <1>1, <2>3, <2>6, <2>7 DEF Committed
  <1>5. CommittedMemory' = CommittedMemory
    BY <1>4, CommittedKept DEF MemoryInv, AccessInv, StepFits
  <1>6. PromisedStep
    BY <1>1, <1>5, IsHidden
  <1> QED  BY <1>3, <1>6 DEF StepPromised

\* To begin a call changes nothing yet.
LEMMA CallPromised ==
    ASSUME MemoryInv, NEW t \in Threads, StepFits(t),
           NEW op, NEW r, NEW arg, Call(t, op, r, arg), PlanFits(t)'
    PROVE  StepPromised(t)
  <1>1. /\ phase[t] = "run"
        /\ UNCHANGED <<memory, pages, phase, pos, loadable, storable>>
        /\ UNCHANGED <<seen, stored>>
    BY DEF Call, Busy, pageVars, inPlace, history
  <1>2. StepValues(t)
    <2>1. \A b \in Blocks : SameIn(t, b)
      BY <1>1 DEF SameIn
    <2>2. \A b \in Blocks : ValuesFit(t, b)'
      BY <1>1, <2>1, SameValues
    <2> QED  BY <2>2 DEF StepValues
  <1>3. CommittedMemory' = CommittedMemory
    BY <1>1 DEF CommittedMemory, Keeps, Page
  <1>4. PromisedStep
    BY <1>1, <1>3, IsHidden
  <1> QED  BY <1>2, <1>4 DEF StepPromised

\* Programs without risks begin no privatization that would lose a store.
LEMMA CallsPromised ==
    ASSUME Risks = {}, MemoryInv, NEW t \in Threads, StepFits(t),
           \/ __picotm_tm_load(t) \/ __picotm_tm_store(t)
           \/ __picotm_tm_loadstore(t)
           \/ __picotm_tm_privatize(t) \/ __picotm_tm_privatize_c(t)
    PROVE  StepPromised(t)
  <1>1. job \in [Threads -> Jobs]
    BY DEF MemoryInv, AccessInv, Types
  <1>2. ASSUME NEW op, NEW r, NEW arg, Call(t, op, r, arg)
        PROVE  /\ job'[t].op = op /\ job'[t].arg = arg
               /\ job'[t].addr = r[1] /\ job'[t].siz = r[2]
    <2>1. job' = [job EXCEPT ![t] =
             [op |-> op, addr |-> r[1], siz |-> r[2], arg |-> arg]]
      BY <1>2 DEF Call
    <2> QED  BY <1>1, <2>1
  <1>3. ASSUME NEW op, NEW r, NEW arg, Call(t, op, r, arg), NEW bs
        PROVE  /\ Modified(t, bs)' <=> Modified(t, bs)
               /\ Buffered(t, bs)' <=> Buffered(t, bs)
    BY <1>3 DEF Call, pageVars, history, Modified, Buffered
  <1>4. CASE \/ __picotm_tm_load(t) \/ __picotm_tm_store(t)
             \/ __picotm_tm_loadstore(t)
    <2>1. \E op \in {"ld", "st", "ldst"} : \E r, arg : Call(t, op, r, arg)
      BY <1>4
         DEF __picotm_tm_load, __picotm_tm_store, __picotm_tm_loadstore
    <2>2. PICK op \in {"ld", "st", "ldst"} : \E r, arg : Call(t, op, r, arg)
      BY <2>1
    <2>3. PICK r, arg : Call(t, op, r, arg)
      BY <2>2
    <2>4. job'[t].op = op
      BY <1>2, <2>3
    <2>5. PlanFits(t)'
      BY <2>2, <2>4 DEF PlanFits
    <2> QED  BY <2>3, <2>5, CallPromised
  <1>5. CASE __picotm_tm_privatize(t)
    <2>1. PICK r \in Ranges, flags \in FlagSets :
             LET bs == {tm_block_index_at(a) : a \in Span(r)}
             IN  /\ IF flags = {} THEN ~Modified(t, bs) ELSE ~Buffered(t, bs)
                 /\ Call(t, "privatize", r, flags)
      BY <1>5 DEF __picotm_tm_privatize
    <2>2. PICK bs : bs = {tm_block_index_at(a) : a \in Span(r)}
      OBVIOUS
    <2>3. /\ job'[t].op = "privatize" /\ job'[t].arg = flags
          /\ job'[t].addr = r[1] /\ job'[t].siz = r[2]
      BY <1>2, <2>1
    <2>4. Ahead(job'[t]) = bs
      BY <2>2, <2>3 DEF Ahead, Span
    <2>5. IF flags = {} THEN ~Modified(t, bs)' ELSE ~Buffered(t, bs)'
      BY <1>3, <2>1, <2>2
    <2>6. PlanFits(t)'
      BY <2>3, <2>4, <2>5 DEF PlanFits
    <2> QED  BY <2>1, <2>6, CallPromised
  <1>6. CASE __picotm_tm_privatize_c(t)
    <2>1. PICK a \in Starts, flags \in FlagSets :
             /\ ~Buffered(t, tm_block_index_at(a) .. NBLOCKS - 1)
             /\ Call(t, "privatize_c",
                      <<a, NBLOCKS * BLOCK_SIZE - a>>, flags)
      BY <1>6 DEF __picotm_tm_privatize_c
    <2>2. PICK later, r : /\ later = tm_block_index_at(a) .. NBLOCKS - 1
                          /\ r = <<a, NBLOCKS * BLOCK_SIZE - a>>
      OBVIOUS
    <2>3. /\ Call(t, "privatize_c", r, flags)
          /\ r[1] = a /\ r[2] = NBLOCKS * BLOCK_SIZE - a
      BY <2>1, <2>2
    <2>4. /\ job'[t].op = "privatize_c" /\ job'[t].addr = a
          /\ job'[t].siz = NBLOCKS * BLOCK_SIZE - a
      BY <1>2, <2>3
    <2>5. Ahead(job'[t]) \subseteq later
      <3>1. PICK end \in Nat : end = NBLOCKS * BLOCK_SIZE
        BY BlockAssumption
      <3>2. a \in Addresses /\ Addresses = 0 .. end - 1
        BY <3>1, StringsAssumption DEF Addresses
      <3>3. a + (end - a) - 1 = end - 1
        BY <3>1, <3>2
      <3>4. \A x \in a .. end - 1 : x \in Addresses /\ a <= x
        BY <3>1, <3>2
      <3>5. Ahead(job'[t]) = {tm_block_index_at(x) : x \in a .. end - 1}
        BY <2>4, <3>1, <3>3 DEF Ahead
      <3> QED  BY <2>2, <3>2, <3>4, <3>5, LaterBlock
    <2>6. ~Buffered(t, later)'
      BY <1>3, <2>1, <2>2, <2>3
    <2>7. PICK A : A = Ahead(job'[t])
      OBVIOUS
    <2>8. ~Buffered(t, A)'
      BY <2>5, <2>6, <2>7 DEF Buffered
    <2>9. PlanFits(t)'
      BY <2>4, <2>7, <2>8 DEF PlanFits
    <2> QED  BY <2>3, <2>9, CallPromised
  <1> QED  BY <1>4, <1>5, <1>6

\* Programs without risks are such programs as the locks suffice for.
LEMMA NoRisks ==
    Risks = {} => LocksSuffice
  BY DEF LocksSuffice

\* Every step of a thread keeps the promise.
LEMMA ThreadStepPromised ==
    ASSUME Risks = {}, MemoryInv, NEW t \in Threads, ThreadStep(t)
    PROVE  StepFits(t) /\ StepPromised(t)
  <1>1. AccessInv /\ StepFits(t)
    BY NoRisks, ThreadStepFits DEF MemoryInv
  <1>2. CASE Begin(t)
    BY <1>1, <1>2, BeginPromised
  <1>3. CASE VMStep(t)
    <2>1. CASE tm_vmem_tx_st(t) \/ tm_vmem_tx_ldst(t)
      BY <1>1, <2>1, StorePuts, CopyPuts, PutPromised
    <2>2. CASE tm_vmem_tx_privatize(t) /\ job[t].arg = {}
      BY <1>1, <2>2, DiscardPromised
    <2>3. CASE tm_vmem_tx_privatize(t) /\ job[t].arg # {}
      <3>1. PICK q : Opens(t, q, Part(t), Part(t))
        BY <1>1, <2>3, RegionOpens
      <3>2. Part(t) \subseteq Bytes(Block(t))
        BY DEF Part
      <3> QED  BY <1>1, <3>1, <3>2, OpenPromised
    <2>4. CASE tm_vmem_tx_privatize_c(t)
      BY <1>1, <2>4, StringOpens, OpenPromised
    <2> QED  BY <1>1, <1>3, <2>1, <2>2, <2>3, <2>4, LoadPromised,
                ApplyPromised, UndoPromised, FinishPromised, WalkedPromised
                DEF VMStep
  <1>4. CASE ProgramStep(t)
    BY <1>1, <1>4, CallsPromised, ReadPromised, WritePromised,
       CommitPromised, RollbackPromised DEF ProgramStep
  <1> QED  BY <1>1, <1>2, <1>3, <1>4 DEF ThreadStep

\* In the beginning there are no values to keep.
LEMMA MemoryInit ==
    VMInit => MemoryInv /\ Promise!TMInit
  <1> SUFFICES ASSUME VMInit PROVE MemoryInv /\ Promise!TMInit
    OBVIOUS
  <1>1. AccessInv /\ memory \in [Addresses -> Values]
    BY AccessInit DEF AccessInv, Types
  <1>2. /\ DOMAIN tm_page_init.buf = {} /\ ~tm_page_init.discarded
        /\ tm_page_init.lock # "WRLOCKED"
    BY NothingIs DEF tm_page_init
  <1>3. \A t \in Threads :
           /\ \A b \in Blocks : pages[t][b] = tm_page_init
           /\ phase[t] = "out" /\ job[t] = NoJob
           /\ loadable[t] = {} /\ storable[t] = {} /\ stored[t] = Nothing
    BY DEF VMInit
  <1>4. ASSUME NEW t \in Threads
        PROVE  (\A b \in Blocks : ValuesFit(t, b)) /\ PlanFits(t)
    <2>1. \A b \in Blocks : InUse(t, b) = {} /\ StoredIn(t, b) = {}
      BY <1>3, NothingIs DEF InUse, StoredIn
    <2>2. \A b \in Blocks : ValuesFit(t, b)
      BY <1>2, <1>3, <2>1 DEF ValuesFit, WalkFits
    <2>3. PlanFits(t)
      BY <1>3 DEF PlanFits, NoJob
    <2> QED  BY <2>2, <2>3
  <1>5. MemoryInv
    BY <1>1, <1>4 DEF MemoryInv
  <1>6. \A t \in Threads, a \in Addresses : ~Keeps(t, a)
    BY <1>2, <1>3, BlockOf DEF Keeps, Page
  <1>7. CommittedMemory \in [Addresses -> Values]
    BY <1>1, <1>6 DEF CommittedMemory
  <1>8. Promise!TMInit
    BY <1>7 DEF VMInit, Promise!TMInit, Promise!Empty, Nothing
  <1> QED  BY <1>5, <1>8

\* Every step keeps the invariant and the promise.
LEMMA MemoryNext ==
    ASSUME Risks = {}, MemoryInv, [VMNext]_vmVars
    PROVE  MemoryInv' /\ PromisedStep
  <1>1. CASE UNCHANGED vmVars
    <2>1. /\ UNCHANGED <<memory, pages, phase, started, job, pos, calls>>
          /\ UNCHANGED <<loadable, storable, seen, stored>>
      BY <1>1 DEF vmVars, inPlace, history
    <2>2. AccessInv'
      BY <1>1, NoRisks, AccessNext DEF MemoryInv
    <2>3. ASSUME NEW t \in Threads
          PROVE  (\A b \in Blocks : ValuesFit(t, b))' /\ PlanFits(t)'
      <3>1. \A b \in Blocks : ValuesFit(t, b)'
        BY <2>1, SameValues DEF SameIn
      <3>2. PlanFits(t)'
        BY <2>1 DEF MemoryInv, PlanFits, Modified, Buffered
      <3> QED  BY <3>1, <3>2
    <2>4. CommittedMemory' = CommittedMemory
      BY <2>1 DEF CommittedMemory, Keeps, Page
    <2> QED  BY <2>1, <2>2, <2>3, <2>4, IsHidden DEF MemoryInv
  <1>2. CASE VMNext
    <2>1. PICK t \in Threads : ThreadStep(t)
      BY <1>2 DEF VMNext, ThreadStep
    <2> QED  BY <2>1, ThreadStepPromised, StepValuesAll DEF StepPromised
  <1> QED  BY <1>1, <1>2

(* What the buffers hold, in every state of a program without risks: the    *)
(* transaction's values in write-back mode, those to be restored in         *)
(* write-through mode.                                                      *)
THEOREM MemoryInvariant ==
    Risks = {} /\ VMSpec => []MemoryInv
  <1> SUFFICES ASSUME Risks = {} PROVE VMSpec => []MemoryInv
    OBVIOUS
  <1>1. VMInit => MemoryInv
    BY MemoryInit
  <1>2. MemoryInv /\ [VMNext]_vmVars => MemoryInv'
    BY MemoryNext
  <1> QED  BY <1>1, <1>2, PTL DEF VMSpec

(* Atomicity and isolation: to a program without risks the stores of a      *)
(* transaction, buffered or in place, take effect at its commit, all at     *)
(* once, or never, and nobody overwrites what another one has been shown.   *)
THEOREM TransactionsAreAtomic ==
    Risks = {} /\ VMSpec => ImplementsTransactionalMemory
  <1> SUFFICES ASSUME Risks = {}
               PROVE  VMSpec => ImplementsTransactionalMemory
    OBVIOUS
  <1>1. VMInit => MemoryInv /\ Promise!TMInit
    BY MemoryInit
  <1>2. MemoryInv /\ [VMNext]_vmVars
           => MemoryInv' /\ [Promise!TMNext]_(Promise!tmVars)
    BY MemoryNext DEF PromisedStep
  <1> QED  BY <1>1, <1>2, PTL
              DEF VMSpec, ImplementsTransactionalMemory, Promise!TMSpec
=============================================================================
