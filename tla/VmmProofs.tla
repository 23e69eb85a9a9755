------------------------------- MODULE VmmProofs -------------------------------
(***************************************************************************)
(* The page tables for tables of every size, every supply of frames and    *)
(* every sequence of calls: the tables stay a tree, ring 3 reaches no more *)
(* than bootmain.s opened to it, a call maps its pages in one step, and    *)
(* the driver finds its registers mapped.  The invariant gives each table  *)
(* a level and a number among the tables of its level; a frame of level 0  *)
(* is free, about to be linked, or no table.                               *)
(***************************************************************************)
EXTENDS Vmm, TLAPS

--------------------------------------------------------------------------------
(* The tree of tables, in a memory m *)

Flags   == {"P", "W", "U", "PS", "PCD"}
Entries == [addr : Nat, flags : SUBSET Flags]
Memory  == [Frames -> [Slots -> Entries]]
Space   == 0 .. Fan * Span(4) - 1

\* The entry leads to a table, if the one that holds it is above level 1.
Leads(e) == Has(e, "P") /\ ~Has(e, "PS")

\* The entries that the processor meets on its way to page v.
E4(m, v) == m[pml4][Index(v, 4)]
E3(m, v) == m[E4(m, v).addr][Index(v, 3)]
E2(m, v) == m[E3(m, v).addr][Index(v, 2)]
E1(m, v) == m[E2(m, v).addr][Index(v, 1)]

\* The way to page v comes to table t at level l.
At(m, v, t, l) ==
    \/ l = 4 /\ t = pml4
    \/ l = 3 /\ Leads(E4(m, v)) /\ t = E4(m, v).addr
    \/ l = 2 /\ Leads(E4(m, v)) /\ Leads(E3(m, v)) /\ t = E3(m, v).addr
    \/ l = 1 /\ Leads(E4(m, v)) /\ Leads(E3(m, v)) /\ Leads(E2(m, v)) /\ t = E2(m, v).addr

\* What the processor finds for page v.
Value(m, v) ==
    IF ~Has(E4(m, v), "P") THEN Fault
    ELSE IF ~Leads(E3(m, v)) THEN Leaf(v, <<E4(m, v), E3(m, v)>>)
    ELSE IF ~Leads(E2(m, v)) THEN Leaf(v, <<E4(m, v), E3(m, v), E2(m, v)>>)
    ELSE Leaf(v, <<E4(m, v), E3(m, v), E2(m, v), E1(m, v)>>)

\* Entry e of level l gives page v its frame.
Gives(t, e, v, l) ==
    /\ t.frame = e.addr + (v % Span(l)) /\ t.uncached = Has(e, "PCD")
    /\ t.user => Has(e, "U")

\* The number, among the tables of level l, of the one that translates v.
Up(v, l) == IF l = 4 THEN 0 ELSE v \div Span(l + 1)

\* An entry that leads down leads to the table of its number one level below,
\* and nothing else leads to that one.
Linked(m, lev, num) ==
    /\ \A t \in Frames, k \in Slots :
          lev[t] >= 2 /\ Leads(m[t][k]) =>
              /\ m[t][k].addr \in Frames
              /\ lev[m[t][k].addr] = lev[t] - 1
              /\ num[m[t][k].addr] = num[t] * Fan + k
    /\ \A t, u \in Frames : \A k, j \in Slots :
          lev[t] >= 2 /\ lev[u] >= 2 /\ Leads(m[t][k]) /\ Leads(m[u][j])
              /\ m[t][k].addr = m[u][j].addr => t = u /\ k = j

\* A page that ring 3 may use is a 2 MB page in a gigabyte opened to it.
Confined(m, lev, num) ==
    \A t \in Frames, k \in Slots :
        /\ lev[t] = 4 => ~Has(m[t][k], "PS")
        /\ lev[t] = 3 /\ Has(m[t][k], "PS") => ~Has(m[t][k], "U")
        /\ lev[t] = 2 /\ Has(m[t][k], "PS") /\ Has(m[t][k], "U") => num[t] < UserGb
        /\ lev[t] = 1 => ~Has(m[t][k], "U")

Tree(m, fr, lev, num) ==
    /\ lev \in [Frames -> 0 .. 4] /\ num \in [Frames -> Nat]
    /\ lev[pml4] = 4 /\ num[pml4] = 0
    /\ \A f \in fr : lev[f] = 0
    /\ Linked(m, lev, num) /\ Confined(m, lev, num)

\* The calls that somebody makes.
Made   == Calls \cup {PageCall(b + k) : b \in Bars, k \in 0 .. WinPages - 1}
CallOK == bar \in Bars /\ call \in Made

\* The call under way stands where the way to its page leads; the frame that it
\* took is no table yet, and empty when it is linked.
InCall(lev) ==
    /\ pc \in {"walk", "clear", "link"} =>
          At(mem, call.virt, table, level) /\ call.virt % Span(call.leaf) = 0
    /\ pc \in {"clear", "link"} =>
          lev[new] = 0 /\ new \notin free /\ level > call.leaf /\ ~Has(Here, "P")
    /\ pc = "link" => \A k \in Slots : mem[new][k] = Empty

TreeAt(lev, num) == Tree(mem, free, lev, num) /\ InCall(lev)

TreeInv == TypeOK /\ CallOK /\ \E lev, num : TreeAt(lev, num)

--------------------------------------------------------------------------------
(* Division *)

\* A quotient and a remainder are unique.
LEMMA DivUnique ==
    ASSUME NEW d \in Nat, d >= 1, NEW q \in Nat, NEW r \in Nat, r < d
    PROVE  (q * d + r) \div d = q /\ (q * d + r) % d = r
<1> DEFINE n == q * d + r
           p == n \div d
           s == n % d
<1>1. n \in Nat
  <2>1. q * d \in Nat
    OBVIOUS
  <2> QED BY <2>1
<1>2. p \in Int /\ s \in 0 .. d - 1 /\ n = p * d + s
  BY <1>1, Z3
<1>3. p = q
  <2>1. CASE p >= q + 1
    <3>1. p * d >= (q + 1) * d
      BY <2>1, <1>2, Z3
    <3>2. (q + 1) * d = q * d + d
      BY Z3
    <3> QED BY <3>1, <3>2, <1>2
  <2>2. CASE p <= q - 1
    <3>1. p * d <= (q - 1) * d
      BY <2>2, <1>2, Z3
    <3>2. (q - 1) * d = q * d - d
      BY Z3
    <3> QED BY <3>1, <3>2, <1>2
  <2> QED BY <2>1, <2>2, <1>2
<1> QED BY <1>2, <1>3

\* What a quotient and a remainder are.
LEMMA DivMod ==
    ASSUME NEW n \in Nat, NEW d \in Nat, d >= 1
    PROVE  n \div d \in Nat /\ n % d \in Nat /\ n % d < d /\ n = (n \div d) * d + (n % d)
<1>1. n \div d \in Int /\ n % d \in 0 .. d - 1 /\ n = (n \div d) * d + (n % d)
  BY Z3
<1>2. n \div d >= 0
  BY Z3
<1> QED BY <1>1, <1>2

\* Dividing twice is dividing by the product.
LEMMA DivTwice ==
    ASSUME NEW n \in Nat, NEW a \in Nat, NEW b \in Nat, a >= 1, b >= 1
    PROVE  (n \div a) \div b = n \div (a * b)
<1> DEFINE x == n \div a
           y == n % a
           p == x \div b
           s == x % b
           r == s * a + y
<1>1. x \in Nat /\ y \in Nat /\ y < a /\ n = x * a + y
  BY DivMod
<1>2. p \in Nat /\ s \in Nat /\ s < b /\ x = p * b + s
  BY <1>1, DivMod
<1>3. a * b \in Nat /\ a * b >= 1
  BY Z3
<1>4. n = p * (a * b) + r
  <2> HIDE DEF x, y, p, s
  <2>1. x * a = p * (a * b) + s * a
    BY <1>1, <1>2, Z3
  <2> QED BY <1>1, <1>2, <2>1
<1>5. r \in Nat /\ r < a * b
  <2> HIDE DEF x, y, p, s
  <2>1. s * a \in Nat /\ s * a <= (b - 1) * a
    BY <1>2, Z3
  <2>2. (b - 1) * a = a * b - a
    BY Z3
  <2> QED BY <2>1, <2>2, <1>1, <1>3
<1>6. n \div (a * b) = p
  <2> HIDE DEF p, r
  <2> DEFINE d == a * b
  <2>1. d \in Nat /\ d >= 1 /\ r < d /\ n = p * d + r
    BY <1>3, <1>4, <1>5
  <2> HIDE DEF d
  <2>2. n \div d = p
    BY <2>1, <1>2, <1>5, DivUnique
  <2> QED BY <2>2 DEF d
<1> QED BY <1>6

--------------------------------------------------------------------------------
(* Facts about constants *)

\* A table's span at each level.
LEMMA Spans ==
    /\ Fan \in Nat /\ Fan >= 2
    /\ Span(1) = 1 /\ Span(2) = Fan /\ Span(3) = Fan * Fan /\ Span(4) = Fan * Fan * Fan
    /\ \A l \in 1 .. 4 : Span(l) \in Nat /\ Span(l) >= 1
    /\ \A l \in 1 .. 3 : Span(l + 1) = Span(l) * Fan
<1>1. Span(1) = 1 /\ Span(2) = Fan /\ Span(3) = Fan * Fan /\ Span(4) = Fan * Fan * Fan
  BY DEF Span
<1>2. Fan \in Nat /\ Fan >= 2
  BY FanAssumption
<1>3. Fan * Fan \in Nat /\ Fan * Fan >= 1
  BY <1>2
<1>4. Fan * Fan * Fan \in Nat /\ Fan * Fan * Fan >= 1
  BY <1>2, <1>3
<1>5. \A l \in 1 .. 4 : Span(l) \in Nat /\ Span(l) >= 1
  BY <1>1, <1>2, <1>3, <1>4
<1>6. \A l \in 1 .. 3 : Span(l + 1) = Span(l) * Fan
  BY <1>1, <1>2, <1>3
<1> QED BY <1>1, <1>2, <1>5, <1>6

\* An index is one of a table.
LEMMA IndexInTable == \A v \in Nat, l \in 1 .. 4 : Index(v, l) \in Slots
<1> SUFFICES ASSUME NEW v \in Nat, NEW l \in 1 .. 4
             PROVE  Index(v, l) \in Slots
  OBVIOUS
<1>1. v \div Span(l) \in Int
  BY Spans
<1> QED BY <1>1, FanAssumption DEF Index, Slots

\* The page's number among the entries of its level: that of the table, then
\* the index in the table.
LEMMA Place ==
    ASSUME NEW v \in Space, NEW l \in 1 .. 4
    PROVE  Up(v, l) \in Nat /\ v \div Span(l) = Up(v, l) * Fan + Index(v, l)
<1> DEFINE n == v \div Span(l)
<1>1. v \in Nat /\ Span(l) \in Nat /\ Span(l) >= 1 /\ Fan \in Nat /\ Fan >= 1
  BY Spans DEF Space
<1>2. n \in Nat
  BY <1>1, DivMod
<1>3. n = (n \div Fan) * Fan + (n % Fan) /\ n \div Fan \in Nat
  <2> HIDE DEF n
  <2> QED BY <1>1, <1>2, DivMod
<1>4. Up(v, l) = n \div Fan
  <2>1. CASE l = 4
    <3>1. n < Fan
      <4> DEFINE d == Span(4)
                 s == v % d
      <4>1. d \in Nat /\ d >= 1 /\ v < Fan * d /\ n = v \div d
        BY <2>1, <1>1, Spans DEF Space
      <4>2. v = n * d + s /\ s \in Nat
        BY <4>1, <1>1, DivMod
      <4>3. SUFFICES ASSUME n >= Fan PROVE FALSE
        BY <1>1, <1>2
      <4> HIDE DEF n, d, s
      <4>4. n * d >= Fan * d
        BY <4>3, <4>1, <1>1, <1>2, Z3
      <4> QED BY <4>1, <4>2, <4>4, <1>1, <1>2
    <3> HIDE DEF n
    <3>2. n = 0 * Fan + n
      BY <1>1, <1>2
    <3>3. n \div Fan = 0
      BY <1>1, <1>2, <3>1, DivUnique, <3>2
    <3> QED BY <3>3, <2>1 DEF Up
  <2>2. CASE l \in 1 .. 3
    <3>1. Span(l + 1) = Span(l) * Fan
      BY <2>2, Spans
    <3>2. (v \div Span(l)) \div Fan = v \div (Span(l) * Fan)
      BY <1>1, DivTwice
    <3> QED BY <3>1, <3>2, <2>2 DEF Up
  <2> QED BY <2>1, <2>2
<1>5. n % Fan = Index(v, l)
  BY DEF Index
<1> QED BY <1>3, <1>4, <1>5

\* The frames of bootmain.s are not for pmm_alloc_page to hand out.
LEMMA FreeFrames == \A S \in FreeSets : S \subseteq Frames \ BootFrames
<1>1. \A f \in UNION FreeSets : f \notin BootFrames
  BY FreeAssumption, FanAssumption DEF BootFrames
<1> QED BY <1>1 DEF Frames

\* Whoever calls, the call is a sound one.
LEMMA MadeSound ==
    ASSUME NEW c \in Made
    PROVE  /\ c.leaf \in 1 .. 3 /\ c.phys \in Nat /\ c.virt \in Space
           /\ c.virt + Span(c.leaf) <= Fan * Span(4)
           /\ c.flags \subseteq {"P", "W", "PS", "PCD"}
<1>1. Fan * Span(4) \in Nat /\ \A l \in 1 .. 3 : Span(l) \in Nat /\ Span(l) >= 1
  BY Spans
<1>2. CASE c \in Calls
  BY <1>1, <1>2, CallsAssumption DEF Space
<1>3. CASE \E b \in Bars, k \in 0 .. WinPages - 1 : c = PageCall(b + k)
  <2>1. PICK b \in Bars, k \in 0 .. WinPages - 1 : c = PageCall(b + k)
    BY <1>3
  <2>2. b \in Nat /\ WinPages \in Nat /\ b + WinPages <= Fan * Span(4)
    BY BarAssumption
  <2> QED BY <1>1, <2>1, <2>2, Spans DEF PageCall, Space
<1> QED BY <1>2, <1>3 DEF Made

--------------------------------------------------------------------------------
(* The processor's way to a page *)

\* The value of a path.
LEMMA LeafIs ==
    ASSUME NEW v, NEW a, NEW b, NEW c, NEW d, Has(a, "P")
    PROVE  /\ IF Has(b, "P") THEN Gives(Leaf(v, <<a, b>>), b, v, 3)
              ELSE Leaf(v, <<a, b>>) = Fault
           /\ Has(b, "P") =>
                  IF Has(c, "P") THEN Gives(Leaf(v, <<a, b, c>>), c, v, 2)
                  ELSE Leaf(v, <<a, b, c>>) = Fault
           /\ Has(b, "P") /\ Has(c, "P") =>
                  IF Has(d, "P") THEN Gives(Leaf(v, <<a, b, c, d>>), d, v, 1)
                  ELSE Leaf(v, <<a, b, c, d>>) = Fault
<1>1. CASE Has(b, "P")
  BY <1>1 DEF Leaf, Gives
<1>2. CASE ~Has(b, "P")
  BY <1>2 DEF Leaf
<1> QED BY <1>1, <1>2

\* The page walk is that of Value, in this state and in the next.
LEMMA TranslateIs ==
    \A v : Translate(v) = Value(mem, v) /\ Translate(v)' = Value(mem', v)
<1> SUFFICES ASSUME NEW v
             PROVE  Translate(v) = Value(mem, v) /\ Translate(v)' = Value(mem', v)
  OBVIOUS
<1>1. Translate(v) = Value(mem, v)
  BY Zenon DEF Translate, Value, E4, E3, E2, E1, Leads
<1>2. Translate(v)' = Value(mem', v)
  BY Zenon DEF Translate, Value, E4, E3, E2, E1, Leads
<1> QED BY <1>1, <1>2

\* The way to a page goes through tables of the level and the number that it
\* is looked up at.
LEMMA WayTables ==
    ASSUME NEW m \in Memory, NEW fr, NEW lev, NEW num, Tree(m, fr, lev, num),
           NEW v \in Space, NEW t, NEW l \in 1 .. 4, At(m, v, t, l)
    PROVE  t \in Frames /\ lev[t] = l /\ num[t] = Up(v, l)
<1> DEFINE Good(x, k) == x \in Frames /\ lev[x] = k /\ num[x] = Up(v, k)
<1>0. v \in Nat /\ \A k \in 1 .. 4 : Index(v, k) \in Slots /\ v \div Span(k) = Up(v, k) * Fan + Index(v, k)
  BY IndexInTable, Place DEF Space
<1>1. ASSUME NEW x, NEW k \in 2 .. 4, Good(x, k), Leads(m[x][Index(v, k)])
      PROVE  Good(m[x][Index(v, k)].addr, k - 1)
  <2> DEFINE y == m[x][Index(v, k)].addr
  <2>1. y \in Frames /\ lev[y] = k - 1 /\ num[y] = Up(v, k) * Fan + Index(v, k)
    BY <1>0, <1>1 DEF Tree, Linked
  <2>2. Up(v, k - 1) = v \div Span(k)
    BY DEF Up
  <2> QED BY <2>1, <2>2, <1>0
<1>2. Good(pml4, 4)
  BY FanAssumption DEF Tree, Up, Frames, BootFrames, pml4
<1> HIDE DEF Good
<1>3. Leads(E4(m, v)) => Good(E4(m, v).addr, 3)
  BY <1>1, <1>2 DEF E4
<1>4. Leads(E4(m, v)) /\ Leads(E3(m, v)) => Good(E3(m, v).addr, 2)
  BY <1>1, <1>3 DEF E3
<1>5. Leads(E4(m, v)) /\ Leads(E3(m, v)) /\ Leads(E2(m, v)) => Good(E2(m, v).addr, 1)
  BY <1>1, <1>4 DEF E2
<1>6. Good(t, l)
  BY <1>2, <1>3, <1>4, <1>5 DEF At
<1> QED BY <1>6 DEF Good

\* Without a huge entry at the top, the way to a page goes on while entries lead.
LEMMA WayGoesOn ==
    ASSUME NEW m \in Memory, NEW fr, NEW lev, NEW num, Tree(m, fr, lev, num), NEW v \in Space
    PROVE  /\ ~Has(E4(m, v), "PS")
           /\ At(m, v, pml4, 4)
           /\ Has(E4(m, v), "P") => Leads(E4(m, v)) /\ At(m, v, E4(m, v).addr, 3)
           /\ Has(E4(m, v), "P") /\ Leads(E3(m, v)) => At(m, v, E3(m, v).addr, 2)
           /\ Has(E4(m, v), "P") /\ Leads(E3(m, v)) /\ Leads(E2(m, v)) => At(m, v, E2(m, v).addr, 1)
<1>1. pml4 \in Frames /\ Index(v, 4) \in Slots
  BY IndexInTable, FanAssumption DEF Frames, BootFrames, pml4, Space
<1>2. ~Has(E4(m, v), "PS")
  BY <1>1 DEF Tree, Confined, E4
<1> QED BY <1>2 DEF At, Leads

\* Where the way to a page ends, and where it does not.
LEMMA WayEnds ==
    ASSUME NEW m, NEW v, NEW t, NEW l \in 1 .. 4, At(m, v, t, l), NEW e, e = m[t][Index(v, l)]
    PROVE  /\ ~Has(e, "P") => Value(m, v) = Fault
           /\ l >= 2 /\ Leads(e) => At(m, v, e.addr, l - 1)
           /\ Has(e, "P") /\ l <= 3 /\ (l = 1 \/ Has(e, "PS")) => Gives(Value(m, v), e, v, l)
<1>1. CASE l = 4
  <2>1. e = E4(m, v)
    BY <1>1 DEF At, E4
  <2> QED BY <1>1, <2>1 DEF At, Value
<1>2. CASE l = 3
  <2>1. e = E3(m, v) /\ Leads(E4(m, v))
    BY <1>2 DEF At, E3
  <2>2. ~Leads(e) => Value(m, v) = Leaf(v, <<E4(m, v), E3(m, v)>>)
    BY <2>1 DEF Value, Leads
  <2>3. Leads(e) => At(m, v, e.addr, 2)
    BY <2>1 DEF At
  <2>4. Has(E4(m, v), "P")
    BY <2>1 DEF Leads
  <2>5. IF Has(E3(m, v), "P") THEN Gives(Leaf(v, <<E4(m, v), E3(m, v)>>), E3(m, v), v, 3)
        ELSE Leaf(v, <<E4(m, v), E3(m, v)>>) = Fault
    BY <2>4, LeafIs
  <2>6. ~Has(e, "P") => Value(m, v) = Fault
    BY <2>1, <2>2, <2>5 DEF Leads
  <2>7. Has(e, "P") /\ Has(e, "PS") => Gives(Value(m, v), e, v, 3)
    BY <2>1, <2>2, <2>5 DEF Leads
  <2> QED BY <1>2, <2>3, <2>6, <2>7
<1>3. CASE l = 2
  <2>1. e = E2(m, v) /\ Leads(E4(m, v)) /\ Leads(E3(m, v))
    BY <1>3 DEF At, E2
  <2>2. ~Leads(e) => Value(m, v) = Leaf(v, <<E4(m, v), E3(m, v), E2(m, v)>>)
    BY <2>1 DEF Value, Leads
  <2>3. Leads(e) => At(m, v, e.addr, 1)
    BY <2>1 DEF At
  <2>4. Has(E4(m, v), "P") /\ Has(E3(m, v), "P")
    BY <2>1 DEF Leads
  <2>5. IF Has(E2(m, v), "P") THEN Gives(Leaf(v, <<E4(m, v), E3(m, v), E2(m, v)>>), E2(m, v), v, 2)
        ELSE Leaf(v, <<E4(m, v), E3(m, v), E2(m, v)>>) = Fault
    BY <2>4, LeafIs
  <2>6. ~Has(e, "P") => Value(m, v) = Fault
    BY <2>1, <2>2, <2>5 DEF Leads
  <2>7. Has(e, "P") /\ Has(e, "PS") => Gives(Value(m, v), e, v, 2)
    BY <2>1, <2>2, <2>5 DEF Leads
  <2> QED BY <1>3, <2>3, <2>6, <2>7
<1>4. CASE l = 1
  <2>1. e = E1(m, v) /\ Leads(E4(m, v)) /\ Leads(E3(m, v)) /\ Leads(E2(m, v))
    BY <1>4 DEF At, E1
  <2>2. Value(m, v) = Leaf(v, <<E4(m, v), E3(m, v), E2(m, v), E1(m, v)>>)
    BY <2>1 DEF Value, Leads
  <2>3. Has(E4(m, v), "P") /\ Has(E3(m, v), "P") /\ Has(E2(m, v), "P")
    BY <2>1 DEF Leads
  <2>4. IF Has(E1(m, v), "P")
        THEN Gives(Leaf(v, <<E4(m, v), E3(m, v), E2(m, v), E1(m, v)>>), E1(m, v), v, 1)
        ELSE Leaf(v, <<E4(m, v), E3(m, v), E2(m, v), E1(m, v)>>) = Fault
    BY <2>3, LeafIs
  <2> QED BY <1>4, <2>1, <2>2, <2>4
<1> QED BY <1>1, <1>2, <1>3, <1>4

\* The way to a table depends on the entries above it only.
LEMMA WayKept ==
    ASSUME NEW m, NEW n, NEW v, NEW t, NEW l \in 1 .. 4, At(m, v, t, l),
           \A u, k : k \in 1 .. 4 /\ k > l /\ At(m, v, u, k) => n[u][Index(v, k)] = m[u][Index(v, k)]
    PROVE  At(n, v, t, l)
<1>1. l < 4 => E4(n, v) = E4(m, v)
  BY DEF At, E4
<1>2. l < 3 => E3(n, v) = E3(m, v)
  <2>1. l < 3 => At(m, v, E4(m, v).addr, 3)
    BY DEF At
  <2> QED BY <1>1, <2>1 DEF E3
<1>3. l < 2 => E2(n, v) = E2(m, v)
  <2>1. l < 2 => At(m, v, E3(m, v).addr, 2)
    BY DEF At
  <2> QED BY <1>2, <2>1 DEF E2
<1> QED BY <1>1, <1>2, <1>3 DEF At

\* The processor finds the same page while the entries on its way are the same.
LEMMA Untouched ==
    ASSUME NEW m, NEW n, NEW v, ~Has(E4(m, v), "PS"),
           \A u, k : k \in 1 .. 4 /\ At(m, v, u, k) => n[u][Index(v, k)] = m[u][Index(v, k)]
    PROVE  Value(n, v) = Value(m, v)
<1>1. E4(n, v) = E4(m, v)
  BY DEF At, E4
<1>2. Leads(E4(m, v)) => E3(n, v) = E3(m, v)
  <2>1. Leads(E4(m, v)) => At(m, v, E4(m, v).addr, 3)
    BY DEF At
  <2> QED BY <1>1, <2>1 DEF E3
<1>3. Leads(E4(m, v)) /\ Leads(E3(m, v)) => E2(n, v) = E2(m, v)
  <2>1. Leads(E4(m, v)) /\ Leads(E3(m, v)) => At(m, v, E3(m, v).addr, 2)
    BY DEF At
  <2> QED BY <1>2, <2>1 DEF E2
<1>4. Leads(E4(m, v)) /\ Leads(E3(m, v)) /\ Leads(E2(m, v)) => E1(n, v) = E1(m, v)
  <2>1. Leads(E4(m, v)) /\ Leads(E3(m, v)) /\ Leads(E2(m, v)) => At(m, v, E2(m, v).addr, 1)
    BY DEF At
  <2> QED BY <1>3, <2>1 DEF E1
<1>5. CASE ~Has(E4(m, v), "P")
  BY <1>1, <1>5 DEF Value
<1>6. CASE Leads(E4(m, v)) /\ ~Leads(E3(m, v))
  BY <1>1, <1>2, <1>6 DEF Value
<1>7. CASE Leads(E4(m, v)) /\ Leads(E3(m, v)) /\ ~Leads(E2(m, v))
  BY <1>1, <1>2, <1>3, <1>7 DEF Value
<1>8. CASE Leads(E4(m, v)) /\ Leads(E3(m, v)) /\ Leads(E2(m, v))
  BY <1>1, <1>2, <1>3, <1>4, <1>8 DEF Value
<1> QED BY <1>5, <1>6, <1>7, <1>8 DEF Leads

\* Two pages are translated by the same entry of a table iff the entry spans both.
LEMMA SameEntry ==
    ASSUME NEW m \in Memory, NEW fr, NEW lev, NEW num, Tree(m, fr, lev, num),
           NEW v \in Space, NEW w \in Space, NEW t, NEW l \in 1 .. 4, At(m, w, t, l)
    PROVE  At(m, v, t, l) /\ Index(v, l) = Index(w, l) <=> v \div Span(l) = w \div Span(l)
<1>1. ASSUME At(m, v, t, l), Index(v, l) = Index(w, l)
      PROVE  v \div Span(l) = w \div Span(l)
  <2>1. num[t] = Up(v, l) /\ num[t] = Up(w, l)
    BY <1>1, WayTables
  <2>2. v \div Span(l) = Up(v, l) * Fan + Index(v, l) /\ w \div Span(l) = Up(w, l) * Fan + Index(w, l)
    BY Place
  <2> QED BY <1>1, <2>1, <2>2
<1>2. ASSUME v \div Span(l) = w \div Span(l)
      PROVE  At(m, v, t, l) /\ Index(v, l) = Index(w, l)
  <2>1. ASSUME NEW k \in 1 .. 3, v \div Span(k) = w \div Span(k)
        PROVE  v \div Span(k + 1) = w \div Span(k + 1)
    <3>1. v \in Nat /\ w \in Nat /\ Span(k) \in Nat /\ Span(k) >= 1 /\ Fan \in Nat /\ Fan >= 1
          /\ Span(k + 1) = Span(k) * Fan
      BY Spans DEF Space
    <3>2. v \div Span(k + 1) = (v \div Span(k)) \div Fan /\ w \div Span(k + 1) = (w \div Span(k)) \div Fan
      BY <3>1, DivTwice
    <3> QED BY <2>1, <3>2
  <2>2. \A k \in 1 .. 4 : k >= l => v \div Span(k) = w \div Span(k)
    <3>1. l = 1 => v \div Span(2) = w \div Span(2)
      BY <1>2, <2>1
    <3>2. l <= 2 => v \div Span(3) = w \div Span(3)
      BY <1>2, <2>1, <3>1
    <3>3. l <= 3 => v \div Span(4) = w \div Span(4)
      BY <1>2, <2>1, <3>2
    <3> QED BY <1>2, <3>1, <3>2, <3>3
  <2>3. \A k \in 1 .. 4 : k >= l => Index(v, k) = Index(w, k)
    BY <2>2 DEF Index
  <2>4. At(m, v, t, l)
    <3>1. l < 4 => E4(m, v) = E4(m, w)
      BY <2>3 DEF E4
    <3>2. l < 3 => E3(m, v) = E3(m, w)
      BY <2>3, <3>1 DEF E3
    <3>3. l < 2 => E2(m, v) = E2(m, w)
      BY <2>3, <3>2 DEF E2
    <3> QED BY <3>1, <3>2, <3>3 DEF At
  <2> QED BY <2>3, <2>4
<1> QED BY <1>1, <1>2

\* The pages that an aligned entry spans.
LEMMA Aligned ==
    ASSUME NEW v \in Nat, NEW w \in Nat, NEW s \in Nat, s >= 1, w % s = 0
    PROVE  /\ w <= v /\ v < w + s <=> v \div s = w \div s
           /\ v \div s = w \div s => v % s = v - w
<1> DEFINE p == v \div s
           q == w \div s
           x == v % s
<1>1. p \in Nat /\ q \in Nat /\ x \in Nat /\ x < s /\ v = p * s + x /\ w = q * s
  BY DivMod
<1>2. ASSUME w <= v, v < w + s
      PROVE  p = q
  <2> DEFINE y == v - w
  <2>1. y \in Nat /\ y < s /\ v = q * s + y
    BY <1>1, <1>2
  <2> HIDE DEF y, q
  <2>2. (q * s + y) \div s = q
    BY <1>1, <2>1, DivUnique
  <2> QED BY <2>1, <2>2
<1>3. ASSUME p = q
      PROVE  w <= v /\ v < w + s /\ x = v - w
  <2> HIDE DEF p, q, x
  <2> QED BY <1>1, <1>3
<1> QED BY <1>2, <1>3

--------------------------------------------------------------------------------
(* What the writes to the tables do to the tree *)

\* vmm_next_table links an empty frame under an entry that is absent.
LEMMA TreeLinked ==
    ASSUME NEW m \in Memory, NEW fr, NEW lev, NEW num, Tree(m, fr, lev, num),
           NEW t \in Frames, NEW k \in Slots, lev[t] >= 2,
           NEW f \in Frames, lev[f] = 0, f \notin fr, \A j \in Slots : m[f][j] = Empty
    PROVE  Tree([m EXCEPT ![t][k] = Entry(f, TableFlags)], fr,
                [lev EXCEPT ![f] = lev[t] - 1], [num EXCEPT ![f] = num[t] * Fan + k])
<1> DEFINE e == Entry(f, TableFlags)
           n == [m EXCEPT ![t][k] = e]
           lev2 == [lev EXCEPT ![f] = lev[t] - 1]
           num2 == [num EXCEPT ![f] = num[t] * Fan + k]
<1>1. lev \in [Frames -> 0 .. 4] /\ num \in [Frames -> Nat] /\ lev[pml4] = 4 /\ num[pml4] = 0
  BY DEF Tree
<1>2. f # t /\ f # pml4
  BY <1>1
<1>3. Leads(e) /\ e.addr = f /\ ~Has(e, "PS")
  BY DEF Entry, TableFlags, Leads, Has
<1>4. \A u \in Frames, j \in Slots : n[u][j] = IF u = t /\ j = k THEN e ELSE m[u][j]
  BY DEF Memory
<1>5. \A u \in Frames : lev2[u] = (IF u = f THEN lev[t] - 1 ELSE lev[u])
                     /\ num2[u] = (IF u = f THEN num[t] * Fan + k ELSE num[u])
  BY <1>1
<1>6. lev2 \in [Frames -> 0 .. 4] /\ num2 \in [Frames -> Nat]
  BY <1>1, FanAssumption DEF Slots
<1>7. \A j \in Slots : n[f][j] = Empty
  BY <1>2, <1>4
<1>8. ~Has(Empty, "P") /\ ~Has(Empty, "PS") /\ ~Has(Empty, "U") /\ ~Leads(Empty)
  BY DEF Empty, Entry, Has, Leads
<1> HIDE DEF e, n, lev2, num2
\* An entry that leads is the new one, or is an old one of an old table.
<1>9. ASSUME NEW u \in Frames, NEW j \in Slots, lev2[u] >= 2, Leads(n[u][j])
      PROVE  /\ u # f /\ lev2[u] = lev[u] /\ num2[u] = num[u]
             /\ \/ u = t /\ j = k /\ n[u][j].addr = f
                \/ /\ ~(u = t /\ j = k) /\ n[u][j] = m[u][j]
                   /\ n[u][j].addr \in Frames /\ n[u][j].addr # f
                   /\ lev[n[u][j].addr] = lev[u] - 1
                   /\ num[n[u][j].addr] = num[u] * Fan + j
  <2>1. u # f
    BY <1>7, <1>8, <1>9
  <2>2. CASE u = t /\ j = k
    BY <2>1, <2>2, <1>3, <1>4, <1>5
  <2>3. CASE ~(u = t /\ j = k)
    <3>1. n[u][j] = m[u][j] /\ lev[u] >= 2
      BY <2>1, <2>3, <1>4, <1>5, <1>9
    <3>2. m[u][j].addr \in Frames /\ lev[m[u][j].addr] = lev[u] - 1
          /\ num[m[u][j].addr] = num[u] * Fan + j
      BY <3>1, <1>9 DEF Tree, Linked
    <3>3. m[u][j].addr # f
      BY <3>1, <3>2, <1>1
    <3> QED BY <2>1, <2>3, <3>1, <3>2, <3>3, <1>5
  <2> QED BY <2>2, <2>3
<1>10. Linked(n, lev2, num2)
  <2>1. ASSUME NEW u \in Frames, NEW j \in Slots, lev2[u] >= 2, Leads(n[u][j])
        PROVE  /\ n[u][j].addr \in Frames
               /\ lev2[n[u][j].addr] = lev2[u] - 1
               /\ num2[n[u][j].addr] = num2[u] * Fan + j
    BY <1>5, <1>9, <2>1
  <2>2. ASSUME NEW u \in Frames, NEW w \in Frames, NEW j \in Slots, NEW i0 \in Slots,
               lev2[u] >= 2, lev2[w] >= 2, Leads(n[u][j]), Leads(n[w][i0]),
               n[u][j].addr = n[w][i0].addr
        PROVE  u = w /\ j = i0
    <3>0. /\ lev2[u] = lev[u] /\ lev2[w] = lev[w]
          /\ n[u][j].addr = f => u = t /\ j = k
          /\ n[u][j].addr # f => n[u][j] = m[u][j]
          /\ n[w][i0].addr = f => w = t /\ i0 = k
          /\ n[w][i0].addr # f => n[w][i0] = m[w][i0]
      BY <1>9, <2>2
    <3>1. CASE n[u][j].addr = f
      BY <3>0, <2>2, <3>1
    <3>2. CASE n[u][j].addr # f
      <4>1. n[u][j] = m[u][j] /\ n[w][i0] = m[w][i0] /\ lev[u] >= 2 /\ lev[w] >= 2
        BY <3>0, <2>2, <3>2
      <4> QED BY <4>1, <2>2 DEF Tree, Linked
    <3> QED BY <3>1, <3>2
  <2> QED BY <2>1, <2>2 DEF Linked
<1>11. Confined(n, lev2, num2)
  <2> SUFFICES ASSUME NEW u \in Frames, NEW j \in Slots
               PROVE  /\ lev2[u] = 4 => ~Has(n[u][j], "PS")
                      /\ lev2[u] = 3 /\ Has(n[u][j], "PS") => ~Has(n[u][j], "U")
                      /\ lev2[u] = 2 /\ Has(n[u][j], "PS") /\ Has(n[u][j], "U") => num2[u] < UserGb
                      /\ lev2[u] = 1 => ~Has(n[u][j], "U")
    BY DEF Confined
  <2>1. CASE u = f
    BY <1>7, <1>8, <2>1
  <2>2. CASE u = t /\ j = k
    BY <1>2, <1>3, <1>4, <1>5, <2>2
  <2>3. CASE u # f /\ ~(u = t /\ j = k)
    BY <1>4, <1>5, <2>3 DEF Tree, Confined
  <2> QED BY <2>1, <2>2, <2>3
<1>12. lev2[pml4] = 4 /\ num2[pml4] = 0 /\ \A g \in fr : lev2[g] = 0
  BY <1>1, <1>2 DEF Tree, lev2, num2
<1> QED BY <1>6, <1>10, <1>11, <1>12 DEF Tree, n, lev2, num2, e

\* A call writes its last entry: a page that is not for ring 3.
LEMMA TreeWritten ==
    ASSUME NEW m \in Memory, NEW fr, NEW lev, NEW num, Tree(m, fr, lev, num),
           NEW t \in Frames, NEW k \in Slots, lev[t] <= 3,
           NEW e, ~Has(e, "U"), lev[t] >= 2 => Has(e, "PS")
    PROVE  Tree([m EXCEPT ![t][k] = e], fr, lev, num)
<1> DEFINE n == [m EXCEPT ![t][k] = e]
<1>1. \A u \in Frames, j \in Slots : n[u][j] = IF u = t /\ j = k THEN e ELSE m[u][j]
  BY DEF Memory
<1> HIDE DEF n
<1>2. \A u \in Frames, j \in Slots : lev[u] >= 2 /\ Leads(n[u][j]) => n[u][j] = m[u][j]
  BY <1>1 DEF Leads
<1>3. Linked(m, lev, num)
  BY DEF Tree
<1>4. Linked(n, lev, num)
  <2>1. ASSUME NEW u \in Frames, NEW j \in Slots, lev[u] >= 2, Leads(n[u][j])
        PROVE  /\ n[u][j].addr \in Frames
               /\ lev[n[u][j].addr] = lev[u] - 1
               /\ num[n[u][j].addr] = num[u] * Fan + j
    BY <1>2, <1>3, <2>1 DEF Linked
  <2>2. ASSUME NEW u \in Frames, NEW w \in Frames, NEW j \in Slots, NEW i0 \in Slots,
               lev[u] >= 2, lev[w] >= 2, Leads(n[u][j]), Leads(n[w][i0]),
               n[u][j].addr = n[w][i0].addr
        PROVE  u = w /\ j = i0
    BY <1>2, <1>3, <2>2 DEF Linked
  <2> QED BY <2>1, <2>2 DEF Linked
<1>5. Confined(n, lev, num)
  BY <1>1 DEF Tree, Confined
<1> QED BY <1>4, <1>5 DEF Tree, n

\* A frame that is no table is cleared.
LEMMA TreeCleared ==
    ASSUME NEW m \in Memory, NEW fr, NEW lev, NEW num, Tree(m, fr, lev, num),
           NEW f \in Frames, lev[f] = 0, NEW row
    PROVE  Tree([m EXCEPT ![f] = row], fr, lev, num)
<1> DEFINE n == [m EXCEPT ![f] = row]
<1>1. \A u \in Frames : lev[u] >= 1 => n[u] = m[u]
  BY DEF Memory
<1> HIDE DEF n
<1>2. Linked(m, lev, num) /\ lev \in [Frames -> 0 .. 4]
  BY DEF Tree
<1>3. \A u \in Frames, j \in Slots : lev[u] >= 2 => n[u][j] = m[u][j]
  BY <1>1, <1>2
<1>4. Linked(n, lev, num)
  <2>1. ASSUME NEW u \in Frames, NEW j \in Slots, lev[u] >= 2, Leads(n[u][j])
        PROVE  /\ n[u][j].addr \in Frames
               /\ lev[n[u][j].addr] = lev[u] - 1
               /\ num[n[u][j].addr] = num[u] * Fan + j
    BY <1>2, <1>3, <2>1 DEF Linked
  <2>2. ASSUME NEW u \in Frames, NEW w \in Frames, NEW j \in Slots, NEW i0 \in Slots,
               lev[u] >= 2, lev[w] >= 2, Leads(n[u][j]), Leads(n[w][i0]),
               n[u][j].addr = n[w][i0].addr
        PROVE  u = w /\ j = i0
    BY <1>2, <1>3, <2>2 DEF Linked
  <2> QED BY <2>1, <2>2 DEF Linked
<1>5. Confined(n, lev, num)
  BY <1>1 DEF Tree, Confined
<1> QED BY <1>4, <1>5 DEF Tree, n

--------------------------------------------------------------------------------
(* The tables of bootmain.s *)

BootLev == [f \in Frames |-> IF f = pml4 THEN 4 ELSE IF f = pdpt THEN 3
                             ELSE IF f \in BootFrames THEN 2 ELSE 0]
BootNum == [f \in Frames |-> IF f \in BootFrames \ {pml4, pdpt} THEN f - pd(0) ELSE 0]

BootMemory == [f \in Frames |-> [k \in Slots |-> boot_main(f, k)]]

\* What boot_main writes, frame by frame.
LEMMA BootEntries ==
    /\ Frames \subseteq Nat /\ {pml4, pdpt} \subseteq BootFrames /\ BootFrames \subseteq Frames
    /\ \A k \in Slots :
          boot_main(pml4, k) = IF k = 0 THEN Entry(pdpt, {"P", "W", "U"}) ELSE Empty
    /\ \A k \in Slots :
          boot_main(pdpt, k) = IF k < IdentGb THEN Entry(pd(k), PdptFlags(k)) ELSE Empty
    /\ \A f \in BootFrames \ {pml4, pdpt}, k \in Slots :
          boot_main(f, k) = Entry(((f - pd(0)) * Fan + k) * Fan, ZoneFlags(f - pd(0)))
    /\ \A f \in Frames \ BootFrames, k \in Slots : boot_main(f, k) = Junk
<1>1. Frames \subseteq Nat /\ {pml4, pdpt} \subseteq BootFrames /\ BootFrames \subseteq Frames
  <2>1. IdentGb \in Nat /\ BootFrames \subseteq Nat /\ {pml4, pdpt} \subseteq BootFrames
    BY FanAssumption DEF BootFrames, pml4, pdpt
  <2>2. MmioGb * Fan * Fan - 1 \in Int
    BY FanAssumption, ZoneAssumption
  <2>3. UNION FreeSets \subseteq Nat
    BY <2>1, <2>2, FreeAssumption
  <2> QED BY <2>1, <2>3 DEF Frames
<1>2. pml4 # pdpt /\ Slots \subseteq Nat
  BY FanAssumption DEF pml4, pdpt, Slots
<1>3. \A k \in Slots :
          boot_main(pml4, k) = IF k = 0 THEN Entry(pdpt, {"P", "W", "U"}) ELSE Empty
  BY <1>1, <1>2 DEF boot_main
<1>4. \A k \in Slots :
          boot_main(pdpt, k) = IF k < IdentGb THEN Entry(pd(k), PdptFlags(k)) ELSE Empty
  BY <1>1, <1>2 DEF boot_main
<1>5. \A f \in BootFrames \ {pml4, pdpt}, k \in Slots :
          boot_main(f, k) = Entry(((f - pd(0)) * Fan + k) * Fan, ZoneFlags(f - pd(0)))
  BY DEF boot_main
<1>6. \A f \in Frames \ BootFrames, k \in Slots : boot_main(f, k) = Junk
  BY <1>1 DEF boot_main
<1> QED BY <1>1, <1>3, <1>4, <1>5, <1>6

\* They are in memory.
LEMMA BootMemoryType == BootMemory \in Memory
<1> SUFFICES ASSUME NEW f \in Frames, NEW k \in Slots
             PROVE  boot_main(f, k) \in Entries
  BY DEF BootMemory, Memory
<1>1. pml4 \in Nat /\ pdpt \in Nat /\ pd(k) \in Nat /\ k \in Nat /\ Fan \in Nat
  BY FanAssumption DEF pml4, pdpt, pd, Slots
<1>2. CASE f = pml4
  BY <1>1, <1>2, BootEntries DEF Entry, Empty, Entries, Flags
<1>3. CASE f = pdpt
  BY <1>1, <1>3, BootEntries DEF Entry, Empty, Entries, Flags, PdptFlags
<1>4. CASE f \in BootFrames \ {pml4, pdpt}
  <2>1. f - pd(0) \in Nat
    BY <1>4 DEF BootFrames, pml4, pdpt, pd
  <2>2. ((f - pd(0)) * Fan + k) * Fan \in Nat
    BY <1>1, <2>1
  <2>3. ZoneFlags(f - pd(0)) \subseteq Flags
    BY DEF ZoneFlags, Flags
  <2>4. boot_main(f, k) = Entry(((f - pd(0)) * Fan + k) * Fan, ZoneFlags(f - pd(0)))
    BY <1>4, BootEntries
  <2> QED BY <2>2, <2>3, <2>4 DEF Entry, Entries
<1>5. CASE f \notin BootFrames
  BY <1>5, BootEntries DEF Junk, Entry, Entries, Flags
<1> QED BY <1>2, <1>3, <1>4, <1>5

\* They are a tree.
LEMMA BootTree ==
    ASSUME NEW fr, fr \subseteq Frames \ BootFrames
    PROVE  Tree(BootMemory, fr, BootLev, BootNum)
<1>1. /\ Frames \subseteq Nat /\ pml4 \in BootFrames /\ pdpt \in BootFrames /\ BootFrames \subseteq Frames
      /\ pml4 # pdpt
  BY BootEntries DEF pml4, pdpt
<1>2. BootLev \in [Frames -> 0 .. 4]
  BY DEF BootLev
<1>3. BootNum \in [Frames -> Nat]
  BY <1>1 DEF BootNum, BootFrames, pml4, pdpt, pd
<1>4. BootLev[pml4] = 4 /\ BootNum[pml4] = 0 /\ \A f \in fr : BootLev[f] = 0
  BY <1>1 DEF BootLev, BootNum
<1>5. /\ BootLev[pdpt] = 3 /\ BootNum[pdpt] = 0
      /\ \A f \in BootFrames \ {pml4, pdpt} : BootLev[f] = 2 /\ BootNum[f] = f - pd(0)
      /\ \A f \in Frames \ BootFrames : BootLev[f] = 0
  BY <1>1 DEF BootLev, BootNum
<1>6. \A g \in 0 .. IdentGb - 1 : /\ pd(g) \in BootFrames \ {pml4, pdpt}
                                  /\ BootLev[pd(g)] = 2 /\ BootNum[pd(g)] = g
  <2>1. \A g \in 0 .. IdentGb - 1 : pd(g) \in BootFrames \ {pml4, pdpt} /\ pd(g) - pd(0) = g
    BY FanAssumption DEF BootFrames, pml4, pdpt, pd
  <2> QED BY <2>1, <1>5
<1>7. \A f \in Frames, k \in Slots : BootMemory[f][k] = boot_main(f, k)
  BY DEF BootMemory
<1>8. ASSUME NEW k \in Slots
      PROVE  /\ Leads(BootMemory[pml4][k]) => k = 0 /\ BootMemory[pml4][k].addr = pdpt
             /\ ~Has(BootMemory[pml4][k], "PS")
  BY <1>1, <1>7, BootEntries DEF Leads, Has, Entry, Empty
<1>9. ASSUME NEW k \in Slots
      PROVE  /\ Leads(BootMemory[pdpt][k]) =>
                    k \in 0 .. IdentGb - 1 /\ BootMemory[pdpt][k].addr = pd(k)
             /\ ~Has(BootMemory[pdpt][k], "PS")
  BY <1>1, <1>7, BootEntries, FanAssumption DEF Leads, Has, Entry, Empty, PdptFlags, Slots
<1>10. ASSUME NEW f \in BootFrames \ {pml4, pdpt}, NEW k \in Slots
       PROVE  /\ ~Leads(BootMemory[f][k])
              /\ Has(BootMemory[f][k], "U") => BootNum[f] < UserGb
  <2>1. BootMemory[f][k] = Entry(((f - pd(0)) * Fan + k) * Fan, ZoneFlags(f - pd(0)))
    BY <1>1, <1>7, BootEntries
  <2>2. BootMemory[f][k].flags = ZoneFlags(f - pd(0)) /\ BootNum[f] = f - pd(0)
    BY <2>1, <1>5 DEF Entry
  <2> QED BY <2>2 DEF Leads, Has, ZoneFlags
\* A link is the one from the PML4 to the PDPT, or one from there.
<1>11. ASSUME NEW t \in Frames, NEW k \in Slots, BootLev[t] >= 2, Leads(BootMemory[t][k])
       PROVE  \/ t = pml4 /\ k = 0 /\ BootMemory[t][k].addr = pdpt
              \/ t = pdpt /\ k \in 0 .. IdentGb - 1 /\ BootMemory[t][k].addr = pd(k)
  BY <1>5, <1>8, <1>9, <1>10, <1>11
<1>12. Linked(BootMemory, BootLev, BootNum)
  <2>1. ASSUME NEW t \in Frames, NEW k \in Slots, BootLev[t] >= 2, Leads(BootMemory[t][k])
        PROVE  /\ BootMemory[t][k].addr \in Frames
               /\ BootLev[BootMemory[t][k].addr] = BootLev[t] - 1
               /\ BootNum[BootMemory[t][k].addr] = BootNum[t] * Fan + k
    <3>1. \/ t = pml4 /\ k = 0 /\ BootMemory[t][k].addr = pdpt
          \/ t = pdpt /\ k \in 0 .. IdentGb - 1 /\ BootMemory[t][k].addr = pd(k)
      BY <1>11, <2>1
    <3>2. CASE t = pml4 /\ k = 0 /\ BootMemory[t][k].addr = pdpt
      BY <1>1, <1>4, <1>5, <3>2, FanAssumption
    <3>3. CASE t = pdpt /\ k \in 0 .. IdentGb - 1 /\ BootMemory[t][k].addr = pd(k)
      <4>1. pd(k) \in Frames /\ BootLev[pd(k)] = 2 /\ BootNum[pd(k)] = k
        BY <1>1, <1>6, <3>3
      <4>2. BootNum[t] * Fan + k = k /\ BootLev[t] = 3
        BY <1>5, <3>3, FanAssumption
      <4> QED BY <3>3, <4>1, <4>2
    <3> QED BY <3>1, <3>2, <3>3
  <2>2. ASSUME NEW t \in Frames, NEW u \in Frames, NEW k \in Slots, NEW j \in Slots,
               BootLev[t] >= 2, BootLev[u] >= 2, Leads(BootMemory[t][k]), Leads(BootMemory[u][j]),
               BootMemory[t][k].addr = BootMemory[u][j].addr
        PROVE  t = u /\ k = j
    <3>1. \/ t = pml4 /\ k = 0 /\ BootMemory[t][k].addr = pdpt
          \/ t = pdpt /\ k \in 0 .. IdentGb - 1 /\ BootMemory[t][k].addr = pd(k)
      BY <1>11, <2>2
    <3>2. \/ u = pml4 /\ j = 0 /\ BootMemory[u][j].addr = pdpt
          \/ u = pdpt /\ j \in 0 .. IdentGb - 1 /\ BootMemory[u][j].addr = pd(j)
      BY <1>11, <2>2
    <3> QED BY <2>2, <3>1, <3>2, <1>6
  <2> QED BY <2>1, <2>2 DEF Linked
<1>13. Confined(BootMemory, BootLev, BootNum)
  <2> SUFFICES ASSUME NEW t \in Frames, NEW k \in Slots
               PROVE  /\ BootLev[t] = 4 => ~Has(BootMemory[t][k], "PS")
                      /\ BootLev[t] = 3 /\ Has(BootMemory[t][k], "PS") => ~Has(BootMemory[t][k], "U")
                      /\ BootLev[t] = 2 /\ Has(BootMemory[t][k], "PS") /\ Has(BootMemory[t][k], "U")
                            => BootNum[t] < UserGb
                      /\ BootLev[t] = 1 => ~Has(BootMemory[t][k], "U")
    BY DEF Confined
  <2> QED BY <1>4, <1>5, <1>8, <1>9, <1>10
<1> QED BY <1>2, <1>3, <1>4, <1>12, <1>13 DEF Tree

--------------------------------------------------------------------------------
(* The tree is an invariant *)

\* A step keeps the level and the number of every table; a frame gets one while
\* it is empty.
Grown(n, lev, num, lev2, num2) ==
    \A f \in Frames : \/ lev2[f] = lev[f] /\ num2[f] = num[f]
                      \/ \A k \in Slots : n[f][k] = Empty

LEMMA InitTree ==
    ASSUME Init
    PROVE  TypeOK /\ CallOK /\ TreeAt(BootLev, BootNum) /\ mem = BootMemory
<1>1. mem = BootMemory /\ free \in FreeSets /\ bar \in Bars /\ pc = "idle" /\ call = PageCall(bar)
      /\ level = 4 /\ table = pml4 /\ new = pml4 /\ i = 0 /\ refused = FALSE
  BY DEF Init, BootMemory
<1>2. free \subseteq Frames \ BootFrames
  BY <1>1, FreeFrames
<1>3. call \in Made /\ call.leaf = 1
  <2>1. bar \in Nat /\ 0 \in 0 .. WinPages - 1
    BY <1>1, BarAssumption
  <2>2. PageCall(bar) = PageCall(bar + 0)
    BY <2>1
  <2>3. PageCall(bar) \in Made
    BY <1>1, <2>1, <2>2 DEF Made
  <2> QED BY <1>1, <2>3 DEF PageCall
<1>4. TypeOK
  <2>1. pml4 \in Frames
    BY BootEntries
  <2>2. mem \in [Frames -> [Slots -> [addr : Nat, flags : SUBSET {"P", "W", "U", "PS", "PCD"}]]]
    BY <1>1, BootMemoryType DEF Memory, Entries, Flags
  <2>3. level \in call.leaf .. 4 /\ table \in Frames /\ new \in Frames
    BY <1>1, <1>3, <2>1
  <2>4. i \in 0 .. WinPages
    BY <1>1, BarAssumption
  <2> QED BY <1>1, <1>2, <2>2, <2>3, <2>4 DEF TypeOK
<1>5. TreeAt(BootLev, BootNum)
  BY <1>1, <1>2, BootTree DEF TreeAt, InCall
<1> QED BY <1>1, <1>3, <1>4, <1>5 DEF CallOK

\* While a call is under way it stands at a table of its level.
LEMMA AtWork ==
    ASSUME TypeOK, CallOK, NEW lev, NEW num, TreeAt(lev, num), pc \in {"walk", "clear", "link"}
    PROVE  /\ mem \in Memory /\ Tree(mem, free, lev, num)
           /\ call.virt \in Space /\ call.leaf \in 1 .. 3 /\ level \in 1 .. 4 /\ level >= call.leaf
           /\ At(mem, call.virt, table, level)
           /\ table \in Frames /\ lev[table] = level /\ num[table] = Up(call.virt, level)
           /\ Index(call.virt, level) \in Slots
           /\ Here \in Entries /\ Here = mem[table][Index(call.virt, level)]
           /\ ~Has(E4(mem, call.virt), "PS")
           /\ level = 4 => ~Has(Here, "PS")
<1>1. mem \in Memory /\ Tree(mem, free, lev, num)
  BY DEF TypeOK, Memory, Entries, Flags, TreeAt
<1>2. call.virt \in Space /\ call.leaf \in 1 .. 3
  BY MadeSound DEF CallOK
<1>3. level \in 1 .. 4 /\ level >= call.leaf
  BY <1>2 DEF TypeOK
<1>4. At(mem, call.virt, table, level)
  BY DEF TreeAt, InCall
<1>5. table \in Frames /\ lev[table] = level /\ num[table] = Up(call.virt, level)
  BY <1>1, <1>2, <1>3, <1>4, WayTables
<1>6. Index(call.virt, level) \in Slots
  BY <1>2, <1>3, IndexInTable DEF Space
<1>7. Here \in Entries /\ Here = mem[table][Index(call.virt, level)]
  BY <1>1, <1>5, <1>6 DEF Here, Memory
<1>8. ~Has(E4(mem, call.virt), "PS")
  BY <1>1, <1>2, WayGoesOn
<1>9. level = 4 => ~Has(Here, "PS")
  BY <1>1, <1>5, <1>6, <1>7 DEF Tree, Confined
<1> QED BY <1>1, <1>2, <1>3, <1>4, <1>5, <1>6, <1>7, <1>8, <1>9

\* A step that starts a call keeps the tree.
LEMMA StartsCall ==
    ASSUME TypeOK, CallOK, NEW lev, NEW num, TreeAt(lev, num), NEW c \in Made, Start(c),
           pc' \in {"walk", "idle"}, pc' = "walk" => c.virt % Span(c.leaf) = 0,
           bar' = bar, i' \in 0 .. WinPages, refused' = refused
    PROVE  TypeOK' /\ CallOK' /\ TreeAt(lev, num)'
<1>1. call' = c /\ level' = 4 /\ table' = pml4 /\ mem' = mem /\ free' = free /\ tlb' = tlb /\ new' = new
  BY DEF Start, tree
<1>2. c.leaf \in 1 .. 3
  BY MadeSound
<1>3. TypeOK'
  <2>1. pml4 \in Frames
    BY BootEntries
  <2>2. level' \in call'.leaf .. 4 /\ table' \in Frames /\ new' \in Frames
    BY <1>1, <1>2, <2>1 DEF TypeOK
  <2> QED BY <1>1, <2>2 DEF TypeOK
<1>4. CallOK'
  BY <1>1 DEF CallOK
<1>5. Tree(mem, free, lev, num)'
  BY <1>1 DEF TreeAt
<1>6. At(mem', call'.virt, table', level')
  BY <1>1 DEF At
<1>7. InCall(lev)'
  BY <1>1, <1>6 DEF InCall
<1> QED BY <1>3, <1>4, <1>5, <1>7 DEF TreeAt

\* Every step keeps the tree.
LEMMA StepTree ==
    ASSUME TypeOK, CallOK, NEW lev, NEW num, TreeAt(lev, num), [Next]_vars
    PROVE  /\ TypeOK' /\ CallOK'
           /\ \E lev2, num2 : TreeAt(lev2, num2)' /\ Grown(mem', lev, num, lev2, num2)
<1>0. Grown(mem', lev, num, lev, num)
  BY DEF Grown
<1>1. SUFFICES ASSUME ~LinkTable
               PROVE  TypeOK' /\ CallOK' /\ TreeAt(lev, num)'
  <2>1. CASE ~LinkTable
    BY <1>0, <1>1, <2>1
  <2>2. CASE LinkTable
    <3>1. pc = "link" /\ level' = level - 1 /\ table' = new /\ pc' = "walk"
          /\ mem' = [mem EXCEPT ![table][Index(call.virt, level)] = Entry(new, TableFlags)]
          /\ free' = free /\ tlb' = tlb /\ call' = call /\ new' = new /\ bar' = bar /\ i' = i
          /\ refused' = refused
      BY <2>2 DEF LinkTable
    <3> DEFINE k == Index(call.virt, level)
    <3>13. PICK lev2, num2 : /\ lev2 = [lev EXCEPT ![new] = lev[table] - 1]
                             /\ num2 = [num EXCEPT ![new] = num[table] * Fan + k]
      OBVIOUS
    <3>2. /\ mem \in Memory /\ Tree(mem, free, lev, num)
          /\ call.virt \in Space /\ level \in 1 .. 4 /\ At(mem, call.virt, table, level)
          /\ table \in Frames /\ lev[table] = level /\ k \in Slots /\ call.leaf \in 1 .. 3
      BY <3>1, AtWork
    <3>3. /\ lev[new] = 0 /\ new \notin free /\ level > call.leaf /\ level \in 2 .. 4 /\ new \in Frames
          /\ \A j \in Slots : mem[new][j] = Empty
          /\ call.virt % Span(call.leaf) = 0
      BY <3>1, <3>2 DEF TreeAt, InCall, TypeOK
    <3> HIDE DEF k
    <3>4. mem' = [mem EXCEPT ![table][k] = Entry(new, TableFlags)]
      BY <3>1 DEF k
    <3>5. Tree(mem', free', lev2, num2)
      <4>1. Tree([mem EXCEPT ![table][k] = Entry(new, TableFlags)], free, lev2, num2)
        <5>1. lev[table] >= 2
          BY <3>2, <3>3
        <5>2. Tree([mem EXCEPT ![table][k] = Entry(new, TableFlags)], free,
                   [lev EXCEPT ![new] = lev[table] - 1], [num EXCEPT ![new] = num[table] * Fan + k])
          BY <3>2, <3>3, <5>1, TreeLinked
        <5> QED BY <5>2, <3>13
      <4> QED BY <4>1, <3>4, <3>1
    <3>6. Entry(new, TableFlags) \in Entries
      <4>1. new \in Nat
        BY <3>3, BootEntries
      <4> QED BY <4>1 DEF Entry, Entries, TableFlags, Flags
    <3>7. TypeOK'
      <4>1. mem' \in Memory
        BY <3>2, <3>4, <3>6 DEF Memory
      <4> QED BY <3>1, <3>2, <3>3, <4>1 DEF TypeOK, Memory, Entries, Flags
    <3>8. CallOK'
      BY <3>1 DEF CallOK
    <3>9. At(mem', call.virt, new, level - 1)
      <4>1. \A u, l : l \in 1 .. 4 /\ l > level /\ At(mem, call.virt, u, l)
                => mem'[u][Index(call.virt, l)] = mem[u][Index(call.virt, l)]
        <5> SUFFICES ASSUME NEW u, NEW l \in 1 .. 4, l > level, At(mem, call.virt, u, l)
                     PROVE  mem'[u] = mem[u]
          OBVIOUS
        <5>1. u \in Frames /\ lev[u] = l
          BY <3>2, WayTables
        <5> QED BY <5>1, <3>2, <3>4 DEF Memory
      <4>2. At(mem', call.virt, table, level)
        BY <4>1, <3>2, WayKept
      <4>3. mem'[table][Index(call.virt, level)] = Entry(new, TableFlags)
        BY <3>2, <3>4 DEF Memory, k
      <4>4. Leads(Entry(new, TableFlags)) /\ Entry(new, TableFlags).addr = new
        BY DEF Leads, Has, Entry, TableFlags
      <4> QED BY <4>2, <4>3, <4>4, <3>2, <3>3, WayEnds
    <3>10. InCall(lev2)'
      BY <3>1, <3>3, <3>9 DEF InCall
    <3>11. Grown(mem', lev, num, lev2, num2)
      <4> SUFFICES ASSUME NEW f \in Frames
                   PROVE  \/ lev2[f] = lev[f] /\ num2[f] = num[f]
                          \/ \A j \in Slots : mem'[f][j] = Empty
        BY DEF Grown
      <4>1. CASE f # new
        BY <4>1, <3>2, <3>13 DEF Tree
      <4>2. CASE f = new
        <5>1. new # table
          BY <3>2, <3>3
        <5> QED BY <4>2, <5>1, <3>2, <3>3, <3>4 DEF Memory
      <4> QED BY <4>1, <4>2
    <3>12. TreeAt(lev2, num2)'
      BY <3>5, <3>10 DEF TreeAt
    <3> QED BY <3>7, <3>8, <3>11, <3>12
  <2> QED BY <2>1, <2>2
<1>2. CASE UsbMap
  <2>1. PageCall(bar + i) \in Made /\ i + 1 \in 0 .. WinPages
    BY <1>2, BarAssumption DEF UsbMap, Made, CallOK, TypeOK
  <2>2. PageCall(bar + i).virt % Span(PageCall(bar + i).leaf) = 0
    <3>1. PageCall(bar + i).virt \in Nat
      BY <2>1, MadeSound DEF Space
    <3>2. Span(PageCall(bar + i).leaf) = 1
      BY Spans DEF PageCall
    <3> QED BY <3>1, <3>2, DivMod
  <2> QED BY <1>2, <2>1, <2>2, StartsCall DEF UsbMap
<1>3. CASE \E c \in Calls : Begin(c)
  <2>1. PICK c \in Calls : Begin(c)
    BY <1>3
  <2>2. c \in Made
    BY DEF Made
  <2>3. pc' = "walk" => c.virt % Span(c.leaf) = 0
    BY <2>1 DEF Begin
  <2> QED BY <2>1, <2>2, <2>3, StartsCall DEF Begin, TypeOK
<1>4. CASE Descend
  <2>1. /\ mem \in Memory /\ call.virt \in Space /\ level \in 1 .. 4 /\ At(mem, call.virt, table, level)
        /\ Here = mem[table][Index(call.virt, level)] /\ pc = "walk" /\ Has(Here, "P")
        /\ level > call.leaf /\ call.leaf \in 1 .. 3
        /\ mem' = mem /\ free' = free /\ call' = call /\ new' = new /\ bar' = bar /\ i' = i /\ refused' = refused
        /\ Tree(mem, free, lev, num)
    BY <1>4, AtWork DEF Descend, tree
  <2>2. CASE Has(Here, "PS")
    <3>1. pc' = "idle" /\ level' = level /\ table' = table
      BY <1>4, <2>2 DEF Descend, Return
    <3> QED BY <2>1, <3>1 DEF TypeOK, CallOK, TreeAt, InCall
  <2>3. CASE ~Has(Here, "PS")
    <3>1. pc' = pc /\ level' = level - 1 /\ table' = Here.addr
      BY <1>4, <2>3 DEF Descend
    <3>2. At(mem, call.virt, Here.addr, level - 1)
      <4>1. level >= 2 /\ Leads(Here)
        BY <2>1, <2>3 DEF Leads
      <4> QED BY <2>1, <4>1, WayEnds
    <3>3. Here.addr \in Frames
      <4>1. level - 1 \in 1 .. 4
        BY <2>1
      <4> QED BY <2>1, <3>2, <4>1, WayTables
    <3>4. TypeOK'
      BY <2>1, <3>1, <3>3 DEF TypeOK
    <3>5. At(mem, call.virt, table, level)'
      BY <2>1, <3>1, <3>2
    <3>6. InCall(lev)'
      BY <2>1, <3>1, <3>5 DEF InCall, TreeAt
    <3> QED BY <2>1, <3>4, <3>6 DEF CallOK, TreeAt
  <2> QED BY <2>2, <2>3
<1>5. CASE Allocate
  <2>1. /\ pc = "walk" /\ level > call.leaf /\ ~Has(Here, "P")
        /\ mem' = mem /\ tlb' = tlb /\ call' = call /\ level' = level /\ table' = table
        /\ bar' = bar /\ i' = i /\ Tree(mem, free, lev, num)
        /\ At(mem, call.virt, table, level) /\ call.virt % Span(call.leaf) = 0
    BY <1>5 DEF Allocate, TreeAt, InCall
  <2>2. CASE \E f \in free : new' = f /\ free' = free \ {f} /\ pc' = "clear" /\ refused' = refused
    <3>1. new' \in free /\ free' = free \ {new'} /\ pc' = "clear" /\ refused' = refused
      BY <2>2
    <3>2. lev[new'] = 0 /\ Tree(mem', free', lev, num)
      BY <2>1, <3>1 DEF Tree
    <3>3. TypeOK' /\ CallOK'
      BY <2>1, <3>1 DEF TypeOK, CallOK
    <3>4. Here' = Here
      BY <2>1 DEF Here
    <3>5. At(mem, call.virt, table, level)'
      BY <2>1
    <3>6. InCall(lev)'
      BY <2>1, <3>1, <3>2, <3>4, <3>5 DEF InCall
    <3> QED BY <3>2, <3>3, <3>6 DEF TreeAt
  <2>3. CASE pc' = "idle" /\ refused' = TRUE /\ free' = free /\ new' = new
    BY <2>1, <2>3 DEF TypeOK, CallOK, TreeAt, InCall
  <2> QED BY <1>5, <2>2, <2>3 DEF Allocate, Return
<1>6. CASE ClearTable
  <2>1. /\ mem \in Memory /\ Tree(mem, free, lev, num) /\ call.virt \in Space /\ level \in 1 .. 4
        /\ At(mem, call.virt, table, level) /\ table \in Frames /\ lev[table] = level
        /\ pc = "clear" /\ mem' = [mem EXCEPT ![new] = [k \in Slots |-> Empty]] /\ pc' = "link"
        /\ free' = free /\ call' = call /\ level' = level /\ table' = table /\ new' = new
        /\ bar' = bar /\ i' = i /\ refused' = refused
    BY <1>6, AtWork DEF ClearTable
  <2>2. /\ lev[new] = 0 /\ new \notin free /\ level > call.leaf /\ ~Has(Here, "P") /\ new \in Frames
        /\ call.virt % Span(call.leaf) = 0
    BY <2>1 DEF TreeAt, InCall, TypeOK
  <2>3. Tree(mem', free', lev, num)
    BY <2>1, <2>2, TreeCleared
  <2>4. TypeOK' /\ CallOK'
    <3>1. Empty \in Entries
      BY DEF Empty, Entry, Entries
    <3>2. mem' \in Memory
      BY <2>1, <3>1 DEF Memory
    <3> QED BY <2>1, <3>2 DEF TypeOK, CallOK, Memory, Entries, Flags
  <2>5. \A u, l : l \in 1 .. 4 /\ At(mem, call.virt, u, l) => mem'[u] = mem[u]
    <3> SUFFICES ASSUME NEW u, NEW l \in 1 .. 4, At(mem, call.virt, u, l)
                 PROVE  mem'[u] = mem[u]
      OBVIOUS
    <3>1. u \in Frames /\ lev[u] = l
      BY <2>1, WayTables
    <3> QED BY <3>1, <2>1, <2>2 DEF Memory
  <2>6. At(mem', call.virt, table, level)
    BY <2>1, <2>5, WayKept
  <2>7. Here' = Here
    <3>1. table # new
      BY <2>1, <2>2
    <3> QED BY <3>1, <2>1 DEF Here, Memory
  <2>8. \A k \in Slots : mem'[new][k] = Empty
    BY <2>1, <2>2 DEF Memory
  <2>9. InCall(lev)'
    BY <2>1, <2>2, <2>6, <2>7, <2>8 DEF InCall
  <2> QED BY <2>3, <2>4, <2>9 DEF TreeAt
<1>7. CASE WriteLeaf
  <2> DEFINE e == new_entry(call)
  <2>1. /\ mem \in Memory /\ Tree(mem, free, lev, num) /\ table \in Frames /\ lev[table] = level
        /\ Index(call.virt, level) \in Slots /\ pc = "walk" /\ level = call.leaf
        /\ mem' = [mem EXCEPT ![table][Index(call.virt, level)] = e]
        /\ pc' \in {"flush", "idle"}
        /\ free' = free /\ call' = call /\ level' = level /\ table' = table /\ new' = new
        /\ bar' = bar /\ i' = i /\ refused' = refused
    BY <1>7, AtWork DEF WriteLeaf, AfterWrite
  <2>2. call.phys \in Nat /\ call.leaf \in 1 .. 3 /\ call.flags \subseteq {"P", "W", "PS", "PCD"}
    BY MadeSound DEF CallOK
  <2>3. e \in Entries /\ ~Has(e, "U") /\ (call.leaf >= 2 => Has(e, "PS"))
    BY <2>2 DEF new_entry, Entry, Entries, Flags, Has
  <2> HIDE DEF e
  <2>4. Tree(mem', free', lev, num)
    <3>1. lev[table] <= 3 /\ (lev[table] >= 2 => Has(e, "PS"))
      BY <2>1, <2>2, <2>3
    <3>2. Tree([mem EXCEPT ![table][Index(call.virt, level)] = e], free, lev, num)
      BY <2>1, <2>3, <3>1, TreeWritten
    <3> QED BY <2>1, <3>2
  <2>5. TypeOK' /\ CallOK'
    <3>1. mem' \in Memory
      BY <2>1, <2>3 DEF Memory
    <3> QED BY <2>1, <3>1 DEF TypeOK, CallOK, Memory, Entries, Flags
  <2>6. InCall(lev)'
    BY <2>1 DEF InCall
  <2> QED BY <2>4, <2>5, <2>6 DEF TreeAt
<1>8. CASE vmm_flush
  BY <1>8 DEF vmm_flush, Return, TypeOK, CallOK, TreeAt, InCall
<1>9. CASE (\E v \in Watched : Access(v)) \/ UNCHANGED vars
  <2>1. mem' = mem /\ free' = free /\ pc' = pc /\ call' = call /\ level' = level /\ table' = table
        /\ new' = new /\ bar' = bar /\ i' = i /\ refused' = refused
    BY <1>9 DEF Access, walk, vars, tree
  <2>2. TypeOK' /\ CallOK'
    BY <2>1 DEF TypeOK, CallOK
  <2>3. Tree(mem', free', lev, num) /\ Here' = Here
    BY <2>1 DEF TreeAt, Here
  <2>4. At(mem, call.virt, table, level)' <=> At(mem, call.virt, table, level)
    BY <2>1
  <2>5. InCall(lev)'
    BY <2>1, <2>3, <2>4 DEF TreeAt, InCall
  <2> QED BY <2>2, <2>3, <2>5 DEF TreeAt
<1> QED
  BY <1>1, <1>2, <1>3, <1>4, <1>5, <1>6, <1>7, <1>8, <1>9 DEF Next, Step

\* Ring 3 reaches only the gigabytes that bootmain.s opened.
LEMMA UserOnlyWhereOpened ==
    ASSUME NEW m \in Memory, NEW fr, NEW lev, NEW num, Tree(m, fr, lev, num), NEW v \in Space,
           Value(m, v).user
    PROVE  v < UserGb * Fan * Fan
<1>1. \A l \in 1 .. 4 : Index(v, l) \in Slots
  BY IndexInTable DEF Space
<1>2. ~Fault.user
  BY DEF Fault
\* The entry at which the way to the page ends is open to ring 3.
<1>3. ASSUME NEW t, NEW l \in 1 .. 4, At(m, v, t, l), ~Leads(m[t][Index(v, l)]) \/ l = 1
      PROVE  v < UserGb * Fan * Fan
  <2> DEFINE e == m[t][Index(v, l)]
  <2>1. t \in Frames /\ lev[t] = l /\ num[t] = Up(v, l)
    BY <1>3, WayTables
  <2>2. Has(e, "P")
    <3>1. ~Has(e, "P") => Value(m, v) = Fault
      BY <1>3, WayEnds
    <3> QED BY <3>1, <1>2
  <2>3. l <= 3
    <3>1. l = 4 => ~Has(e, "PS")
      BY <1>1, <2>1 DEF Tree, Confined
    <3> QED BY <3>1, <2>2, <1>3 DEF Leads
  <2>4. l = 1 \/ Has(e, "PS")
    BY <1>3, <2>2 DEF Leads
  <2>5. Gives(Value(m, v), e, v, l)
    BY <1>3, <2>2, <2>3, <2>4, WayEnds
  <2>6. Has(e, "U")
    BY <2>5 DEF Gives
  <2>7. l = 2 /\ num[t] < UserGb
    BY <1>1, <2>1, <2>3, <2>4, <2>6 DEF Tree, Confined
  <2>8. v \div Span(3) < UserGb
    BY <2>1, <2>7 DEF Up
  <2> DEFINE s == Span(3)
             q == v \div s
  <2>9. s \in Nat /\ s >= 1 /\ s = Fan * Fan /\ v \in Nat /\ Fan \in Nat /\ UserGb \in Nat
    BY Spans, ZoneAssumption, FanAssumption DEF Space
  <2>10. q \in Nat /\ v = q * s + (v % s) /\ v % s < s /\ v % s \in Nat
    BY <2>9, DivMod
  <2> HIDE DEF s, q
  <2>11. q + 1 <= UserGb
    BY <2>8, <2>9, <2>10 DEF q, s
  <2>12. (q + 1) * s <= UserGb * s
    BY <2>9, <2>10, <2>11, Z3
  <2>13. (q + 1) * s = q * s + s
    BY <2>9, <2>10, Z3
  <2>14. v < UserGb * s
    <3> DEFINE a == q * s
               b == UserGb * s
               x == v % s
    <3>1. a \in Nat /\ b \in Nat
      BY <2>9, <2>10
    <3>2. v = a + x /\ x < s /\ a + s <= b /\ x \in Nat
      BY <2>10, <2>12, <2>13
    <3> HIDE DEF a, b, x
    <3>3. v < b
      BY <3>1, <3>2, <2>9
    <3> QED BY <3>3 DEF b
  <2>15. UserGb * s = UserGb * Fan * Fan
    BY <2>9
  <2> QED BY <2>14, <2>15
<1>4. At(m, v, pml4, 4) /\ E4(m, v) = m[pml4][Index(v, 4)]
  BY DEF At, E4
<1>5. CASE ~Leads(E4(m, v))
  BY <1>3, <1>4, <1>5
<1>6. CASE Leads(E4(m, v)) /\ ~Leads(E3(m, v))
  BY <1>3, <1>6 DEF At, E3
<1>7. CASE Leads(E4(m, v)) /\ Leads(E3(m, v)) /\ ~Leads(E2(m, v))
  BY <1>3, <1>7 DEF At, E2
<1>8. CASE Leads(E4(m, v)) /\ Leads(E3(m, v)) /\ Leads(E2(m, v))
  BY <1>3, <1>8 DEF At
<1> QED BY <1>5, <1>6, <1>7, <1>8

\* What the tree says about the properties.
LEMMA TreeSound ==
    ASSUME TreeInv
    PROVE  TablesSound
<1>1. PICK lev, num : TreeAt(lev, num)
  BY DEF TreeInv
<1>2. mem \in Memory /\ Tree(mem, free, lev, num)
  BY <1>1 DEF TreeInv, TypeOK, Memory, Entries, Flags, TreeAt
<1>3. lev \in [Frames -> 0 .. 4] /\ lev[pml4] = 4 /\ (\A f \in free : lev[f] = 0) /\ pml4 \in Frames
  BY <1>2, BootEntries DEF Tree
<1> DEFINE Link(x) == x \in Frames \X Slots /\ lev[x[1]] >= 2 /\ Leads(mem[x[1]][x[2]])
<1>4. ASSUME NEW x, Link(x)
      PROVE  Target(x) \in Frames /\ lev[Target(x)] = lev[x[1]] - 1 /\ lev[x[1]] \in 2 .. 4
  BY <1>2, <1>3, <1>4 DEF Tree, Linked, Target
<1>5. ASSUME NEW x, NEW y, Link(x), Link(y), Target(x) = Target(y)
      PROVE  x = y
  <2>1. x[1] = y[1] /\ x[2] = y[2]
    BY <1>2, <1>5 DEF Tree, Linked, Target
  <2> QED BY <1>5, <2>1
<1> DEFINE l4 == Below({pml4})
           l3 == Below({Target(x) : x \in l4})
           l2 == Below({Target(x) : x \in l3})
<1>6. ASSUME NEW T, NEW l \in 2 .. 4, \A t \in T : t \in Frames /\ lev[t] = l
      PROVE  \A x \in Below(T) : Link(x) /\ lev[x[1]] = l
  BY <1>6 DEF Below, Leads
<1>7. \A x \in l4 : Link(x) /\ lev[x[1]] = 4
  BY <1>3, <1>6
<1>8. \A x \in l3 : Link(x) /\ lev[x[1]] = 3
  <2>1. \A t \in {Target(x) : x \in l4} : t \in Frames /\ lev[t] = 3
    BY <1>4, <1>7
  <2> HIDE DEF Link, l4
  <2> QED BY <2>1, <1>6
<1>9. \A x \in l2 : Link(x) /\ lev[x[1]] = 2
  <2>1. \A t \in {Target(x) : x \in l3} : t \in Frames /\ lev[t] = 2
    <3> HIDE DEF Link, l3
    <3>1. \A x \in l3 : Target(x) \in Frames /\ lev[Target(x)] = 2
      BY <1>4, <1>8
    <3> QED BY <3>1
  <2> HIDE DEF Link, l3
  <2> QED BY <2>1, <1>6
<1>10. TablesTree
  <2>1. \A x \in l4 \cup l3 \cup l2 : Link(x)
    BY <1>7, <1>8, <1>9
  <2> HIDE DEF Link, l4, l3, l2
  <2>2. \A x \in l4 \cup l3 \cup l2 : Target(x) \in Frames \ (free \cup {pml4})
    BY <2>1, <1>3, <1>4
  <2>3. \A x, y \in l4 \cup l3 \cup l2 : Target(x) = Target(y) => x = y
    BY <2>1, <1>5
  <2> QED BY <2>2, <2>3 DEF TablesTree, l4, l3, l2
<1>11. UserConfined
  <2> SUFFICES ASSUME NEW v \in Pages, Translate(v).user
               PROVE  v < UserGb * Fan * Fan
    BY DEF UserConfined
  <2>1. v \in Space
    BY PagesAssumption DEF Space
  <2>2. Value(mem, v).user
    BY TranslateIs
  <2> QED BY <1>2, <2>1, <2>2, UserOnlyWhereOpened
<1> QED BY <1>10, <1>11 DEF TablesSound, TreeInv

\* The tree is there in every state.
LEMMA TreeAlways == Spec => []TreeInv
<1>1. Init => TreeInv
  BY InitTree DEF TreeInv
<1>2. TreeInv /\ [Next]_vars => TreeInv'
  <2> SUFFICES ASSUME TreeInv, [Next]_vars
               PROVE  TreeInv'
    OBVIOUS
  <2>1. PICK lev, num : TreeAt(lev, num)
    BY DEF TreeInv
  <2>2. TypeOK' /\ CallOK' /\ \E lev2, num2 : TreeAt(lev2, num2)'
    BY <2>1, StepTree DEF TreeInv
  <2> QED BY <2>2 DEF TreeInv
<1> QED BY <1>1, <1>2, PTL DEF Spec

\* vmm_next_table links only frames that are its own, empty and one level
\* below: the tables are always a tree, none of them is memory that
\* pmm_alloc_page may hand out, and ring 3 reaches no page above UserGb.
THEOREM TablesAlwaysSound == Spec => []TablesSound
BY TreeAlways, TreeSound, PTL

--------------------------------------------------------------------------------
(* What a step changes for the processor *)

\* The pages that the entry of the call under way spans.
Spanned(v) == v \div Span(call.leaf) = call.virt \div Span(call.leaf)

\* A write to one entry of a table on the way of the call changes what the
\* processor finds for no page but those that the entry spans.
LEMMA OthersKeep ==
    ASSUME TypeOK, CallOK, NEW lev, NEW num, TreeAt(lev, num), pc \in {"walk", "link"},
           NEW e, NEW n, NEW v \in Space,
           \A u \in Frames, j \in Slots :
               n[u][j] = IF u = table /\ j = Index(call.virt, level) THEN e ELSE mem[u][j]
    PROVE  /\ v \div Span(level) # call.virt \div Span(level) => Value(n, v) = Value(mem, v)
           /\ v \div Span(level) = call.virt \div Span(level) =>
                 /\ At(mem, v, table, level) /\ Index(v, level) = Index(call.virt, level)
                 /\ At(n, v, table, level) /\ n[table][Index(v, level)] = e
<1>1. /\ mem \in Memory /\ Tree(mem, free, lev, num)
      /\ call.virt \in Space /\ level \in 1 .. 4 /\ At(mem, call.virt, table, level)
      /\ table \in Frames /\ lev[table] = level /\ Index(call.virt, level) \in Slots
  BY AtWork
<1>2. \A u, k : k \in 1 .. 4 /\ At(mem, v, u, k) => u \in Frames /\ lev[u] = k /\ Index(v, k) \in Slots
  BY <1>1, WayTables, IndexInTable DEF Space
<1>3. At(mem, v, table, level) /\ Index(v, level) = Index(call.virt, level)
      <=> v \div Span(level) = call.virt \div Span(level)
  BY <1>1, SameEntry
<1>4. ASSUME v \div Span(level) # call.virt \div Span(level)
      PROVE  Value(n, v) = Value(mem, v)
  <2>1. ASSUME NEW u, NEW k \in 1 .. 4, At(mem, v, u, k)
        PROVE  n[u][Index(v, k)] = mem[u][Index(v, k)]
    <3>1. u \in Frames /\ lev[u] = k /\ Index(v, k) \in Slots
      BY <1>2, <2>1
    <3>2. u # table \/ Index(v, k) # Index(call.virt, level)
      <4>1. u = table => k = level /\ At(mem, v, table, level)
        BY <3>1, <2>1, <1>1
      <4> QED BY <4>1, <1>3, <1>4
    <3> QED BY <3>1, <3>2
  <2>2. ~Has(E4(mem, v), "PS")
    BY <1>1, WayGoesOn
  <2>3. \A u, k : k \in 1 .. 4 /\ At(mem, v, u, k) => n[u][Index(v, k)] = mem[u][Index(v, k)]
    BY <2>1
  <2> QED BY <2>2, <2>3, Untouched
<1>5. ASSUME v \div Span(level) = call.virt \div Span(level)
      PROVE  /\ At(mem, v, table, level) /\ Index(v, level) = Index(call.virt, level)
             /\ At(n, v, table, level) /\ n[table][Index(v, level)] = e
  <2>1. At(mem, v, table, level) /\ Index(v, level) = Index(call.virt, level)
    BY <1>3, <1>5
  <2>2. ASSUME NEW u, NEW k \in 1 .. 4, k > level, At(mem, v, u, k)
        PROVE  n[u][Index(v, k)] = mem[u][Index(v, k)]
    <3>1. u \in Frames /\ u # table /\ Index(v, k) \in Slots
      BY <1>1, <1>2, <2>2
    <3> QED BY <3>1
  <2>3. At(n, v, table, level)
    <3>1. \A u, k : k \in 1 .. 4 /\ k > level /\ At(mem, v, u, k)
                  => n[u][Index(v, k)] = mem[u][Index(v, k)]
      BY <2>2
    <3> QED BY <1>1, <2>1, <3>1, WayKept
  <2>4. n[table][Index(v, level)] = e
    BY <1>1, <2>1
  <2> QED BY <2>1, <2>3, <2>4
<1> QED BY <1>4, <1>5

\* The last write of a call maps the pages of the call and no other.
LEMMA WriteMaps ==
    ASSUME TypeOK, CallOK, NEW lev, NEW num, TreeAt(lev, num), WriteLeaf, NEW v \in Space
    PROVE  /\ ~Spanned(v) => Value(mem', v) = Value(mem, v)
           /\ Spanned(v) => Gives(Value(mem', v), new_entry(call), v, call.leaf)
<1> DEFINE e == new_entry(call)
<1>1. pc = "walk" /\ level = call.leaf /\ mem' = [mem EXCEPT ![table][Index(call.virt, level)] = e]
  BY DEF WriteLeaf
<1>6. \A u \in Frames, j \in Slots :
          mem'[u][j] = IF u = table /\ j = Index(call.virt, level) THEN e ELSE mem[u][j]
  <2>1. mem \in Memory /\ table \in Frames /\ Index(call.virt, level) \in Slots
    BY <1>1, AtWork
  <2> HIDE DEF e
  <2> QED BY <1>1, <2>1 DEF Memory
<1>2. call.leaf \in 1 .. 3
  BY MadeSound DEF CallOK
<1>3. Has(e, "P") /\ (call.leaf >= 2 => Has(e, "PS"))
  BY <1>2 DEF new_entry, Entry, Has
<1> HIDE DEF e
<1>7. pc \in {"walk", "link"} /\ level = call.leaf
  BY <1>1
<1>8. /\ v \div Span(level) # call.virt \div Span(level) => Value(mem', v) = Value(mem, v)
      /\ v \div Span(level) = call.virt \div Span(level) =>
            At(mem', v, table, level) /\ mem'[table][Index(v, level)] = e
  BY <1>6, <1>7, OthersKeep
<1>4. ~Spanned(v) => Value(mem', v) = Value(mem, v)
  BY <1>7, <1>8 DEF Spanned
<1>5. ASSUME Spanned(v)
      PROVE  Gives(Value(mem', v), e, v, call.leaf)
  <2>1. At(mem', v, table, call.leaf) /\ e = mem'[table][Index(v, call.leaf)] /\ call.leaf \in 1 .. 4
    BY <1>2, <1>5, <1>7, <1>8 DEF Spanned
  <2> QED BY <1>2, <1>3, <2>1, WayEnds
<1> QED BY <1>4, <1>5 DEF e

\* No other step changes what the processor finds.
LEMMA OnlyWriteMaps ==
    ASSUME TypeOK, CallOK, NEW lev, NEW num, TreeAt(lev, num), [Next]_vars, ~WriteLeaf, NEW v \in Space
    PROVE  Value(mem', v) = Value(mem, v)
<1>1. mem \in Memory /\ Tree(mem, free, lev, num)
  BY DEF TypeOK, Memory, Entries, Flags, TreeAt
<1>2. CASE mem' = mem
  BY <1>2
<1>3. CASE ClearTable
  <2>1. mem' = [mem EXCEPT ![new] = [k \in Slots |-> Empty]] /\ lev[new] = 0
    BY <1>3 DEF ClearTable, TreeAt, InCall
  <2>2. ASSUME NEW u, NEW k \in 1 .. 4, At(mem, v, u, k)
        PROVE  mem'[u][Index(v, k)] = mem[u][Index(v, k)]
    <3>1. u \in Frames /\ lev[u] = k
      BY <1>1, <2>2, WayTables
    <3> QED BY <3>1, <2>1, <1>1 DEF Memory
  <2>3. ~Has(E4(mem, v), "PS")
    BY <1>1, WayGoesOn
  <2> QED BY <2>2, <2>3, Untouched
<1>4. CASE LinkTable
  <2> DEFINE e == Entry(new, TableFlags)
  <2>1. pc = "link" /\ mem' = [mem EXCEPT ![table][Index(call.virt, level)] = e]
    BY <1>4 DEF LinkTable
  <2>2. /\ level \in 1 .. 4 /\ call.leaf \in 1 .. 3 /\ lev[table] = level /\ table \in Frames
        /\ Here = mem[table][Index(call.virt, level)]
    BY <2>1, AtWork
  <2>3. /\ lev[new] = 0 /\ level > call.leaf /\ ~Has(Here, "P") /\ new \in Frames
        /\ \A k \in Slots : mem[new][k] = Empty
    BY <2>1 DEF TreeAt, InCall, TypeOK
  <2>4. Leads(e) /\ e.addr = new
    BY DEF Leads, Has, Entry, TableFlags
  <2> HIDE DEF e
  <2>7. \A u \in Frames, j \in Slots :
            mem'[u][j] = IF u = table /\ j = Index(call.virt, level) THEN e ELSE mem[u][j]
    <3>1. Index(call.virt, level) \in Slots
      BY <2>1, AtWork
    <3> QED BY <1>1, <2>1, <2>2, <3>1 DEF Memory
  <2>8. pc \in {"walk", "link"}
    BY <2>1
  <2>9. /\ v \div Span(level) # call.virt \div Span(level) => Value(mem', v) = Value(mem, v)
        /\ v \div Span(level) = call.virt \div Span(level) =>
              /\ At(mem, v, table, level) /\ Index(v, level) = Index(call.virt, level)
              /\ At(mem', v, table, level) /\ mem'[table][Index(v, level)] = e
    BY <2>7, <2>8, OthersKeep
  <2>5. CASE v \div Span(level) # call.virt \div Span(level)
    BY <2>5, <2>9
  <2>6. CASE v \div Span(level) = call.virt \div Span(level)
    <3>1. /\ At(mem, v, table, level) /\ Index(v, level) = Index(call.virt, level)
          /\ At(mem', v, table, level) /\ mem'[table][Index(v, level)] = e
      BY <2>6, <2>9
    <3>2. Value(mem, v) = Fault
      BY <2>2, <2>3, <3>1, WayEnds
    <3>3. level >= 2 /\ level - 1 \in 1 .. 4
      BY <2>2, <2>3
    <3>4. At(mem', v, new, level - 1)
      BY <2>2, <2>4, <3>1, <3>3, WayEnds
    <3>5. mem'[new][Index(v, level - 1)] = Empty
      <4>1. Index(v, level - 1) \in Slots
        BY <3>3, IndexInTable DEF Space
      <4>2. new # table
        BY <2>2, <2>3, <3>3
      <4> QED BY <4>1, <4>2, <2>1, <2>3, <1>1 DEF Memory
    <3>6. ~Has(Empty, "P")
      BY DEF Empty, Entry, Has
    <3>7. Value(mem', v) = Fault
      BY <3>3, <3>4, <3>5, <3>6, WayEnds
    <3> QED BY <3>2, <3>7
  <2> QED BY <2>5, <2>6
<1>5. mem' = mem \/ ClearTable \/ LinkTable
  BY DEF Next, Step, UsbMap, Descend, Allocate, vmm_flush, Begin, Access, Start, vars, tree
<1> QED BY <1>2, <1>3, <1>4, <1>5

--------------------------------------------------------------------------------
(* The tables implement an address space *)

\* The address space that the tables are.
Map == [v \in Pages |-> [frame |-> Translate(v).frame, uncached |-> Translate(v).uncached]]

\* What the processor finds is an entry's frame, or nothing.
LEMMA ValueType ==
    ASSUME NEW m \in Memory, NEW fr, NEW lev, NEW num, Tree(m, fr, lev, num), NEW v \in Space
    PROVE  Value(m, v).frame \in Nat \cup {-1} /\ Value(m, v).uncached \in BOOLEAN
<1>1. Fault.frame = -1 /\ Fault.uncached = FALSE
  BY DEF Fault
<1>2. ASSUME NEW t, NEW l \in 1 .. 4, At(m, v, t, l), ~Leads(m[t][Index(v, l)]) \/ l = 1
      PROVE  Value(m, v).frame \in Nat \cup {-1} /\ Value(m, v).uncached \in BOOLEAN
  <2> DEFINE e == m[t][Index(v, l)]
  <2>1. t \in Frames /\ lev[t] = l /\ Index(v, l) \in Slots
    BY <1>2, WayTables, IndexInTable DEF Space
  <2>2. e \in Entries /\ (l = 4 => ~Has(e, "PS"))
    BY <2>1 DEF Memory, Tree, Confined
  <2>3. CASE ~Has(e, "P")
    BY <1>1, <1>2, <2>3, WayEnds
  <2>4. CASE Has(e, "P")
    <3>1. l <= 3 /\ (l = 1 \/ Has(e, "PS"))
      BY <1>2, <2>2, <2>4 DEF Leads
    <3>2. Gives(Value(m, v), e, v, l)
      BY <1>2, <2>4, <3>1, WayEnds
    <3>3. e.addr \in Nat /\ Has(e, "PCD") \in BOOLEAN
      BY <2>2 DEF Entries, Has
    <3>4. v % Span(l) \in Nat
      <4>1. v \in Nat /\ Span(l) \in Nat /\ Span(l) >= 1
        BY Spans DEF Space
      <4> QED BY <4>1, DivMod
    <3> HIDE DEF e
    <3>5. e.addr + (v % Span(l)) \in Nat
      BY <3>3, <3>4
    <3> QED BY <3>2, <3>3, <3>5 DEF Gives
  <2> QED BY <2>3, <2>4
<1>3. At(m, v, pml4, 4) /\ E4(m, v) = m[pml4][Index(v, 4)]
  BY DEF At, E4
<1>4. CASE ~Leads(E4(m, v))
  BY <1>2, <1>3, <1>4
<1>5. CASE Leads(E4(m, v)) /\ ~Leads(E3(m, v))
  BY <1>2, <1>5 DEF At, E3
<1>6. CASE Leads(E4(m, v)) /\ Leads(E3(m, v)) /\ ~Leads(E2(m, v))
  BY <1>2, <1>6 DEF At, E2
<1>7. CASE Leads(E4(m, v)) /\ Leads(E3(m, v)) /\ Leads(E2(m, v))
  BY <1>2, <1>7 DEF At
<1> QED BY <1>4, <1>5, <1>6, <1>7

\* A step of the tables is one of the address space, or none.
LEMMA StepMaps ==
    ASSUME TreeInv, [Next]_vars
    PROVE  Map' = Map \/ \E r \in Requests : AS!Install(r)
<1>1. PICK lev, num : TreeAt(lev, num)
  BY DEF TreeInv
<1>2. TypeOK /\ CallOK
  BY DEF TreeInv
<1>3. \A v \in Pages : v \in Space /\ v \in Nat
  BY PagesAssumption DEF Space
<1>4. CASE ~WriteLeaf
  <2>1. \A v \in Pages : Translate(v)' = Translate(v)
    BY <1>1, <1>2, <1>3, <1>4, OnlyWriteMaps, TranslateIs
  <2> QED BY <2>1 DEF Map
<1>5. CASE WriteLeaf
  <2> DEFINE r == [virt |-> call.virt, phys |-> call.phys, span |-> Span(call.leaf),
                   uncached |-> "PCD" \in call.flags]
  <2>1. r \in Requests
    BY <1>2 DEF Requests, CallOK, Made
  <2>2. /\ call.leaf \in 1 .. 3 /\ call.virt \in Space /\ call.virt \in Nat /\ call.phys \in Nat
        /\ call.flags \subseteq {"P", "W", "PS", "PCD"}
    BY <1>2, MadeSound DEF CallOK, Space
  <2>3. call.virt % Span(call.leaf) = 0
    BY <1>1, <1>5 DEF WriteLeaf, TreeAt, InCall
  <2>4. Span(call.leaf) \in Nat /\ Span(call.leaf) >= 1
    BY <2>2, Spans
  <2>5. ASSUME NEW v \in Pages
        PROVE  /\ AS!Covers(r, v) <=> Spanned(v)
               /\ Spanned(v) => v % Span(call.leaf) = v - call.virt
    BY <1>3, <2>2, <2>3, <2>4, Aligned DEF AS!Covers, Spanned
  <2>6. ASSUME NEW v \in Pages, AS!Covers(r, v)
        PROVE  Map'[v] = AS!Target(r, v)
    <3>1. Spanned(v) /\ v % Span(call.leaf) = v - call.virt
      BY <2>5, <2>6
    <3>2. Gives(Value(mem', v), new_entry(call), v, call.leaf)
      BY <1>1, <1>2, <1>3, <1>5, <3>1, WriteMaps
    <3>3. new_entry(call).addr = call.phys /\ (Has(new_entry(call), "PCD") <=> "PCD" \in call.flags)
      BY <2>2 DEF new_entry, Entry, Has
    <3>4. Has(new_entry(call), "PCD") = ("PCD" \in call.flags)
      BY <3>3 DEF Has
    <3>5. Value(mem', v).frame = call.phys + (v - call.virt)
          /\ Value(mem', v).uncached = ("PCD" \in call.flags)
      BY <3>1, <3>2, <3>3, <3>4 DEF Gives
    <3>6. Map'[v] = [frame |-> Value(mem', v).frame, uncached |-> Value(mem', v).uncached]
      BY TranslateIs DEF Map
    <3> QED BY <3>5, <3>6 DEF AS!Target
  <2>7. ASSUME NEW v \in Pages, ~AS!Covers(r, v)
        PROVE  Map'[v] = Map[v]
    <3>1. ~Spanned(v)
      BY <2>5, <2>7
    <3>2. Value(mem', v) = Value(mem, v)
      BY <1>1, <1>2, <1>3, <1>5, <3>1, WriteMaps
    <3> QED BY <3>2, TranslateIs DEF Map
  <2>8. AS!Install(r)
    BY <2>6, <2>7 DEF AS!Install, Map
  <2> QED BY <2>1, <2>8
<1> QED BY <1>4, <1>5

\* A table is filled in before it is linked: for the processor, which may walk
\* between any two writes, a call of vmm_map_page or of its huge variants maps
\* all of its pages in one step and changes no other page.
THEOREM Refinement == Spec => RefinesAddressSpace
<1>1. Init => Map \in [Pages -> [frame : Nat \cup {-1}, uncached : BOOLEAN]]
  <2> SUFFICES ASSUME Init, NEW v \in Pages
               PROVE  /\ Translate(v).frame \in Nat \cup {-1}
                      /\ Translate(v).uncached \in BOOLEAN
    BY DEF Map
  <2>1. v \in Space
    BY PagesAssumption DEF Space
  <2>2. mem \in Memory /\ Tree(mem, free, BootLev, BootNum)
    BY InitTree, BootMemoryType DEF TreeAt
  <2> QED BY <2>1, <2>2, ValueType, TranslateIs
<1>2. TreeInv /\ [Next]_vars => [\E r \in Requests : AS!Install(r)]_Map
  BY StepMaps
<1> QED BY TreeAlways, <1>1, <1>2, PTL DEF Spec, RefinesAddressSpace, AS!Spec, Map

--------------------------------------------------------------------------------
(* A mapping that has returned is in effect *)

\* Every call after usb_init maps one small page, and none repeats the last of
\* usb_init, by which WindowMapped tells that usb_init has just ended.
SmallCalls == \A c \in Calls : c.leaf = 1 /\ \A b \in Bars : c # PageCall(b + WinPages - 1)

\* The processor holds what the tables say, but for the page of a call that has
\* still to flush.
TlbInv ==
    /\ tlb = [v \in Watched |-> tlb[v]]
    /\ \A v \in Watched : tlb[v] # NotCached =>
          tlb[v] = Translate(v) \/ (pc = "flush" /\ v = call.virt)

\* usb_init has still to map a page, or was the last to map one.
Driving == i < WinPages \/ call = PageCall(bar + WinPages - 1)

InEffect(p) == Value(mem, p).frame = p /\ Value(mem, p).uncached

\* Until usb_init ends, the only huge pages are those of bootmain.s; the pages
\* of the registers before that of the call under way are mapped.
WindowAt(lev, num) ==
    Driving /\ ~refused =>
        /\ i = 0 => pc = "idle"
        /\ i >= 1 => call = PageCall(bar + i - 1)
        /\ \A t \in Frames, k \in Slots :
              /\ lev[t] = 3 => ~Has(mem[t][k], "PS")
              /\ lev[t] = 2 /\ Has(mem[t][k], "PS") =>
                    /\ mem[t][k].addr = (num[t] * Fan + k) * Fan
                    /\ num[t] >= MmioGb => Has(mem[t][k], "PCD")
        /\ \A p \in bar .. bar + i - 1 :
              p < bar + i - 1 \/ pc \in {"idle", "flush"} => InEffect(p)

EffectInv ==
    /\ TypeOK /\ CallOK /\ TlbInv
    /\ \E lev, num : TreeAt(lev, num) /\ WindowAt(lev, num)

\* Dividing by one.
LEMMA SpannedSmall ==
    ASSUME CallOK, SmallCalls, NEW v \in Space
    PROVE  call.leaf = 1 /\ (Spanned(v) <=> v = call.virt)
<1>1. call.leaf = 1
  BY DEF CallOK, Made, SmallCalls, PageCall
<1>2. call.virt \in Nat /\ v \in Nat
  BY MadeSound DEF CallOK, Space
<1>3. \A n \in Nat : n \div 1 = n
  BY Z3
<1> QED BY <1>1, <1>2, <1>3, Spans DEF Spanned

\* The processor's copies stay good.
LEMMA TlbStep ==
    ASSUME SmallCalls, TypeOK, CallOK, TlbInv, NEW lev, NEW num, TreeAt(lev, num), [Next]_vars
    PROVE  TlbInv'
<1>1. \A v \in Watched : v \in Space
  BY PagesAssumption DEF Space
<1>2. ASSUME tlb' = tlb, ~WriteLeaf, pc' = "flush" => pc = "flush" /\ call' = call,
             pc = "flush" => pc' = "flush" /\ call' = call
      PROVE  TlbInv'
  <2>1. \A v \in Watched : Translate(v)' = Translate(v)
    BY <1>1, <1>2, OnlyWriteMaps, TranslateIs
  <2> QED BY <1>2, <2>1 DEF TlbInv
<1>3. CASE WriteLeaf
  <2>1. pc = "walk" /\ tlb' = tlb /\ call' = call /\ pc' = AfterWrite(Here, new_entry(call))
    BY <1>3 DEF WriteLeaf
  <2>2. \A v \in Watched : tlb[v] # NotCached => tlb[v] = Translate(v)
    BY <2>1 DEF TlbInv
  <2>3. CASE Here = new_entry(call)
    <3>1. mem' = mem
      <4>1. /\ mem \in Memory /\ table \in Frames /\ Index(call.virt, level) \in Slots
            /\ Here = mem[table][Index(call.virt, level)]
        BY <2>1, AtWork
      <4>2. mem' = [mem EXCEPT ![table][Index(call.virt, level)] = Here]
        BY <1>3, <2>3 DEF WriteLeaf
      <4> QED BY <4>1, <4>2 DEF Memory
    <3>2. \A v \in Watched : Translate(v)' = Translate(v)
      BY <3>1, TranslateIs
    <3> QED BY <2>1, <2>2, <3>2 DEF TlbInv
  <2>4. CASE Here # new_entry(call)
    <3>1. pc' = "flush"
      BY <2>1, <2>4 DEF AfterWrite
    <3>2. ASSUME NEW v \in Watched, v # call.virt
          PROVE  Translate(v)' = Translate(v)
      <4>1. ~Spanned(v)
        BY <1>1, <3>2, SpannedSmall
      <4> QED BY <1>1, <1>3, <4>1, WriteMaps, TranslateIs
    <3> QED BY <2>1, <2>2, <3>1, <3>2 DEF TlbInv
  <2> QED BY <2>3, <2>4
<1>4. CASE vmm_flush
  <2>1. /\ pc = "flush" /\ mem' = mem
        /\ tlb' = [v \in Watched |-> IF v \in Dropped(call.virt) THEN NotCached ELSE tlb[v]]
    BY <1>4 DEF vmm_flush
  <2>2. \A v \in Watched : Translate(v)' = Translate(v)
    BY <2>1, TranslateIs
  <2>3. \A v \in Watched : v \notin Dropped(call.virt) => tlb[v] = NotCached \/ tlb[v] = Translate(v)
    <3> SUFFICES ASSUME NEW v \in Watched, v \notin Dropped(call.virt), tlb[v] # NotCached
                 PROVE  tlb[v] = Translate(v)
      OBVIOUS
    <3>1. v # call.virt
      BY DEF Dropped
    <3> QED BY <3>1 DEF TlbInv
  <2>4. \A v \in Watched : tlb'[v] = NotCached \/ tlb'[v] = Translate(v)
    BY <2>1, <2>3
  <2>5. tlb' = [v \in Watched |-> tlb'[v]]
    BY <2>1
  <2> QED BY <2>2, <2>4, <2>5 DEF TlbInv
<1>5. CASE \E v \in Watched : Access(v)
  <2>1. PICK v \in Watched : Access(v)
    BY <1>5
  <2>2. mem' = mem /\ pc' = pc /\ call' = call /\ tlb' = [tlb EXCEPT ![v] = Translate(v)]
    BY <2>1 DEF Access, walk
  <2>3. \A w \in Watched : Translate(w)' = Translate(w)
    BY <2>2, TranslateIs
  <2>4. tlb' = [w \in Watched |-> IF w = v THEN Translate(v) ELSE tlb[w]]
    BY <2>2 DEF TlbInv
  <2>5. tlb' = [w \in Watched |-> tlb'[w]]
    BY <2>4
  <2>6. \A w \in Watched : tlb'[w] # NotCached =>
            tlb'[w] = Translate(w) \/ (pc = "flush" /\ w = call.virt)
    BY <2>4 DEF TlbInv
  <2> QED BY <2>2, <2>3, <2>5, <2>6 DEF TlbInv
<1>6. CASE UsbMap \/ (\E c \in Calls : Begin(c))
  <2>1. tlb' = tlb /\ ~WriteLeaf /\ pc = "idle" /\ pc' # "flush"
    BY <1>6 DEF UsbMap, Begin, Start, tree, WriteLeaf
  <2> QED BY <1>2, <2>1
<1>7. CASE Descend \/ Allocate
  <2>1. tlb' = tlb /\ ~WriteLeaf /\ pc = "walk" /\ pc' # "flush"
    <3>1. pc = "walk" /\ level > call.leaf /\ tlb' = tlb /\ pc' # "flush"
      BY <1>7 DEF Descend, Allocate, Return, tree
    <3>2. level \in 1 .. 4 /\ call.leaf \in 1 .. 3
      BY <3>1, AtWork
    <3>3. ~(level = call.leaf)
      BY <3>1, <3>2
    <3> QED BY <3>1, <3>3 DEF WriteLeaf
  <2> QED BY <1>2, <2>1
<1>8. CASE ClearTable \/ LinkTable
  <2>1. tlb' = tlb /\ ~WriteLeaf /\ pc \in {"clear", "link"} /\ pc' # "flush"
    BY <1>8 DEF ClearTable, LinkTable, WriteLeaf
  <2> QED BY <1>2, <2>1
<1>9. CASE UNCHANGED vars
  <2>1. tlb' = tlb /\ pc' = pc /\ call' = call /\ mem' = mem
    BY <1>9 DEF vars, tree, walk
  <2>2. \A v \in Watched : Translate(v)' = Translate(v)
    BY <2>1, TranslateIs
  <2> QED BY <2>1, <2>2 DEF TlbInv
<1> QED BY <1>3, <1>4, <1>5, <1>6, <1>7, <1>8, <1>9 DEF Next, Step

\* No step but the write of a huge page makes an entry a huge page.
LEMMA NoNewHuge ==
    ASSUME SmallCalls, TypeOK, CallOK, NEW lev, NEW num, TreeAt(lev, num), [Next]_vars
    PROVE  \A t \in Frames, k \in Slots : mem'[t][k] = mem[t][k] \/ ~Has(mem'[t][k], "PS")
<1>1. mem \in Memory
  BY DEF TypeOK, Memory, Entries, Flags
<1>2. CASE mem' = mem
  BY <1>2
<1>3. CASE ClearTable
  <2>1. mem' = [mem EXCEPT ![new] = [k \in Slots |-> Empty]] /\ ~Has(Empty, "PS")
    BY <1>3 DEF ClearTable, Empty, Entry, Has
  <2> QED BY <1>1, <2>1 DEF Memory
<1>4. ASSUME NEW e, ~Has(e, "PS"), mem' = [mem EXCEPT ![table][Index(call.virt, level)] = e]
      PROVE  \A t \in Frames, k \in Slots : mem'[t][k] = mem[t][k] \/ ~Has(mem'[t][k], "PS")
  BY <1>1, <1>4 DEF Memory
<1>5. CASE LinkTable
  <2>1. ~Has(Entry(new, TableFlags), "PS")
    BY DEF Entry, TableFlags, Has
  <2> QED BY <1>4, <1>5, <2>1 DEF LinkTable
<1>6. CASE WriteLeaf
  <2>1. call.leaf = 1
    BY DEF CallOK, Made, SmallCalls, PageCall
  <2>2. ~Has(new_entry(call), "PS")
    BY <2>1 DEF new_entry, Entry, Has
  <2> QED BY <1>4, <1>6, <2>2 DEF WriteLeaf
<1>7. mem' = mem \/ ClearTable \/ LinkTable \/ WriteLeaf
  BY DEF Next, Step, UsbMap, Descend, Allocate, vmm_flush, Begin, Access, Start, vars, tree
<1> QED BY <1>2, <1>3, <1>5, <1>6, <1>7

\* A page of the registers is one of the virtual pages, above MmioGb.
LEMMA WindowPage ==
    ASSUME NEW b \in Bars, NEW p \in b .. b + WinPages - 1
    PROVE  p \in Space /\ p \div Span(3) >= MmioGb
<1>1. /\ b \in Nat /\ b >= MmioGb * Fan * Fan /\ b + WinPages <= Fan * Span(4) /\ WinPages \in Nat
      /\ MmioGb \in Nat /\ Fan \in Nat
  BY BarAssumption, ZoneAssumption, FanAssumption
<1>2. p \in Nat /\ p >= MmioGb * Fan * Fan /\ p <= Fan * Span(4) - 1
  <2> DEFINE a == MmioGb * Fan * Fan
             z == Fan * Span(4)
  <2>1. a \in Nat /\ z \in Nat
    BY <1>1, Spans
  <2> HIDE DEF a, z
  <2>2. b >= a /\ b + WinPages <= z
    BY <1>1 DEF a, z
  <2>3. p \in Nat /\ p >= a /\ p <= z - 1
    BY <1>1, <2>1, <2>2
  <2> QED BY <2>3 DEF a, z
<1>3. p \in Space
  BY <1>2, Spans DEF Space
<1> DEFINE s == Fan * Fan
           q == p \div s
           x == p % s
<1>4. s \in Nat /\ s >= 1 /\ s = Span(3)
  BY Spans
<1>5. q \in Nat /\ x \in Nat /\ x < s /\ p = q * s + x
  BY <1>2, <1>4, DivMod
<1>6. MmioGb * Fan * Fan = MmioGb * s
  BY <1>1
<1>7. q >= MmioGb
  <2> HIDE DEF s, q, x
  <2>1. SUFFICES ASSUME q + 1 <= MmioGb PROVE FALSE
    BY <1>1, <1>5
  <2>2. (q + 1) * s <= MmioGb * s
    BY <1>1, <1>4, <1>5, <2>1, Z3
  <2>3. (q + 1) * s = q * s + s
    BY <1>4, <1>5, Z3
  <2> DEFINE a == q * s
             c == MmioGb * s
  <2>4. a \in Nat /\ c \in Nat /\ a + s <= c /\ p >= c /\ p = a + x
    BY <1>1, <1>2, <1>4, <1>5, <1>6, <2>2, <2>3
  <2> HIDE DEF a, c
  <2> QED BY <2>4, <1>4, <1>5
<1> QED BY <1>3, <1>4, <1>7

\* vmm_map_page gives up on a 2 MB page of bootmain.s, which maps the page of
\* the registers as well.
LEMMA BootMapsWindow ==
    ASSUME TypeOK, CallOK, NEW lev, NEW num, TreeAt(lev, num), WindowAt(lev, num), Driving, ~refused,
           pc = "walk", Has(Here, "P"), Has(Here, "PS"), level > call.leaf
    PROVE  InEffect(call.virt)
<1> DEFINE v == call.virt
           k == Index(v, 2)
<1>1. /\ mem \in Memory /\ Tree(mem, free, lev, num)
      /\ v \in Space /\ call.leaf \in 1 .. 3 /\ level \in 1 .. 4
      /\ At(mem, v, table, level) /\ table \in Frames /\ lev[table] = level
      /\ num[table] = Up(v, level) /\ Index(v, level) \in Slots
      /\ Here = mem[table][Index(v, level)] /\ level # 4
  BY AtWork
<1>2. level = 2
  <2>1. level # 3
    BY <1>1 DEF WindowAt
  <2> QED BY <1>1, <2>1
<1>3. Here.addr = (num[table] * Fan + k) * Fan /\ (num[table] >= MmioGb => Has(Here, "PCD"))
  BY <1>1, <1>2 DEF WindowAt
<1>4. Gives(Value(mem, v), Here, v, 2)
  <2>1. At(mem, v, table, 2) /\ Here = mem[table][Index(v, 2)]
    BY <1>1, <1>2
  <2> QED BY <2>1, WayEnds
<1>5. num[table] * Fan + k = v \div Span(2)
  <2>1. v \div Span(2) = Up(v, 2) * Fan + Index(v, 2)
    BY <1>1, Place
  <2> QED BY <2>1, <1>1, <1>2
<1>6. v \in Nat /\ Fan \in Nat /\ Fan >= 1 /\ Span(2) = Fan
  BY <1>1, Spans DEF Space
<1>7. v = (v \div Fan) * Fan + (v % Fan)
  BY <1>6, DivMod
<1>8. Value(mem, v).frame = v
  <2>1. Value(mem, v).frame = Here.addr + (v % Fan)
    BY <1>4, <1>6 DEF Gives
  <2>2. Here.addr = (v \div Fan) * Fan
    BY <1>3, <1>5, <1>6
  <2> QED BY <2>1, <2>2, <1>7
<1>9. num[table] >= MmioGb
  <2>1. num[table] = v \div Span(3)
    BY <1>1, <1>2 DEF Up
  <2>2. i \in 1 .. WinPages /\ v = bar + i - 1 /\ bar \in Bars
    BY DEF WindowAt, TypeOK, PageCall, CallOK
  <2>3. v \in bar .. bar + WinPages - 1
    BY <2>2, BarAssumption
  <2> HIDE DEF v
  <2> QED BY <2>1, <2>2, <2>3, WindowPage
<1>10. Value(mem, v).uncached
  BY <1>3, <1>4, <1>9 DEF Gives
<1> QED BY <1>8, <1>10 DEF InEffect

\* A page of the part of the window that is mapped so far.
LEMMA SoFar ==
    ASSUME NEW b \in Nat, NEW n \in Nat, NEW w \in Nat, n <= w, NEW p, p \in b .. b + n - 1
    PROVE  p \in Int /\ b <= p /\ p <= b + n - 1 /\ p \in b .. b + w - 1 /\ n >= 1
OBVIOUS

\* usb_init goes on as it began.
LEMMA WindowStep ==
    ASSUME SmallCalls, TypeOK, CallOK, NEW lev, NEW num, TreeAt(lev, num), WindowAt(lev, num),
           [Next]_vars, NEW lev2, NEW num2, Grown(mem', lev, num, lev2, num2), TypeOK', CallOK'
    PROVE  WindowAt(lev2, num2)'
<1> SUFFICES ASSUME Driving', ~refused'
             PROVE  WindowAt(lev2, num2)'
  BY DEF WindowAt
<1>0. i \in 0 .. WinPages /\ i' \in 0 .. WinPages /\ WinPages \in Nat /\ bar \in Bars /\ bar \in Nat
  BY BarAssumption DEF TypeOK, CallOK
<1>1. bar' = bar /\ (refused' = refused \/ refused' = TRUE) /\ (UsbMap \/ i' = i)
  BY DEF Next, Step, UsbMap, Descend, Allocate, ClearTable, LinkTable, WriteLeaf, vmm_flush,
         Begin, Access, vars
<1>2. ~refused
  BY <1>1 DEF TypeOK
<1>3. UsbMap \/ (call' = call /\ i' = i)
  <2>1. \A c \in Calls : ~Begin(c)
    <3> SUFFICES ASSUME NEW c \in Calls, Begin(c)
                 PROVE  FALSE
      OBVIOUS
    <3>1. i = WinPages /\ i' = i /\ bar' = bar /\ call' = c
      BY DEF Begin, Start
    <3>2. c = PageCall(bar + WinPages - 1)
      BY <3>1, <1>0 DEF Driving
    <3> QED BY <3>2, <1>0 DEF SmallCalls
  <2> QED BY <2>1 DEF Next, Step, Descend, Allocate, ClearTable, LinkTable, WriteLeaf, vmm_flush,
                      Access, vars, walk, tree
<1>4. Driving
  <2>1. UsbMap => i < WinPages
    BY DEF UsbMap
  <2> QED BY <1>1, <1>3, <2>1 DEF Driving
<1>5. /\ i = 0 => pc = "idle"
      /\ i >= 1 => call = PageCall(bar + i - 1)
      /\ \A t \in Frames, k \in Slots :
            /\ lev[t] = 3 => ~Has(mem[t][k], "PS")
            /\ lev[t] = 2 /\ Has(mem[t][k], "PS") =>
                  /\ mem[t][k].addr = (num[t] * Fan + k) * Fan
                  /\ num[t] >= MmioGb => Has(mem[t][k], "PCD")
      /\ \A p \in bar .. bar + i - 1 :
            p < bar + i - 1 \/ pc \in {"idle", "flush"} => InEffect(p)
  BY <1>2, <1>4 DEF WindowAt
<1>6. i' = 0 => pc' = "idle"
  <2>1. UsbMap => i' # 0
    BY <1>0 DEF UsbMap
  <2>2. i = 0 /\ ~UsbMap => pc' = pc
    <3> SUFFICES ASSUME i = 0, ~UsbMap
                 PROVE  pc' = pc
      OBVIOUS
    <3>1. pc = "idle" /\ i # WinPages
      BY <1>5, BarAssumption
    <3> QED BY <3>1 DEF Next, Step, Descend, Allocate, ClearTable, LinkTable, WriteLeaf, vmm_flush,
                        Begin, Access, vars, walk
  <2> QED BY <1>1, <1>5, <2>1, <2>2
<1>7. i' >= 1 => call' = PageCall(bar' + i' - 1)
  <2>1. CASE UsbMap
    <3>1. call' = PageCall(bar + i) /\ i' = i + 1
      BY <2>1 DEF UsbMap, Start
    <3>2. bar + i = bar' + i' - 1
      BY <1>0, <1>1, <3>1
    <3> QED BY <3>1, <3>2
  <2>2. CASE ~UsbMap
    BY <1>1, <1>3, <1>5, <2>2
  <2> QED BY <2>1, <2>2
<1>8. ASSUME NEW t \in Frames, NEW k \in Slots
      PROVE  /\ lev2[t] = 3 => ~Has(mem'[t][k], "PS")
             /\ lev2[t] = 2 /\ Has(mem'[t][k], "PS") =>
                   /\ mem'[t][k].addr = (num2[t] * Fan + k) * Fan
                   /\ num2[t] >= MmioGb => Has(mem'[t][k], "PCD")
  <2>1. mem'[t][k] = mem[t][k] \/ ~Has(mem'[t][k], "PS")
    BY NoNewHuge
  <2>2. (lev2[t] = lev[t] /\ num2[t] = num[t]) \/ mem'[t][k] = Empty
    BY DEF Grown
  <2>3. ~Has(Empty, "PS")
    BY DEF Empty, Entry, Has
  <2>4. CASE ~Has(mem'[t][k], "PS")
    BY <2>4
  <2>5. CASE Has(mem'[t][k], "PS")
    <3>1. mem'[t][k] = mem[t][k] /\ lev2[t] = lev[t] /\ num2[t] = num[t]
      BY <2>1, <2>2, <2>3, <2>5
    <3> QED BY <3>1, <1>5
  <2> QED BY <2>4, <2>5
<1>10. bar \in Nat /\ i \in Nat /\ i' \in Nat /\ i' <= WinPages /\ WinPages \in Nat
  BY <1>0, <1>1
<1>9. ASSUME NEW p, p \in bar' .. bar' + i' - 1, p < bar' + i' - 1 \/ pc' \in {"idle", "flush"}
      PROVE  InEffect(p)'
  <2>0. /\ p \in Int /\ bar <= p /\ p <= bar + i' - 1 /\ p \in bar .. bar + WinPages - 1 /\ i' >= 1
    <3>1. p \in bar .. bar + i' - 1
      BY <1>1, <1>9
    <3> QED BY <3>1, <1>10, SoFar
  <2>1. p \in bar .. bar + WinPages - 1 /\ p \in Space
    BY <2>0, <1>0, WindowPage
  <2>2. CASE UsbMap
    <3>1. pc = "idle" /\ pc' = "walk" /\ i' = i + 1 /\ mem' = mem
      BY <2>2 DEF UsbMap, Start, tree
    <3>2. p \in bar .. bar + i - 1
      BY <3>1, <1>0, <1>1, <1>9
    <3>3. InEffect(p)
      BY <3>1, <3>2, <1>5
    <3> QED BY <3>1, <3>3 DEF InEffect
  <2>3. CASE ~UsbMap
    <3>1. i' = i /\ call' = call /\ p \in bar .. bar + i - 1 /\ i >= 1
          /\ call = PageCall(bar + i - 1) /\ call.virt = bar + i - 1 /\ call.phys = call.virt
          /\ "PCD" \in call.flags
      <4>1. i' = i /\ call' = call /\ p \in bar .. bar + i - 1 /\ i >= 1
        <5>1. i' = i /\ call' = call
          BY <1>3, <2>3
        <5> QED BY <5>1, <1>10, <2>0
      <4> QED BY <4>1, <1>5 DEF PageCall
    <3>2. CASE WriteLeaf
      <4>1. ~Spanned(p) => Value(mem', p) = Value(mem, p)
        BY <2>1, <3>2, WriteMaps
      <4>2. Spanned(p) => Gives(Value(mem', p), new_entry(call), p, call.leaf)
        BY <2>1, <3>2, WriteMaps
      <4>3. call.leaf = 1 /\ (Spanned(p) <=> p = call.virt)
        BY <2>1, SpannedSmall
      <4>4. CASE p = call.virt
        <5>1. new_entry(call).addr = call.phys /\ Has(new_entry(call), "PCD")
          BY <3>1 DEF new_entry, Entry, Has
        <5>2. p % Span(1) = 0 /\ p \in Nat
          <6>1. p \in Nat
            BY <2>1 DEF Space
          <6>2. \A n \in Nat : n % 1 = 0
            BY Z3
          <6> QED BY <6>1, <6>2, Spans
        <5>3. Value(mem', p).frame = call.phys + (p % Span(1)) /\ Value(mem', p).uncached
          BY <4>2, <4>3, <4>4, <5>1 DEF Gives
        <5>4. Value(mem', p).frame = p
          BY <3>1, <4>4, <5>2, <5>3
        <5> QED BY <5>3, <5>4 DEF InEffect
      <4>5. CASE p # call.virt
        <5>1. p < bar + i - 1
          BY <1>0, <3>1, <4>5
        <5>2. InEffect(p)
          BY <3>1, <5>1, <1>5
        <5> QED BY <4>1, <4>3, <4>5, <5>2 DEF InEffect
      <4> QED BY <4>4, <4>5
    <3>3. CASE ~WriteLeaf
      <4>1. Value(mem', p) = Value(mem, p)
        BY <2>1, <3>3, OnlyWriteMaps
      <4>2. CASE p < bar + i - 1 \/ pc \in {"idle", "flush"}
        <5>1. InEffect(p)
          BY <3>1, <4>2, <1>5
        <5> QED BY <4>1, <5>1 DEF InEffect
      <4>3. CASE ~(p < bar + i - 1) /\ pc \notin {"idle", "flush"}
        <5>1. p = call.virt /\ pc' \in {"idle", "flush"} /\ refused' # TRUE
          <6>1. ~(p < bar' + i' - 1)
            BY <1>0, <1>1, <3>1, <4>3
          <6>2. pc' \in {"idle", "flush"}
            BY <1>9, <6>1
          <6>3. p = call.virt
            BY <1>0, <3>1, <4>3
          <6> QED BY <6>2, <6>3
        <5>2. Descend /\ Has(Here, "PS")
          BY <5>1, <4>3, <3>3, <2>3 DEF Next, Step, Descend, Allocate, ClearTable, LinkTable,
             vmm_flush, Begin, Access, vars, walk, Return
        <5>3. InEffect(call.virt)
          BY <5>2, <1>2, <1>4, BootMapsWindow DEF Descend
        <5> QED BY <4>1, <5>1, <5>3 DEF InEffect
      <4> QED BY <4>2, <4>3
    <3> QED BY <3>2, <3>3
  <2> QED BY <2>2, <2>3
<1> QED BY <1>6, <1>7, <1>8, <1>9 DEF WindowAt

\* The 2 MB pages of bootmain.s map memory to itself, uncached above MmioGb.
LEMMA InitWindow ==
    ASSUME Init
    PROVE  WindowAt(BootLev, BootNum)
<1>1. mem = BootMemory /\ i = 0 /\ pc = "idle" /\ bar \in Nat
  BY InitTree, BarAssumption DEF Init
<1>2. ASSUME NEW t \in Frames, NEW k \in Slots
      PROVE  /\ BootLev[t] = 3 => ~Has(mem[t][k], "PS")
             /\ BootLev[t] = 2 /\ Has(mem[t][k], "PS") =>
                   /\ mem[t][k].addr = (BootNum[t] * Fan + k) * Fan
                   /\ BootNum[t] >= MmioGb => Has(mem[t][k], "PCD")
  <2>1. mem[t][k] = boot_main(t, k)
    BY <1>1 DEF BootMemory
  <2>2. ASSUME BootLev[t] = 3
        PROVE  ~Has(mem[t][k], "PS")
    <3>1. t = pdpt
      BY <2>2 DEF BootLev
    <3> QED BY <3>1, <2>1, BootEntries DEF Has, Entry, Empty, PdptFlags
  <2>3. ASSUME BootLev[t] = 2
        PROVE  /\ mem[t][k].addr = (BootNum[t] * Fan + k) * Fan
               /\ BootNum[t] >= MmioGb => Has(mem[t][k], "PCD")
    <3>1. t \in BootFrames \ {pml4, pdpt}
      BY <2>3 DEF BootLev
    <3>2. BootNum[t] = t - pd(0)
      BY <3>1 DEF BootNum
    <3>3. mem[t][k] = Entry((BootNum[t] * Fan + k) * Fan, ZoneFlags(BootNum[t]))
      BY <2>1, <3>1, <3>2, BootEntries
    <3> QED BY <3>3 DEF Entry, Has, ZoneFlags
  <2> QED BY <2>2, <2>3
<1>3. \A p \in bar .. bar + i - 1 : FALSE
  BY <1>1
<1> QED BY <1>1, <1>2, <1>3 DEF WindowAt

\* What the invariant says about the property.
LEMMA EffectSound ==
    ASSUME EffectInv
    PROVE  MappingInEffect
<1>1. TlbCoherent
  BY DEF EffectInv, TlbInv, TlbCoherent
<1>2. ASSUME i = WinPages, pc = "idle", call = PageCall(bar + WinPages - 1), ~refused,
             NEW p \in bar .. bar + WinPages - 1
      PROVE  Translate(p).frame = p /\ Translate(p).uncached
  <2>1. PICK lev, num : WindowAt(lev, num)
    BY DEF EffectInv
  <2>2. InEffect(p)
    BY <1>2, <2>1 DEF WindowAt, Driving
  <2> QED BY <2>2, TranslateIs DEF InEffect
<1>3. WindowMapped
  BY <1>2 DEF WindowMapped
<1> QED BY <1>1, <1>3 DEF MappingInEffect

\* A mapping that has returned is in effect.  vmm_flush's one invlpg, skipped
\* when the entry stays the same, keeps what the processor holds true to the
\* tables, and the driver finds each page of its registers mapped one to one and
\* uncached unless a table could not be allocated.  It takes that the calls
\* after usb_init are of vmm_map_page, as all the calls in the code are: a huge
\* page in the place of a table leaves the pages of that table in the TLB.
THEOREM MappingAlwaysInEffect ==
    ASSUME SmallCalls
    PROVE  Spec => []MappingInEffect
<1>1. Init => EffectInv
  <2> SUFFICES ASSUME Init
               PROVE  EffectInv
    OBVIOUS
  <2>1. TlbInv
    BY DEF Init, TlbInv
  <2> QED BY <2>1, InitTree, InitWindow DEF EffectInv
<1>2. EffectInv /\ [Next]_vars => EffectInv'
  <2> SUFFICES ASSUME EffectInv, [Next]_vars
               PROVE  EffectInv'
    OBVIOUS
  <2>1. PICK lev, num : TreeAt(lev, num) /\ WindowAt(lev, num)
    BY DEF EffectInv
  <2>2. TypeOK /\ CallOK /\ TlbInv
    BY DEF EffectInv
  <2>3. TypeOK' /\ CallOK'
    BY <2>1, <2>2, StepTree
  <2>4. PICK lev2, num2 : TreeAt(lev2, num2)' /\ Grown(mem', lev, num, lev2, num2)
    BY <2>1, <2>2, StepTree
  <2>5. WindowAt(lev2, num2)'
    BY <2>1, <2>2, <2>3, <2>4, WindowStep
  <2>6. TlbInv'
    BY <2>1, <2>2, TlbStep
  <2> QED BY <2>3, <2>4, <2>5, <2>6 DEF EffectInv
<1> QED BY <1>1, <1>2, EffectSound, PTL DEF Spec
================================================================================
