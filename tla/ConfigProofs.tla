---------------------------- MODULE ConfigProofs ----------------------------
(***************************************************************************)
(* Proofs about Config, for any devices, profiles and files, any number of *)
(* filters and pipes and any room in them, and whatever pipe_free() drops: *)
(* the counts and the sinks of the pipes are right; a filter is owned once *)
(* as long as it lives; and a line has the filters that its profile names. *)
(***************************************************************************)
EXTENDS Config, FiniteSetTheorems, SequenceTheorems, WellFoundedInduction, TLAPS

\* What every function of evf_pipe.c leaves: the listed pipes are allocated,
\* listed once, and of different names.
Registry == [list : Seq(Pipe), heap : SUBSET Pipe, name : [Pipe -> Name],
             ref : [Pipe -> Int], sinks : [Pipe -> Seq(Filter)]]

Listed(r) ==
    /\ \A k \in 1..Len(r.list) : r.list[k] \in r.heap
    /\ \A j, k \in 1..Len(r.list) :
          j # k => r.list[j] # r.list[k] /\ r.name[r.list[j]] # r.name[r.list[k]]

\* The first and the last of the places of what is in one place only.
LEMMA OnlyPlace ==
  ASSUME NEW I \in SUBSET Nat, NEW k \in I, \A j \in I : j = k
  PROVE  I # {} /\ Min(I) = k /\ Max(I) = k
<1>1. \A y \in I : k <= y /\ k >= y
  OBVIOUS
<1>2. \E x \in I : \A y \in I : x <= y
  BY <1>1
<1>3. \E x \in I : \A y \in I : x >= y
  BY <1>1
<1>4. Min(I) \in I
  BY <1>2 DEF Min
<1>5. Max(I) \in I
  BY <1>3 DEF Max
<1>6. QED
  BY <1>4, <1>5

\* pipe_lookup() returns a place of the list with that name, or 0 when there is
\* none.
LEMMA LookupPlace ==
  ASSUME NEW r \in Registry, Listed(r), NEW n \in Name
  PROVE  \/ Lookup(r, n) \in 1..Len(r.list) /\ r.name[r.list[Lookup(r, n)]] = n
         \/ Lookup(r, n) = 0 /\ \A k \in 1..Len(r.list) : r.name[r.list[k]] # n
<1>. DEFINE I == {k \in 1..Len(r.list) : r.name[r.list[k]] = n}
<1>1. Lookup(r, n) = IF I # {} THEN Min(I) ELSE 0
  BY DEF Lookup, SelectInSeq
<1>2. CASE I = {}
  BY <1>1, <1>2
<1>3. CASE I # {}
  <2>1. PICK k \in I : TRUE
    BY <1>3
  <2>2. \A j \in I : j = k
    BY DEF Listed
  <2>3. I \in SUBSET Nat
    OBVIOUS
  <2>4. Min(I) = k
    <3>. HIDE DEF I
    <3>1. QED
      BY <2>1, <2>2, <2>3, OnlyPlace
  <2>5. QED
    BY <1>1, <1>3, <2>1, <2>4
<1>4. QED
  BY <1>2, <1>3

\* The places of s that are left when those between a and b are cut out.
Cut(s, a, b) == SubSeq(s, 1, a) \o SubSeq(s, b, Len(s))

\* Which elements these are.
LEMMA CutElements ==
  ASSUME NEW S, NEW s \in Seq(S), NEW a \in 0..Len(s), NEW b \in a + 1..Len(s) + 1
  PROVE  /\ Cut(s, a, b) \in Seq(S)
         /\ Len(Cut(s, a, b)) = a + Len(s) - b + 1
         /\ \A j \in 1..Len(Cut(s, a, b)) :
               Cut(s, a, b)[j] = s[IF j <= a THEN j ELSE j + b - a - 1]
<1>. DEFINE u == SubSeq(s, 1, a)
            v == SubSeq(s, b, Len(s))
<1>1. u \in Seq(S) /\ Len(u) = a /\ \A j \in 1..a : u[j] = s[j]
  OBVIOUS
<1>2. /\ v \in Seq(S)
      /\ Len(v) = Len(s) - b + 1
      /\ \A j \in 1..Len(v) : v[j] = s[j + b - 1]
  OBVIOUS
<1>. HIDE DEF u, v
<1>3. /\ u \o v \in Seq(S)
      /\ Len(u \o v) = Len(u) + Len(v)
      /\ \A j \in 1..Len(u) + Len(v) : (u \o v)[j] = IF j <= Len(u) THEN u[j] ELSE v[j - Len(u)]
  <2>1. u \in Seq(S) /\ v \in Seq(S)
    BY <1>1, <1>2
  <2>2. u \o v \in Seq(S) /\ Len(u \o v) = Len(u) + Len(v)
    BY <2>1
  <2>3. \A j \in 1..Len(u) + Len(v) : (u \o v)[j] = IF j <= Len(u) THEN u[j] ELSE v[j - Len(u)]
    BY <2>1
  <2>4. QED
    BY <2>2, <2>3
<1>4. \A j \in 1..Len(u) + Len(v) : (u \o v)[j] = s[IF j <= a THEN j ELSE j + b - a - 1]
  <2>. SUFFICES ASSUME NEW j \in 1..Len(u) + Len(v)
                PROVE  (u \o v)[j] = s[IF j <= a THEN j ELSE j + b - a - 1]
    OBVIOUS
  <2>1. CASE j <= a
    BY <1>1, <1>3, <2>1
  <2>2. CASE ~(j <= a)
    <3>1. j - a \in 1..Len(v) /\ j - a + b - 1 = j + b - a - 1
      BY <1>1, <1>2, <2>2
    <3>2. (u \o v)[j] = v[j - a]
      BY <1>1, <1>3, <2>2
    <3>3. QED
      BY <1>2, <2>2, <3>1, <3>2
  <2>3. QED
    BY <2>1, <2>2
<1>5. /\ Len(u \o v) = a + Len(s) - b + 1
      /\ \A j \in 1..Len(u \o v) : (u \o v)[j] = s[IF j <= a THEN j ELSE j + b - a - 1]
  BY <1>1, <1>2, <1>3, <1>4
<1>6. Cut(s, a, b) = u \o v
  BY DEF Cut, u, v
<1>7. QED
  BY <1>3, <1>5, <1>6

\* pipe_free() leaves a list without the pipe, or leaves the pipe in its place
\* when it is the first.
LEMMA PipeFreeRegistry ==
  ASSUME NEW r \in Registry, Listed(r), NEW p \in r.heap
  PROVE  /\ PipeFree(r, p) \in Registry
         /\ Listed(PipeFree(r, p))
         /\ PipeFree(r, p).heap \in {r.heap, r.heap \ {p}}
         /\ PipeFree(r, p).name = r.name
         /\ PipeFree(r, p).ref = r.ref
         /\ PipeFree(r, p).sinks = r.sinks
<1>. DEFINE I == {k \in 1..Len(r.list) : r.list[k] = p}
            K == SelectInSeq(r.list, LAMBDA q : q = p)
<1>0. /\ r.list \in Seq(Pipe) /\ r.heap \in SUBSET Pipe /\ r.name \in [Pipe -> Name]
      /\ r.ref \in [Pipe -> Int] /\ r.sinks \in [Pipe -> Seq(Filter)]
  BY DEF Registry
<1>1. K = IF I # {} THEN Min(I) ELSE 0
  BY DEF SelectInSeq
<1>2. \/ I = {} /\ K = 0
      \/ K \in I
  <2>1. CASE I = {}
    BY <1>1, <2>1
  <2>2. CASE I # {}
    <3>1. PICK k \in I : TRUE
      BY <2>2
    <3>2. \A j \in I : j = k
      BY DEF Listed
    <3>3. I \in SUBSET Nat
      OBVIOUS
    <3>4. Min(I) = k
      <4>. HIDE DEF I
      <4>1. QED
        BY <3>1, <3>2, <3>3, OnlyPlace
    <3>5. QED
      BY <1>1, <2>2, <3>1, <3>4
  <2>3. QED
    BY <2>1, <2>2
<1>3. K \in Nat /\ (K # 0 => K \in 1..Len(r.list) /\ r.list[K] = p)
  BY <1>2
<1>4. K = 0 => \A k \in 1..Len(r.list) : r.list[k] # p
  BY <1>2
<1>5. PipeFree(r, p) =
        IF K = 0 THEN [r EXCEPT !.heap = @ \ {p}]
        ELSE IF K = 1 THEN r
        ELSE [r EXCEPT !.heap = @ \ {p},
                       !.list = SubSeq(@, 1, IF K = 2 THEN 0 ELSE K - 1)
                                  \o SubSeq(@, K + 1, Len(@))]
  BY DEF PipeFree
<1>. HIDE DEF I, K
<1>6. CASE K = 0
  <2>. DEFINE s == [r EXCEPT !.heap = r.heap \ {p}, !.list = r.list]
  <2>1. PipeFree(r, p) = s
    BY <1>5, <1>6 DEF Registry
  <2>2. /\ s \in Registry /\ s.list = r.list /\ s.heap = r.heap \ {p}
        /\ s.name = r.name /\ s.ref = r.ref /\ s.sinks = r.sinks
    BY <1>0 DEF Registry
  <2>. HIDE DEF s
  <2>3. Listed(s)
    BY <1>4, <1>6, <2>2 DEF Listed
  <2>4. QED
    BY <2>1, <2>2, <2>3
<1>7. CASE K = 1
  BY <1>5, <1>7
<1>8. CASE K \notin {0, 1}
  <2>. DEFINE a == IF K = 2 THEN 0 ELSE K - 1
              b == K + 1
              t == Cut(r.list, a, b)
  <2>. DEFINE s == [r EXCEPT !.heap = r.heap \ {p}, !.list = t]
              g(j) == IF j <= a THEN j ELSE j + b - a - 1
  <2>1. a \in 0..Len(r.list) /\ b \in a + 1..Len(r.list) + 1 /\ a < K
    BY <1>0, <1>3, <1>8
  <2>2. b = K + 1 /\ Len(r.list) \in Nat
    BY <1>0
  <2>3. PipeFree(r, p) = s
    BY <1>5, <1>8 DEF Cut
  <2>. HIDE DEF a, b
  <2>4. /\ t \in Seq(Pipe)
        /\ Len(t) = a + Len(r.list) - b + 1
        /\ \A j \in 1..Len(t) : t[j] = r.list[g(j)]
    BY <1>0, <2>1, CutElements
  <2>. HIDE DEF t
  <2>5. /\ s \in Registry /\ s.list = t /\ s.heap = r.heap \ {p}
        /\ s.name = r.name /\ s.ref = r.ref /\ s.sinks = r.sinks
    BY <1>0, <2>4 DEF Registry
  <2>6. \A j \in 1..Len(t) : g(j) \in 1..Len(r.list) /\ g(j) # K
    <3>. SUFFICES ASSUME NEW j \in 1..Len(t)
                  PROVE  g(j) \in 1..Len(r.list) /\ g(j) # K
      OBVIOUS
    <3>1. /\ a \in Nat /\ K \in Nat /\ a < K /\ K <= Len(r.list)
          /\ Len(r.list) \in Nat /\ b = K + 1
      BY <1>3, <1>8, <2>1, <2>2
    <3>2. j \in Nat /\ 1 <= j /\ j <= a + Len(r.list) - b + 1
      BY <2>4, <3>1
    <3>3. CASE j <= a
      BY <3>1, <3>2, <3>3
    <3>4. CASE ~(j <= a)
      BY <3>1, <3>2, <3>4
    <3>5. QED
      BY <3>3, <3>4
  <2>7. \A j, k \in 1..Len(t) : j # k => g(j) # g(k)
    BY <1>3, <2>1, <2>2, <2>4
  <2>. HIDE DEF g, s
  <2>8. \A j \in 1..Len(t) : t[j] \in r.heap \ {p}
    <3>. SUFFICES ASSUME NEW j \in 1..Len(t)  PROVE t[j] \in r.heap \ {p}
      OBVIOUS
    <3>1. r.list[g(j)] \in r.heap /\ r.list[g(j)] # r.list[K]
      BY <1>3, <1>8, <2>6 DEF Listed
    <3>2. QED
      BY <1>3, <1>8, <2>4, <3>1
  <2>9. \A j, k \in 1..Len(t) : j # k => t[j] # t[k] /\ r.name[t[j]] # r.name[t[k]]
    BY <2>4, <2>6, <2>7 DEF Listed
  <2>10. Listed(s)
    BY <2>5, <2>8, <2>9 DEF Listed
  <2>11. QED
    BY <2>3, <2>5, <2>10
<1>9. QED
  BY <1>6, <1>7, <1>8

\* evf_pipe_get() returns a pipe with one reference more, which is a new one
\* when the list has none of the name.
LEMMA GetRegistry ==
  ASSUME NEW r \in Registry, Listed(r), NEW n \in Name, Got(r, n) # 0
  PROVE  /\ Got(r, n) \in Pipe
         /\ Get(r, n) \in Registry
         /\ Listed(Get(r, n))
         /\ Get(r, n).heap = r.heap \cup {Got(r, n)}
         /\ Got(r, n) \in r.heap =>
               /\ Get(r, n).ref = [r.ref EXCEPT ![Got(r, n)] = @ + 1]
               /\ Get(r, n).sinks = r.sinks
         /\ Got(r, n) \notin r.heap =>
               /\ Get(r, n).ref = [r.ref EXCEPT ![Got(r, n)] = 1]
               /\ Get(r, n).sinks = [r.sinks EXCEPT ![Got(r, n)] = << >>]
<1>. DEFINE p == Got(r, n)
            g == Get(r, n)
<1>0. /\ r.list \in Seq(Pipe) /\ r.heap \in SUBSET Pipe /\ r.name \in [Pipe -> Name]
      /\ r.ref \in [Pipe -> Int] /\ r.sinks \in [Pipe -> Seq(Filter)]
  BY DEF Registry
<1>1. \/ p \in r.heap
      \/ /\ p \in Pipe \ r.heap
         /\ \A k \in 1..Len(r.list) : r.name[r.list[k]] # n
  <2>1. CASE Lookup(r, n) # 0
    <3>1. Lookup(r, n) \in 1..Len(r.list)
      BY <2>1, LookupPlace
    <3>2. p = r.list[Lookup(r, n)]
      BY <2>1 DEF Got
    <3>3. QED
      BY <3>1, <3>2 DEF Listed
  <2>2. CASE Lookup(r, n) = 0
    <3>1. \A k \in 1..Len(r.list) : r.name[r.list[k]] # n
      BY <2>2, LookupPlace
    <3>2. ~(Pipe \subseteq r.heap) /\ p = CHOOSE q \in Pipe : q \notin r.heap
      BY <2>2 DEF Got
    <3>3. p \in Pipe \ r.heap
      BY <3>2
    <3>4. QED
      BY <3>1, <3>3
  <2>3. QED
    BY <2>1, <2>2
<1>2. p # 0
  OBVIOUS
<1>3. g = IF p \in r.heap
          THEN [r EXCEPT !.ref[p] = @ + 1]
          ELSE [r EXCEPT !.list = <<p>> \o @, !.heap = @ \cup {p}, !.name[p] = n,
                         !.ref[p] = 1, !.sinks[p] = << >>]
  BY <1>2 DEF Get
<1>. HIDE DEF p, g
<1>4. CASE p \in r.heap
  <2>1. g = [r EXCEPT !.ref[p] = @ + 1]
    BY <1>3, <1>4
  <2>2. p \in Pipe
    BY <1>0, <1>4
  <2>3. /\ g \in Registry /\ g.list = r.list /\ g.heap = r.heap /\ g.name = r.name
        /\ g.ref = [r.ref EXCEPT ![p] = @ + 1] /\ g.sinks = r.sinks
    <3>1. g = [list |-> r.list, heap |-> r.heap, name |-> r.name,
               ref |-> [r.ref EXCEPT ![p] = @ + 1], sinks |-> r.sinks]
      BY <2>1 DEF Registry
    <3>2. [r.ref EXCEPT ![p] = @ + 1] \in [Pipe -> Int]
      BY <1>0, <2>2
    <3>3. QED
      BY <1>0, <3>1, <3>2 DEF Registry
  <2>4. Listed(g)
    BY <2>3 DEF Listed
  <2>5. QED
    BY <1>4, <2>2, <2>3, <2>4 DEF p, g
<1>5. CASE p \notin r.heap
  <2>. DEFINE t == <<p>> \o r.list
  <2>1. p \in Pipe /\ \A k \in 1..Len(r.list) : r.name[r.list[k]] # n
    BY <1>1, <1>5
  <2>2. /\ t \in Seq(Pipe) /\ Len(t) = Len(r.list) + 1 /\ t[1] = p
        /\ \A k \in 2..Len(t) : k - 1 \in 1..Len(r.list) /\ t[k] = r.list[k - 1]
    BY <1>0, <2>1
  <2>. HIDE DEF t
  <2>3. g = [list |-> t, heap |-> r.heap \cup {p}, name |-> [r.name EXCEPT ![p] = n],
             ref |-> [r.ref EXCEPT ![p] = 1], sinks |-> [r.sinks EXCEPT ![p] = << >>]]
    BY <1>3, <1>5 DEF Registry, t
  <2>4. /\ g \in Registry /\ g.list = t /\ g.heap = r.heap \cup {p}
        /\ g.name = [r.name EXCEPT ![p] = n]
        /\ g.ref = [r.ref EXCEPT ![p] = 1] /\ g.sinks = [r.sinks EXCEPT ![p] = << >>]
    BY <1>0, <2>1, <2>2, <2>3 DEF Registry
  <2>5. ASSUME NEW k \in 2..Len(t)
        PROVE  t[k] \in r.heap /\ t[k] # p /\ g.name[t[k]] = r.name[t[k]] /\ g.name[t[k]] # n
    <3>1. k - 1 \in 1..Len(r.list) /\ t[k] = r.list[k - 1]
      BY <2>2
    <3>2. t[k] \in r.heap
      BY <3>1 DEF Listed
    <3>3. t[k] # p /\ t[k] \in Pipe
      BY <1>0, <1>5, <3>2
    <3>4. g.name[t[k]] = r.name[t[k]]
      BY <1>0, <2>1, <2>4, <3>3
    <3>5. QED
      BY <2>1, <3>1, <3>2, <3>3, <3>4
  <2>6. g.name[p] = n
    BY <1>0, <2>1, <2>4
  <2>7. ASSUME NEW j \in 2..Len(t), NEW k \in 2..Len(t), j # k
        PROVE  t[j] # t[k] /\ g.name[t[j]] # g.name[t[k]]
    <3>1. /\ j - 1 \in 1..Len(r.list) /\ t[j] = r.list[j - 1]
          /\ k - 1 \in 1..Len(r.list) /\ t[k] = r.list[k - 1]
          /\ j - 1 # k - 1
      BY <2>2, <2>7
    <3>2. t[j] # t[k] /\ r.name[t[j]] # r.name[t[k]]
      BY <3>1 DEF Listed
    <3>3. QED
      BY <2>5, <3>2
  <2>8. \A k \in 1..Len(t) : k = 1 \/ k \in 2..Len(t)
    OBVIOUS
  <2>9. Listed(g)
    BY <2>2, <2>4, <2>5, <2>6, <2>7, <2>8 DEF Listed
  <2>10. QED
    BY <1>5, <2>1, <2>4, <2>9 DEF p, g
<1>6. QED
  BY <1>4, <1>5

\* evf_pipe_put() takes one reference away; the pipe goes only when it was the
\* last.
LEMMA PutRegistry ==
  ASSUME NEW r \in Registry, Listed(r), NEW p \in r.heap
  PROVE  /\ Put(r, p) \in Registry
         /\ Listed(Put(r, p))
         /\ Put(r, p).ref = [r.ref EXCEPT ![p] = @ - 1]
         /\ Put(r, p).sinks = r.sinks
         /\ \/ Put(r, p).heap = r.heap
            \/ Put(r, p).heap = r.heap \ {p} /\ r.ref[p] <= 1
<1>. DEFINE s == [r EXCEPT !.ref[p] = @ - 1]
<1>0. /\ r.heap \in SUBSET Pipe /\ r.ref \in [Pipe -> Int] /\ p \in Pipe
  BY DEF Registry
<1>1. s = [r EXCEPT !.ref[p] = @ - 1]
  OBVIOUS
<1>2. Put(r, p) = IF s.ref[p] <= 0 THEN PipeFree(s, p) ELSE s
  BY DEF Put
<1>. HIDE DEF s
<1>3. /\ s \in Registry /\ s.list = r.list /\ s.heap = r.heap /\ s.name = r.name
      /\ s.ref = [r.ref EXCEPT ![p] = @ - 1] /\ s.sinks = r.sinks
  <2>1. s = [list |-> r.list, heap |-> r.heap, name |-> r.name,
             ref |-> [r.ref EXCEPT ![p] = @ - 1], sinks |-> r.sinks]
    BY <1>1 DEF Registry
  <2>2. [r.ref EXCEPT ![p] = @ - 1] \in [Pipe -> Int]
    BY <1>0
  <2>3. QED
    BY <1>0, <2>1, <2>2 DEF Registry
<1>4. s.ref[p] = r.ref[p] - 1 /\ r.ref[p] \in Int
  BY <1>0, <1>3
<1>5. Listed(s)
  BY <1>3 DEF Listed
<1>6. CASE s.ref[p] <= 0
  <2>1. /\ PipeFree(s, p) \in Registry
        /\ Listed(PipeFree(s, p))
        /\ PipeFree(s, p).heap \in {s.heap, s.heap \ {p}}
        /\ PipeFree(s, p).ref = s.ref
        /\ PipeFree(s, p).sinks = s.sinks
    BY <1>5, <1>3, PipeFreeRegistry
  <2>2. r.ref[p] <= 1
    BY <1>4, <1>6
  <2>3. QED
    BY <1>2, <1>6, <1>3, <2>1, <2>2
<1>7. CASE ~(s.ref[p] <= 0)
  BY <1>2, <1>5, <1>7, <1>3
<1>8. QED
  BY <1>6, <1>7

\* Sinks take the places 1 to n; the last one moves into the place of the one
\* that goes, as in evf_pipe_rem_sink().
LEMMA LastFillsGap ==
  ASSUME NEW S, NEW s \in Seq(S), IsInjective(s), NEW k \in 1..Len(s)
  PROVE  LET t == Front(ReplaceAt(s, k, Last(s)))
         IN  /\ t \in Seq(S)
             /\ Len(t) = Len(s) - 1
             /\ IsInjective(t)
             /\ ToSet(t) = ToSet(s) \ {s[k]}
<1>. DEFINE n == Len(s)
            u == ReplaceAt(s, k, Last(s))
            t == Front(u)
<1>1. n \in Nat /\ n >= 1 /\ DOMAIN s = 1..n /\ k \in 1..n
  OBVIOUS
<1>2. u \in Seq(S) /\ Len(u) = n /\ \A j \in 1..n : u[j] = IF j = k THEN s[n] ELSE s[j]
  BY <1>1 DEF ReplaceAt, Last
<1>. HIDE DEF u
<1>3. t \in Seq(S) /\ Len(t) = n - 1 /\ \A j \in 1..n - 1 : t[j] = u[j]
  BY <1>1, <1>2 DEF Front
<1>. HIDE DEF t
<1>4. DOMAIN t = 1..n - 1 /\ \A j \in 1..n - 1 : t[j] = IF j = k THEN s[n] ELSE s[j]
  BY <1>1, <1>2, <1>3
<1>5. \A i, j \in 1..n : s[i] = s[j] => i = j
  BY <1>1 DEF IsInjective
<1>. HIDE DEF n
<1>6. IsInjective(t)
  <2>. SUFFICES ASSUME NEW i \in 1..n - 1, NEW j \in 1..n - 1, t[i] = t[j]
                PROVE  i = j
    BY <1>4 DEF IsInjective
  <2>1. i \in 1..n /\ j \in 1..n /\ n \in 1..n /\ i # n /\ j # n
    BY <1>1
  <2>2. QED
    BY <1>4, <1>5, <2>1
<1>7. ASSUME NEW x \in ToSet(t)
      PROVE  x \in ToSet(s) \ {s[k]}
  <2>1. PICK j \in 1..n - 1 : x = t[j]
    BY <1>4, <1>7 DEF ToSet
  <2>2. j \in 1..n /\ n \in 1..n /\ j # n /\ k \in 1..n
    BY <1>1
  <2>3. CASE j = k
    BY <1>1, <1>4, <1>5, <2>1, <2>2, <2>3 DEF ToSet
  <2>4. CASE j # k
    BY <1>1, <1>4, <1>5, <2>1, <2>2, <2>4 DEF ToSet
  <2>5. QED
    BY <2>3, <2>4
<1>8. ASSUME NEW x \in ToSet(s) \ {s[k]}
      PROVE  x \in ToSet(t)
  <2>1. PICK j \in 1..n : x = s[j]
    BY <1>1, <1>8 DEF ToSet
  <2>2. j # k /\ k \in 1..n
    BY <1>1, <1>8, <2>1
  <2>3. CASE j = n
    <3>1. k \in 1..n - 1 /\ t[k] = s[n]
      BY <1>1, <1>4, <2>2, <2>3
    <3>2. QED
      BY <1>4, <2>1, <2>3, <3>1 DEF ToSet
  <2>4. CASE j # n
    <3>1. j \in 1..n - 1 /\ t[j] = s[j]
      BY <1>1, <1>4, <2>2, <2>4
    <3>2. QED
      BY <1>4, <2>1, <3>1 DEF ToSet
  <2>5. QED
    BY <2>3, <2>4
<1>9. QED
  BY <1>3, <1>6, <1>7, <1>8 DEF n, t, u

\* evf_pipe_add_sink() changes the sinks of this pipe only.
LEMMA AddSinkRegistry ==
  ASSUME NEW r \in Registry, Listed(r), NEW p \in Pipe, NEW f \in Filter
  PROVE  /\ AddSink(r, p, f) \in Registry
         /\ Listed(AddSink(r, p, f))
         /\ AddSink(r, p, f).heap = r.heap
         /\ AddSink(r, p, f).ref = r.ref
         /\ AddSink(r, p, f).sinks = [r.sinks EXCEPT ![p] = Append(@, f)]
<1>. DEFINE s == AddSink(r, p, f)
<1>1. s = [r EXCEPT !.sinks[p] = Append(@, f)]
  BY DEF AddSink
<1>. HIDE DEF s
<1>2. s = [list |-> r.list, heap |-> r.heap, name |-> r.name, ref |-> r.ref,
           sinks |-> [r.sinks EXCEPT ![p] = Append(@, f)]]
  BY <1>1 DEF Registry
<1>3. [r.sinks EXCEPT ![p] = Append(@, f)] \in [Pipe -> Seq(Filter)]
  BY DEF Registry
<1>4. /\ s \in Registry /\ s.list = r.list /\ s.heap = r.heap /\ s.name = r.name
      /\ s.ref = r.ref /\ s.sinks = [r.sinks EXCEPT ![p] = Append(@, f)]
  BY <1>2, <1>3 DEF Registry
<1>5. Listed(s)
  BY <1>4 DEF Listed
<1>6. QED
  BY <1>4, <1>5 DEF s

\* evf_pipe_rem_sink() of a sink that the pipe has takes this one away.
LEMMA RemSinkRegistry ==
  ASSUME NEW r \in Registry, Listed(r), NEW p \in Pipe, NEW f,
         IsInjective(r.sinks[p]), f \in ToSet(r.sinks[p])
  PROVE  /\ RemSink(r, p, f) \in Registry
         /\ Listed(RemSink(r, p, f))
         /\ RemSink(r, p, f).heap = r.heap
         /\ RemSink(r, p, f).ref = r.ref
         /\ \A q \in Pipe \ {p} : RemSink(r, p, f).sinks[q] = r.sinks[q]
         /\ Len(RemSink(r, p, f).sinks[p]) = Len(r.sinks[p]) - 1
         /\ IsInjective(RemSink(r, p, f).sinks[p])
         /\ ToSet(RemSink(r, p, f).sinks[p]) = ToSet(r.sinks[p]) \ {f}
<1>. DEFINE s == r.sinks[p]
            I == {j \in 1..Len(s) : s[j] = f}
            K == SelectLastInSeq(s, LAMBDA g : g = f)
            t == Front(ReplaceAt(s, K, Last(s)))
            q == RemSink(r, p, f)
<1>0. /\ r.list \in Seq(Pipe) /\ r.heap \in SUBSET Pipe /\ r.name \in [Pipe -> Name]
      /\ r.ref \in [Pipe -> Int] /\ r.sinks \in [Pipe -> Seq(Filter)]
      /\ s \in Seq(Filter)
  BY DEF Registry
<1>1. K = IF I # {} THEN Max(I) ELSE 0
  BY DEF SelectLastInSeq
<1>2. PICK k \in 1..Len(s) : s[k] = f
  <2>. HIDE DEF K
  <2>1. DOMAIN s = 1..Len(s)
    BY <1>0
  <2>2. QED
    BY <2>1 DEF ToSet
<1>3. K = k
  <2>1. k \in I /\ I \in SUBSET Nat
    BY <1>2
  <2>2. \A j \in I : j = k
    BY <1>0, <1>2 DEF IsInjective
  <2>. HIDE DEF I
  <2>3. QED
    BY <1>1, <2>1, <2>2, OnlyPlace
<1>4. q = IF K = 0 THEN r ELSE [r EXCEPT !.sinks[p] = t]
  BY DEF RemSink
<1>5. /\ t \in Seq(Filter) /\ Len(t) = Len(s) - 1 /\ IsInjective(t)
      /\ ToSet(t) = ToSet(s) \ {f}
  BY <1>0, <1>2, <1>3, LastFillsGap
<1>. HIDE DEF t, q, K
<1>6. q = [r EXCEPT !.sinks[p] = t]
  BY <1>2, <1>3, <1>4
<1>7. q = [list |-> r.list, heap |-> r.heap, name |-> r.name, ref |-> r.ref,
           sinks |-> [r.sinks EXCEPT ![p] = t]]
  BY <1>6 DEF Registry
<1>8. [r.sinks EXCEPT ![p] = t] \in [Pipe -> Seq(Filter)]
  BY <1>0, <1>5
<1>9. /\ q \in Registry /\ q.list = r.list /\ q.heap = r.heap /\ q.name = r.name
      /\ q.ref = r.ref /\ q.sinks = [r.sinks EXCEPT ![p] = t]
  BY <1>0, <1>7, <1>8 DEF Registry
<1>10. Listed(q)
  BY <1>9 DEF Listed
<1>11. q.sinks[p] = t /\ \A x \in Pipe \ {p} : q.sinks[x] = r.sinks[x]
  BY <1>0, <1>9
<1>12. QED
  BY <1>5, <1>9, <1>10, <1>11 DEF q

-----------------------------------------------------------------------------
(* What the two calls on init and the two on exit (evf_pipe.h:16-22) do to *)
(* counts and sinks together.                                              *)

HeldBy(h, p) == {f \in Filter : h[f] = p}

Balanced(r, h) ==
    /\ r \in Registry
    /\ Listed(r)
    /\ h \in [Filter -> Pipe \cup {0}]
    /\ \A f \in Filter : h[f] \in r.heap \cup {0}
    /\ \A p \in r.heap :
          /\ r.ref[p] = Cardinality(HeldBy(h, p))
          /\ Len(r.sinks[p]) <= MaxSinks
          /\ IsInjective(r.sinks[p])
          /\ ToSet(r.sinks[p]) = HeldBy(h, p)

\* The holders of a pipe can be counted.
LEMMA HoldersFinite ==
  ASSUME NEW h, NEW p
  PROVE  /\ IsFiniteSet(HeldBy(h, p))
         /\ Cardinality(HeldBy(h, p)) \in Nat
         /\ Cardinality(HeldBy(h, p)) = 0 <=> HeldBy(h, p) = {}
<1>1. HeldBy(h, p) \in SUBSET Filter /\ IsFiniteSet(Filter)
  BY ConfigAssumption DEF HeldBy
<1>2. IsFiniteSet(HeldBy(h, p))
  BY <1>1, FS_Subset
<1>3. QED
  BY <1>2, FS_CardinalityType, FS_EmptySet

\* After evf_pipe_get() the pipe is there and counts one reference more than it
\* has holders; the sinks are those of the holders.
LEMMA GetBalanced ==
  ASSUME NEW r, NEW h, Balanced(r, h), NEW n \in Name, Got(r, n) # 0
  PROVE  LET p == Got(r, n)
             g == Get(r, n)
         IN  /\ g \in Registry /\ Listed(g)
             /\ p \in Pipe /\ p \in g.heap
             /\ \A f \in Filter : h[f] \in g.heap \cup {0}
             /\ g.ref[p] = Cardinality(HeldBy(h, p)) + 1
             /\ \A q \in g.heap :
                   /\ q # p => g.ref[q] = Cardinality(HeldBy(h, q))
                   /\ Len(g.sinks[q]) <= MaxSinks
                   /\ IsInjective(g.sinks[q])
                   /\ ToSet(g.sinks[q]) = HeldBy(h, q)
<1>. DEFINE p == Got(r, n)
            g == Get(r, n)
<1>1. /\ p \in Pipe /\ g \in Registry /\ Listed(g)
      /\ g.heap = r.heap \cup {p}
      /\ p \in r.heap => g.ref = [r.ref EXCEPT ![p] = @ + 1] /\ g.sinks = r.sinks
      /\ p \notin r.heap =>
            g.ref = [r.ref EXCEPT ![p] = 1] /\ g.sinks = [r.sinks EXCEPT ![p] = << >>]
  BY GetRegistry DEF Balanced
<1>2. /\ r.heap \in SUBSET Pipe /\ r.ref \in [Pipe -> Int] /\ r.sinks \in [Pipe -> Seq(Filter)]
      /\ p # 0
  BY DEF Balanced, Registry
<1>. HIDE DEF p, g
<1>3. \A f \in Filter : h[f] \in g.heap \cup {0}
  BY <1>1 DEF Balanced
<1>4. CASE p \in r.heap
  <2>1. g.heap = r.heap /\ g.sinks = r.sinks
    BY <1>1, <1>4
  <2>2. \A q \in r.heap : g.ref[q] = IF q = p THEN r.ref[q] + 1 ELSE r.ref[q]
    BY <1>1, <1>2, <1>4
  <2>3. QED
    BY <1>1, <1>3, <1>4, <2>1, <2>2 DEF Balanced, p, g
<1>5. CASE p \notin r.heap
  <2>1. HeldBy(h, p) = {}
    BY <1>2, <1>5 DEF Balanced, HeldBy
  <2>2. Cardinality(HeldBy(h, p)) = 0
    BY <2>1, HoldersFinite
  <2>3. /\ g.ref[p] = 1 /\ g.sinks[p] = << >>
        /\ \A q \in r.heap : q # p /\ g.ref[q] = r.ref[q] /\ g.sinks[q] = r.sinks[q]
    BY <1>1, <1>2, <1>5
  <2>4. Len(g.sinks[p]) <= MaxSinks
    BY <2>3, PipesAssumption
  <2>5. IsInjective(g.sinks[p]) /\ ToSet(g.sinks[p]) = {}
    BY <2>3 DEF IsInjective, ToSet
  <2>6. ASSUME NEW q \in r.heap
        PROVE  /\ g.ref[q] = Cardinality(HeldBy(h, q))
               /\ Len(g.sinks[q]) <= MaxSinks
               /\ IsInjective(g.sinks[q])
               /\ ToSet(g.sinks[q]) = HeldBy(h, q)
    BY <2>3 DEF Balanced
  <2>7. \A q \in g.heap : q = p \/ q \in r.heap
    BY <1>1
  <2>8. ASSUME NEW q \in g.heap
        PROVE  /\ q # p => g.ref[q] = Cardinality(HeldBy(h, q))
               /\ Len(g.sinks[q]) <= MaxSinks
               /\ IsInjective(g.sinks[q])
               /\ ToSet(g.sinks[q]) = HeldBy(h, q)
    <3>1. CASE q = p
      BY <2>1, <2>4, <2>5, <3>1
    <3>2. CASE q \in r.heap
      BY <2>6, <3>2
    <3>3. QED
      BY <2>7, <3>1, <3>2
  <2>9. p \in g.heap /\ g.ref[p] = Cardinality(HeldBy(h, p)) + 1
    BY <1>1, <2>2, <2>3
  <2>10. QED
    BY <1>1, <1>3, <2>8, <2>9 DEF p, g
<1>6. QED
  BY <1>4, <1>5

\* evf_from_pipe_alloc() with room in the pipe: the filter holds the pipe.
LEMMA AllocBalanced ==
  ASSUME NEW r, NEW h, Balanced(r, h), NEW n \in Name, Got(r, n) # 0,
         NEW f \in Filter, h[f] = 0, ~Full(Get(r, n), Got(r, n))
  PROVE  Balanced(AddSink(Get(r, n), Got(r, n), f), [h EXCEPT ![f] = Got(r, n)])
<1>. DEFINE p == Got(r, n)
            g == Get(r, n)
            s == AddSink(g, p, f)
            i == [h EXCEPT ![f] = p]
<1>1. /\ g \in Registry /\ Listed(g)
      /\ p \in Pipe /\ p \in g.heap
      /\ \A e \in Filter : h[e] \in g.heap \cup {0}
      /\ g.ref[p] = Cardinality(HeldBy(h, p)) + 1
      /\ \A q \in g.heap :
            /\ q # p => g.ref[q] = Cardinality(HeldBy(h, q))
            /\ Len(g.sinks[q]) <= MaxSinks
            /\ IsInjective(g.sinks[q])
            /\ ToSet(g.sinks[q]) = HeldBy(h, q)
  BY GetBalanced
<1>2. p # 0 /\ ~(Len(g.sinks[p]) >= MaxSinks) /\ h \in [Filter -> Pipe \cup {0}]
  BY DEF Full, Balanced
<1>. HIDE DEF p, g
<1>3. /\ s \in Registry /\ Listed(s) /\ s.heap = g.heap /\ s.ref = g.ref
      /\ s.sinks = [g.sinks EXCEPT ![p] = Append(@, f)]
  BY <1>1, AddSinkRegistry
<1>. HIDE DEF s
<1>4. g.sinks \in [Pipe -> Seq(Filter)] /\ g.heap \in SUBSET Pipe
  BY <1>1 DEF Registry
<1>5. /\ i \in [Filter -> Pipe \cup {0}]
      /\ \A e \in Filter : i[e] \in s.heap \cup {0}
      /\ HeldBy(i, p) = HeldBy(h, p) \cup {f}
      /\ f \notin HeldBy(h, p)
      /\ \A q \in g.heap \ {p} : q # 0 => HeldBy(i, q) = HeldBy(h, q)
  BY <1>1, <1>2, <1>3 DEF HeldBy
<1>6. \A q \in g.heap : q # 0
  BY <1>4, PipesAssumption
<1>. HIDE DEF i
<1>7. Cardinality(HeldBy(i, p)) = Cardinality(HeldBy(h, p)) + 1
  <2>1. IsFiniteSet(HeldBy(h, p))
    BY HoldersFinite
  <2>2. QED
    BY <1>5, <2>1, FS_AddElement
<1>8. ASSUME NEW q \in g.heap, q # p
      PROVE  /\ s.ref[q] = Cardinality(HeldBy(i, q))
             /\ Len(s.sinks[q]) <= MaxSinks
             /\ IsInjective(s.sinks[q])
             /\ ToSet(s.sinks[q]) = HeldBy(i, q)
  <2>1. s.sinks[q] = g.sinks[q] /\ HeldBy(i, q) = HeldBy(h, q)
    BY <1>3, <1>4, <1>5, <1>6, <1>8
  <2>2. QED
    BY <1>1, <1>3, <1>8, <2>1
<1>9. /\ s.ref[p] = Cardinality(HeldBy(i, p))
      /\ Len(s.sinks[p]) <= MaxSinks
      /\ IsInjective(s.sinks[p])
      /\ ToSet(s.sinks[p]) = HeldBy(i, p)
  <2>. DEFINE t == g.sinks[p]
  <2>1. s.sinks[p] = Append(t, f) /\ t \in Seq(Filter)
    BY <1>1, <1>3, <1>4
  <2>2. IsInjective(t) /\ ToSet(t) = HeldBy(h, p)
    BY <1>1
  <2>. HIDE DEF t
  <2>3. /\ Len(Append(t, f)) = Len(t) + 1 /\ DOMAIN Append(t, f) = 1..Len(t) + 1
        /\ DOMAIN t = 1..Len(t) /\ Len(t) \in Nat
        /\ Append(t, f)[Len(t) + 1] = f
        /\ \A j \in 1..Len(t) : Append(t, f)[j] = t[j] /\ t[j] \in ToSet(t)
    BY <2>1 DEF ToSet
  <2>4. Len(s.sinks[p]) <= MaxSinks
    BY <1>2, <2>1, <2>3, PipesAssumption DEF t
  <2>5. \A j \in 1..Len(t) : t[j] # f
    BY <1>5, <2>2, <2>3
  <2>6. \A j \in 1..Len(t) + 1 : j \in 1..Len(t) \/ j = Len(t) + 1
    BY <2>3
  <2>7. IsInjective(Append(t, f))
    BY <2>2, <2>3, <2>5, <2>6 DEF IsInjective
  <2>8. ToSet(Append(t, f)) = ToSet(t) \cup {f}
    BY <2>3, <2>6 DEF ToSet
  <2>9. QED
    BY <1>1, <1>3, <1>5, <1>7, <2>1, <2>2, <2>4, <2>7, <2>8
<1>10. QED
  BY <1>3, <1>5, <1>8, <1>9 DEF Balanced, s, i, p, g

\* evf_from_pipe_alloc() without room in the pipe: nothing has changed for those
\* that hold it.
LEMMA RefusalBalanced ==
  ASSUME NEW r, NEW h, Balanced(r, h), NEW n \in Name, Got(r, n) # 0
  PROVE  Balanced(Put(Get(r, n), Got(r, n)), h)
<1>. DEFINE p == Got(r, n)
            g == Get(r, n)
            s == Put(g, p)
<1>1. /\ g \in Registry /\ Listed(g)
      /\ p \in Pipe /\ p \in g.heap
      /\ \A e \in Filter : h[e] \in g.heap \cup {0}
      /\ g.ref[p] = Cardinality(HeldBy(h, p)) + 1
      /\ \A q \in g.heap :
            /\ q # p => g.ref[q] = Cardinality(HeldBy(h, q))
            /\ Len(g.sinks[q]) <= MaxSinks
            /\ IsInjective(g.sinks[q])
            /\ ToSet(g.sinks[q]) = HeldBy(h, q)
  BY GetBalanced
<1>. HIDE DEF p, g
<1>2. /\ s \in Registry /\ Listed(s)
      /\ s.ref = [g.ref EXCEPT ![p] = @ - 1]
      /\ s.sinks = g.sinks
      /\ \/ s.heap = g.heap
         \/ s.heap = g.heap \ {p} /\ g.ref[p] <= 1
  BY <1>1, PutRegistry
<1>. HIDE DEF s
<1>3. g.ref \in [Pipe -> Int] /\ g.heap \in SUBSET Pipe
  BY <1>1 DEF Registry
<1>4. Cardinality(HeldBy(h, p)) \in Nat
  BY HoldersFinite
<1>5. \A q \in s.heap : q \in g.heap /\ s.ref[q] = Cardinality(HeldBy(h, q))
  <2>. SUFFICES ASSUME NEW q \in s.heap
                PROVE  q \in g.heap /\ s.ref[q] = Cardinality(HeldBy(h, q))
    OBVIOUS
  <2>1. q \in g.heap
    BY <1>2
  <2>2. s.ref[q] = IF q = p THEN g.ref[q] - 1 ELSE g.ref[q]
    BY <1>1, <1>2, <1>3, <2>1
  <2>3. QED
    BY <1>1, <1>4, <2>1, <2>2
<1>6. \A e \in Filter : h[e] \in s.heap \cup {0}
  <2>1. CASE s.heap = g.heap
    BY <1>1, <2>1
  <2>2. CASE s.heap = g.heap \ {p} /\ g.ref[p] <= 1
    <3>1. Cardinality(HeldBy(h, p)) = 0
      BY <1>1, <1>4, <2>2
    <3>2. HeldBy(h, p) = {}
      BY <3>1, HoldersFinite
    <3>3. \A e \in Filter : h[e] # p
      BY <3>2 DEF HeldBy
    <3>4. QED
      BY <1>1, <2>2, <3>3
  <2>3. QED
    BY <1>2, <2>1, <2>2
<1>7. h \in [Filter -> Pipe \cup {0}]
  BY DEF Balanced
<1>8. \A q \in s.heap : /\ Len(s.sinks[q]) <= MaxSinks
                       /\ IsInjective(s.sinks[q])
                       /\ ToSet(s.sinks[q]) = HeldBy(h, q)
  BY <1>1, <1>2, <1>5
<1>9. QED
  BY <1>2, <1>5, <1>6, <1>7, <1>8 DEF Balanced, s, p, g

\* from_pipe_free(): the filter is no sink of its pipe any more and does not hold
\* it, and the pipe goes at the earliest with the last one.
LEMMA FreeBalanced ==
  ASSUME NEW r, NEW h, Balanced(r, h), NEW f \in Filter, h[f] # 0
  PROVE  Balanced(Put(RemSink(r, h[f], f), h[f]), [h EXCEPT ![f] = 0])
<1>. DEFINE p == h[f]
            g == RemSink(r, p, f)
            s == Put(g, p)
            i == [h EXCEPT ![f] = 0]
<1>0. /\ r \in Registry /\ Listed(r) /\ h \in [Filter -> Pipe \cup {0}]
      /\ p \in r.heap /\ p \in Pipe /\ p # 0
      /\ r.heap \in SUBSET Pipe /\ r.ref \in [Pipe -> Int]
  BY DEF Balanced, Registry
<1>1. f \in HeldBy(h, p) /\ ToSet(r.sinks[p]) = HeldBy(h, p) /\ IsInjective(r.sinks[p])
  BY <1>0 DEF Balanced, HeldBy
<1>2. /\ \A e \in Filter : e # f => i[e] = h[e]
      /\ i[f] = 0 /\ i \in [Filter -> Pipe \cup {0}]
  BY <1>0
<1>3. HeldBy(i, p) = HeldBy(h, p) \ {f}
  BY <1>0, <1>2 DEF HeldBy
<1>4. \A q \in Pipe \ {p} : HeldBy(i, q) = HeldBy(h, q)
  <2>. SUFFICES ASSUME NEW q \in Pipe \ {p}
                PROVE  HeldBy(i, q) = HeldBy(h, q)
    OBVIOUS
  <2>1. q # 0 /\ q # h[f]
    BY PipesAssumption
  <2>2. QED
    BY <1>2, <2>1 DEF HeldBy
<1>. HIDE DEF p, g, i
<1>5. /\ g \in Registry /\ Listed(g) /\ g.heap = r.heap /\ g.ref = r.ref
      /\ \A q \in Pipe \ {p} : g.sinks[q] = r.sinks[q]
      /\ Len(g.sinks[p]) = Len(r.sinks[p]) - 1
      /\ IsInjective(g.sinks[p])
      /\ ToSet(g.sinks[p]) = HeldBy(h, p) \ {f}
  BY <1>0, <1>1, RemSinkRegistry DEF g
<1>6. /\ s \in Registry /\ Listed(s)
      /\ s.ref = [r.ref EXCEPT ![p] = @ - 1]
      /\ s.sinks = g.sinks
      /\ \/ s.heap = r.heap
         \/ s.heap = r.heap \ {p} /\ r.ref[p] <= 1
  BY <1>0, <1>5, PutRegistry
<1>. HIDE DEF s
<1>7. Cardinality(HeldBy(i, p)) = r.ref[p] - 1 /\ Cardinality(HeldBy(i, p)) \in Nat
  <2>1. IsFiniteSet(HeldBy(h, p)) /\ r.ref[p] = Cardinality(HeldBy(h, p))
    BY <1>0, HoldersFinite DEF Balanced
  <2>2. Cardinality(HeldBy(h, p) \ {f}) = Cardinality(HeldBy(h, p)) - 1
    BY <1>1, <2>1, FS_RemoveElement
  <2>3. QED
    BY <1>3, <2>1, <2>2, HoldersFinite
<1>8. ASSUME NEW q \in s.heap
      PROVE  /\ s.ref[q] = Cardinality(HeldBy(i, q))
             /\ Len(s.sinks[q]) <= MaxSinks
             /\ IsInjective(s.sinks[q])
             /\ ToSet(s.sinks[q]) = HeldBy(i, q)
  <2>1. q \in r.heap /\ q \in Pipe
    BY <1>0, <1>6
  <2>2. CASE q = p
    <3>1. Len(r.sinks[p]) <= MaxSinks /\ r.sinks[p] \in Seq(Filter)
      BY <1>0 DEF Balanced, Registry
    <3>2. Len(s.sinks[q]) <= MaxSinks
      BY <1>5, <1>6, <2>2, <3>1, PipesAssumption
    <3>3. s.ref[q] = r.ref[p] - 1
      BY <1>0, <1>6, <2>2
    <3>4. QED
      BY <1>3, <1>5, <1>6, <1>7, <2>2, <3>2, <3>3
  <2>3. CASE q # p
    <3>1. s.ref[q] = r.ref[q] /\ s.sinks[q] = r.sinks[q] /\ HeldBy(i, q) = HeldBy(h, q)
      BY <1>0, <1>4, <1>5, <1>6, <2>1, <2>3
    <3>2. QED
      BY <2>1, <3>1 DEF Balanced
  <2>4. QED
    BY <2>2, <2>3
<1>9. \A e \in Filter : i[e] \in s.heap \cup {0}
  <2>. SUFFICES ASSUME NEW e \in Filter  PROVE i[e] \in s.heap \cup {0}
    OBVIOUS
  <2>1. i[e] \in r.heap \cup {0}
    BY <1>2 DEF Balanced
  <2>2. CASE s.heap = r.heap
    BY <2>1, <2>2
  <2>3. CASE s.heap = r.heap \ {p} /\ r.ref[p] <= 1
    <3>1. Cardinality(HeldBy(i, p)) = 0
      BY <1>0, <1>7, <2>3
    <3>2. HeldBy(i, p) = {}
      BY <3>1, HoldersFinite
    <3>3. i[e] # p
      BY <3>2 DEF HeldBy
    <3>4. QED
      BY <2>1, <2>3, <3>3
  <2>4. QED
    BY <1>6, <2>2, <2>3
<1>10. QED
  BY <1>2, <1>6, <1>8, <1>9 DEF Balanced, s, g, i, p

-----------------------------------------------------------------------------
(* The inductive invariant: the lists of the program have filters in them, *)
(* and memory that is not in use holds no pipe.                            *)

ListsTyped ==
    /\ line \in [Device -> Seq(Filter)]
    /\ filters \in Seq(Filter)
    /\ tmp \in Seq(Filter)
    /\ doomed \in Seq(Filter)

FreeHoldsNone ==
    /\ conf \in [Filter -> Name \cup {Plain, None}]
    /\ \A f \in Filter : conf[f] = None => held[f] = 0

IInv == Balanced(reg, held) /\ FreeHoldsNone /\ ListsTyped

\* No line, no filter and no pipe.
LEMMA InitIInv == Init => IInv
<1>. SUFFICES ASSUME Init  PROVE IInv
  OBVIOUS
<1>1. ListsTyped /\ FreeHoldsNone
  BY DEF Init, ListsTyped, FreeHoldsNone
<1>2. /\ reg.list = << >> /\ reg.heap = {} /\ reg \in Registry
  <2>1. (CHOOSE n \in Name : TRUE) \in Name
    BY PipesAssumption
  <2>2. [p \in Pipe |-> CHOOSE n \in Name : TRUE] \in [Pipe -> Name]
    BY <2>1
  <2>3. /\ [p \in Pipe |-> 0] \in [Pipe -> Int]
        /\ [p \in Pipe |-> << >>] \in [Pipe -> Seq(Filter)]
        /\ << >> \in Seq(Pipe)
    OBVIOUS
  <2>4. QED
    BY <2>2, <2>3 DEF Init, NoPipes, Registry
<1>3. Balanced(reg, held)
  BY <1>2 DEF Init, Balanced, Listed
<1>4. QED
  BY <1>1, <1>3 DEF IInv

\* The address malloc() returns is one of free memory.
LEMMA NewFilterFree ==
  ASSUME IInv, Memory
  PROVE  NewFilter \in Filter /\ conf[NewFilter] = None /\ held[NewFilter] = 0
BY DEF IInv, FreeHoldsNone, Memory, NewFilter

\* A filter of a file is made or refused.
LEMMA LoadIInv == IInv /\ LoadFilter => IInv'
<1>. SUFFICES ASSUME IInv, LoadFilter  PROVE IInv'
  OBVIOUS
<1>. DEFINE n == Head(todo)
            f == NewFilter
<1>1. ASSUME GiveUp  PROVE ListsTyped' /\ conf' = conf /\ held' = held
  BY <1>1 DEF GiveUp, Free, IInv, ListsTyped, LoadFilter, profileVars
<1>2. ASSUME Memory, NEW c \in Name \cup {Plain}, Link(c)
      PROVE  /\ ListsTyped'
             /\ conf' = [conf EXCEPT ![f] = c]
  <2>1. f \in Filter
    BY <1>2, NewFilterFree
  <2>2. QED
    BY <1>2, <2>1 DEF Link, freeVars, lineVars, IInv, ListsTyped, LoadFilter, profileVars
<1>3. CASE GiveUp /\ UNCHANGED reg
  <2>1. Balanced(reg, held)' /\ FreeHoldsNone'
    BY <1>1, <1>3 DEF IInv, FreeHoldsNone
  <2>2. QED
    BY <1>1, <1>3, <2>1 DEF IInv
<1>4. CASE n = Plain /\ Memory /\ Link(Plain) /\ UNCHANGED <<reg, held>>
  <2>1. ListsTyped' /\ conf' = [conf EXCEPT ![f] = Plain] /\ f \in Filter /\ held[f] = 0
    BY <1>2, <1>4, NewFilterFree
  <2>2. FreeHoldsNone'
    BY <1>4, <2>1 DEF IInv, FreeHoldsNone
  <2>3. QED
    BY <1>4, <2>1, <2>2 DEF IInv
<1>5. CASE n \in Name /\ Memory /\ FromPipe(n)
  <2>. DEFINE p == Got(reg, n)
              g == Get(reg, n)
  <2>1. f \in Filter /\ conf[f] = None /\ held[f] = 0
    BY <1>5, NewFilterFree
  <2>2. CASE /\ p # 0 /\ ~Full(g, p) /\ Link(n)
             /\ held' = [held EXCEPT ![f] = p] /\ reg' = AddSink(g, p, f)
    <3>1. Balanced(reg', held')
      BY <1>5, <2>1, <2>2, AllocBalanced DEF IInv
    <3>2. ListsTyped' /\ conf' = [conf EXCEPT ![f] = n]
      BY <1>2, <1>5, <2>2
    <3>3. FreeHoldsNone'
      BY <1>5, <2>1, <2>2, <3>2, ConfigAssumption DEF IInv, FreeHoldsNone, Balanced
    <3>4. QED
      BY <3>1, <3>2, <3>3 DEF IInv
  <2>3. CASE p # 0 /\ Full(g, p) /\ GiveUp /\ reg' = Put(g, p)
    <3>1. ListsTyped' /\ conf' = conf /\ held' = held
      BY <1>1, <2>3
    <3>2. Balanced(reg', held')
      BY <1>5, <2>3, <3>1, RefusalBalanced DEF IInv
    <3>3. FreeHoldsNone'
      BY <3>1 DEF IInv, FreeHoldsNone
    <3>4. QED
      BY <3>1, <3>2, <3>3 DEF IInv
  <2>4. CASE p = 0 /\ GiveUp /\ UNCHANGED reg
    BY <1>3, <2>4
  <2>5. QED
    BY <1>5, <2>2, <2>3, <2>4 DEF FromPipe
<1>6. QED
  BY <1>3, <1>4, <1>5 DEF LoadFilter

\* A filter is freed; one that is not of type from_pipe holds nothing.
LEMMA FreeIInv == IInv /\ FreeFilter => IInv'
<1>. SUFFICES ASSUME IInv, FreeFilter  PROVE IInv'
  OBVIOUS
<1>. DEFINE f == Head(doomed)
<1>1. f \in Filter /\ ListsTyped'
  BY DEF IInv, ListsTyped, FreeFilter, lineVars, profileVars, fileVars
<1>2. /\ reg' = IF held[f] = 0 THEN reg ELSE Put(RemSink(reg, held[f], f), held[f])
      /\ held' = [held EXCEPT ![f] = 0]
      /\ conf' = [conf EXCEPT ![f] = None]
  BY DEF FreeFilter
<1>3. held \in [Filter -> Pipe \cup {0}]
  BY DEF IInv, Balanced
<1>. HIDE DEF f
<1>4. FreeHoldsNone'
  BY <1>1, <1>2, <1>3 DEF IInv, FreeHoldsNone
<1>5. Balanced(reg', held')
  <2>1. CASE held[f] = 0
    <3>1. held' = held
      BY <1>1, <1>2, <1>3, <2>1
    <3>2. QED
      BY <1>2, <2>1, <3>1 DEF IInv
  <2>2. CASE held[f] # 0
    BY <1>1, <1>2, <2>2, FreeBalanced DEF IInv
  <2>3. QED
    BY <2>1, <2>2
<1>6. QED
  BY <1>1, <1>4, <1>5 DEF IInv

\* All other steps move lists about.
LEMMA NextIInv == IInv /\ [Next]_vars => IInv'
<1>. SUFFICES ASSUME IInv, [Next]_vars  PROVE IInv'
  OBVIOUS
<1>. USE DEF filterVars, lineVars, profileVars, fileVars, freeVars, Free
<1>1. ASSUME UNCHANGED filterVars, ListsTyped'  PROVE IInv'
  BY <1>1 DEF IInv, FreeHoldsNone
<1>2. ASSUME NEW d \in Device, Create(d)  PROVE IInv'
  BY <1>1, <1>2 DEF Create, IInv, ListsTyped
<1>3. ASSUME NEW d \in Device, Destroy(d)  PROVE IInv'
  BY <1>1, <1>3 DEF Destroy, IInv, ListsTyped
<1>4. CASE Match
  BY <1>1, <1>4 DEF Match, IInv, ListsTyped
<1>5. CASE Skip
  BY <1>1, <1>5 DEF Skip, IInv, ListsTyped
<1>6. CASE Open
  BY <1>1, <1>6 DEF Open, IInv, ListsTyped
<1>7. CASE FileDone
  <2>0. ListsTyped
    BY DEF IInv
  <2>1. UNCHANGED filterVars /\ tmp' = << >> /\ line' = line
    BY <1>7 DEF FileDone
  <2>2. filters' \in Seq(Filter) /\ doomed' \in Seq(Filter)
    <3>1. CASE err
      BY <1>7, <2>0, <3>1 DEF FileDone, ListsTyped
    <3>2. CASE ~err
      <4>1. filters' = filters \o tmp /\ doomed' = doomed
        BY <1>7, <3>2 DEF FileDone
      <4>2. QED
        BY <2>0, <4>1 DEF ListsTyped
    <3>3. QED
      BY <3>1, <3>2
  <2>3. ListsTyped'
    BY <2>0, <2>1, <2>2 DEF ListsTyped
  <2>4. QED
    BY <1>1, <2>1, <2>3
<1>8. CASE CreateDone
  <2>0. ListsTyped
    BY DEF IInv
  <2>1. /\ UNCHANGED filterVars /\ tmp' = tmp /\ doomed' = doomed /\ filters' = << >>
        /\ line' = [line EXCEPT ![dev] = filters]
    BY <1>8 DEF CreateDone
  <2>2. line' \in [Device -> Seq(Filter)]
    BY <2>0, <2>1 DEF ListsTyped
  <2>3. ListsTyped'
    BY <2>0, <2>1, <2>2 DEF ListsTyped
  <2>4. QED
    BY <1>1, <2>1, <2>3
<1>9. CASE FreeDone
  BY <1>1, <1>9 DEF FreeDone, IInv, ListsTyped
<1>10. CASE UNCHANGED vars
  BY <1>1, <1>10 DEF vars, IInv, ListsTyped
<1>11. QED
  BY <1>2, <1>3, <1>4, <1>5, <1>6, <1>7, <1>8, <1>9, <1>10, LoadIInv, FreeIInv DEF Next

\* The invariant holds in all states of all behaviours.
THEOREM Invariance == Spec => []IInv
<1>1. Init => IInv
  BY InitIInv
<1>2. IInv /\ [Next]_vars => IInv'
  BY NextIInv
<1>3. QED
  BY <1>1, <1>2, PTL DEF Spec

\* Pipes are counted and looked up right.
THEOREM PipesCounted == Spec => []RefsCounted
<1>1. IInv => RefsCounted
  <2>. SUFFICES ASSUME IInv  PROVE RefsCounted
    OBVIOUS
  <2>1. \A p : Holders(p) = HeldBy(held, p)
    BY DEF Holders, HeldBy
  <2>2. QED
    BY <2>1 DEF IInv, Balanced, Listed, RefsCounted
<1>2. QED
  BY <1>1, Invariance, PTL

\* An event in a pipe goes to each filter that holds it, once, and to no other.
THEOREM SinksAreHolders == Spec => []SinksHeld
<1>1. IInv => SinksHeld
  <2>. SUFFICES ASSUME IInv  PROVE SinksHeld
    OBVIOUS
  <2>1. \A p : Holders(p) = HeldBy(held, p)
    BY DEF Holders, HeldBy
  <2>2. QED
    BY <2>1 DEF IInv, Balanced, SinksHeld
<1>2. QED
  BY <1>1, Invariance, PTL

-----------------------------------------------------------------------------
(* FlattenSeq, a function defined by recursion: that it is there for every *)
(* length, and what one more sequence does, by the least place at which it *)
(* would be otherwise.                                                     *)

\* The natural numbers are well-founded: a set of them has a least element.
LEMMA LeastElement ==
  ASSUME NEW S \in SUBSET Nat, S # {}
  PROVE  \E m \in S : \A x \in S : m <= x
<1>. DEFINE R == {rr \in Nat \X Nat : rr[1] < rr[2]}
<1>1. OpToRel(<, Nat) = R
  BY DEF OpToRel
<1>2. IsWellFoundedOn(R, Nat)
  BY <1>1, NatLessThanWellFounded
<1>3. \A x, y \in Nat : x < y => <<x, y>> \in R
  OBVIOUS
<1>. HIDE DEF R
<1>4. \A R_1, S_1, T :
         IsWellFoundedOn(R_1, S_1) /\ T \subseteq S_1 /\ T # {}
            => \E x \in T : \A y \in T : ~ (<<y, x>> \in R_1)
  BY WFMin
<1>5. PICK m \in S : \A y \in S : ~ (<<y, m>> \in R)
  BY <1>2, <1>4
<1>6. ASSUME NEW x \in S  PROVE m <= x
  <2>1. x \in Nat /\ m \in Nat
    OBVIOUS
  <2>2. ~ (x < m)
    BY <1>3, <1>5, <2>1, Zenon
  <2>3. QED
    BY <2>1, <2>2
<1>7. QED
  BY <1>6

\* g[i] is what the first i sequences of s make when they are joined.
Joins(g, s, n) ==
    g = [i \in 1..n |-> IF i = 1 THEN s[i] ELSE g[i - 1] \o s[i]]

\* The joins of s up to its n-th place are there, for every n.
LEMMA JoinsExist ==
  ASSUME NEW T, NEW s, NEW n \in Nat, \A i \in 1..n : s[i] \in Seq(T)
  PROVE  \E g \in [1..n -> Seq(T)] : Joins(g, s, n)
<1>. DEFINE OK(m) == \E g \in [1..m -> Seq(T)] : Joins(g, s, m)
            B == {m \in 0..n : ~OK(m)}
<1>1. SUFFICES ASSUME B # {}  PROVE FALSE
  OBVIOUS
<1>2. B \in SUBSET Nat
  OBVIOUS
<1>3. PICK m \in B : \A x \in B : m <= x
  <2>. HIDE DEF B
  <2>1. QED
    BY <1>1, <1>2, LeastElement
<1>4. m \in 0..n /\ ~OK(m)
  OBVIOUS
<1>5. m # 0
  <2>. DEFINE g == [i \in 1..0 |-> << >>]
  <2>1. g \in [1..0 -> Seq(T)] /\ Joins(g, s, 0)
    BY DEF Joins
  <2>2. QED
    BY <1>4, <2>1
<1>6. OK(m - 1)
  <2>1. m - 1 \in 0..n /\ ~(m <= m - 1)
    BY <1>4, <1>5
  <2>2. \A x \in 0..n : ~OK(x) => m <= x
    BY <1>3
  <2>. HIDE DEF OK
  <2>3. QED
    BY <2>1, <2>2
<1>7. PICK g \in [1..m - 1 -> Seq(T)] : Joins(g, s, m - 1)
  BY <1>6
<1>. DEFINE h == [i \in 1..m |-> IF i = m THEN IF m = 1 THEN s[m] ELSE g[m - 1] \o s[m]
                                 ELSE g[i]]
<1>8. h \in [1..m -> Seq(T)]
  <2>. SUFFICES ASSUME NEW i \in 1..m  PROVE h[i] \in Seq(T)
    OBVIOUS
  <2>1. CASE i = m /\ m = 1
    BY <1>4, <2>1
  <2>2. CASE i = m /\ m # 1
    <3>1. g[m - 1] \in Seq(T) /\ s[m] \in Seq(T)
      BY <1>4, <1>5, <2>2
    <3>2. g[m - 1] \o s[m] \in Seq(T)
      BY <3>1
    <3>3. QED
      BY <2>2, <3>2
  <2>3. CASE i # m
    BY <1>4, <2>3
  <2>4. QED
    BY <2>1, <2>2, <2>3
<1>9. ASSUME NEW i \in 1..m  PROVE h[i] = IF i = 1 THEN s[i] ELSE h[i - 1] \o s[i]
  <2>1. CASE i = m
    BY <1>4, <1>5, <2>1
  <2>2. CASE i # m
    <3>1. i \in 1..m - 1 /\ h[i] = g[i]
      BY <1>4, <2>2
    <3>2. g[i] = IF i = 1 THEN s[i] ELSE g[i - 1] \o s[i]
      BY <1>7, <3>1 DEF Joins
    <3>3. i # 1 => h[i - 1] = g[i - 1]
      BY <1>4, <3>1
    <3>4. QED
      BY <3>1, <3>2, <3>3
  <2>3. QED
    BY <2>1, <2>2
<1>10. Joins(h, s, m)
  BY <1>9 DEF Joins
<1>11. QED
  BY <1>4, <1>8, <1>10

\* t has something in its k-th place, where s has nothing; neither has anything
\* behind it.
FillsPlace(T, n, k, s, t) ==
    /\ DOMAIN s = 1..n /\ Len(s) = n
    /\ DOMAIN t = 1..n /\ Len(t) = n
    /\ \A i \in 1..n : s[i] \in Seq(T) /\ t[i] \in Seq(T)
    /\ \A i \in 1..n : i # k => s[i] = t[i]
    /\ \A i \in k..n : s[i] = << >>
    /\ \A i \in k + 1..n : t[i] = << >>

\* h joins x as well, from the k-th place on.
JoinsToo(T, g, h, n, k, x) ==
    \A i \in 1..n : g[i] \in Seq(T) /\ h[i] = IF i < k THEN g[i] ELSE g[i] \o x

\* The joins of t have what is there in addition, from that place on.
LEMMA JoinsDiffer ==
  ASSUME NEW T, NEW n \in Nat, NEW k \in 1..n, NEW s, NEW t, FillsPlace(T, n, k, s, t),
         NEW g, Joins(g, s, n),
         NEW h, Joins(h, t, n)
  PROVE  JoinsToo(T, g, h, n, k, t[k])
<1>0. /\ \A i \in 1..n : s[i] \in Seq(T) /\ t[i] \in Seq(T)
      /\ \A i \in 1..n : i # k => s[i] = t[i]
      /\ \A i \in k..n : s[i] = << >>
      /\ \A i \in k + 1..n : t[i] = << >>
  BY DEF FillsPlace
<1>. DEFINE P(i) == /\ g[i] \in Seq(T)
                    /\ h[i] = IF i < k THEN g[i] ELSE g[i] \o t[k]
            B == {i \in 1..n : ~P(i)}
<1>1. SUFFICES ASSUME B # {}  PROVE FALSE
  BY DEF JoinsToo
<1>2. B \in SUBSET Nat
  OBVIOUS
<1>3. PICK i \in B : \A x \in B : i <= x
  <2>. HIDE DEF B
  <2>1. QED
    BY <1>1, <1>2, LeastElement
<1>4. \A j \in 1..n : j < i => P(j)
  <2>1. \A j \in 1..n : ~P(j) => i <= j
    BY <1>3
  <2>2. i \in 1..n
    OBVIOUS
  <2>. HIDE DEF P
  <2>3. QED
    BY <2>1, <2>2
<1>5. i \in 1..n /\ ~P(i)
  OBVIOUS
<1>. HIDE DEF B
<1>6. /\ g[i] = IF i = 1 THEN s[i] ELSE g[i - 1] \o s[i]
      /\ h[i] = IF i = 1 THEN t[i] ELSE h[i - 1] \o t[i]
  BY <1>5 DEF Joins
<1>7. s[i] \in Seq(T) /\ t[i] \in Seq(T) /\ t[k] \in Seq(T)
  BY <1>0, <1>5
<1>8. \A x, y \in Seq(T) : x \o y \in Seq(T)
  BY ConcatProperties
<1>9. \A x \in Seq(T) : x \o << >> = x /\ << >> \o x = x
  OBVIOUS
<1>10. /\ i < k => s[i] = t[i] /\ s[i] = t[i]
       /\ i = k => s[i] = << >> /\ t[i] = t[k]
       /\ i > k => s[i] = << >> /\ t[i] = << >>
  BY <1>0, <1>5
<1>11. CASE i = 1
  <2>1. g[i] = s[i] /\ h[i] = t[i]
    BY <1>6, <1>11
  <2>2. i < k \/ i = k
    BY <1>11
  <2>3. CASE i < k
    BY <1>5, <1>7, <1>10, <2>1, <2>3
  <2>4. CASE i = k
    <3>1. g[i] = << >> /\ h[i] = t[k]
      BY <1>10, <2>1, <2>4
    <3>2. h[i] = g[i] \o t[k]
      BY <1>7, <1>9, <3>1
    <3>3. ~(i < k)
      BY <2>4
    <3>4. QED
      BY <1>5, <1>7, <2>1, <3>2, <3>3
  <2>5. QED
    BY <2>2, <2>3, <2>4
<1>12. CASE i # 1
  <2>1. P(i - 1)
    <3>1. i - 1 \in 1..n /\ i - 1 < i
      BY <1>5, <1>12
    <3>. HIDE DEF P
    <3>2. QED
      BY <1>4, <3>1
  <2>2. g[i - 1] \in Seq(T) /\ h[i - 1] = IF i - 1 < k THEN g[i - 1] ELSE g[i - 1] \o t[k]
    BY <2>1
  <2>3. g[i] = g[i - 1] \o s[i] /\ h[i] = h[i - 1] \o t[i] /\ g[i] \in Seq(T)
    BY <1>6, <1>7, <1>8, <1>12, <2>2
  <2>4. CASE i < k
    <3>1. h[i - 1] = g[i - 1]
      BY <1>5, <2>2, <2>4
    <3>2. QED
      BY <1>5, <1>10, <2>3, <2>4, <3>1
  <2>5. CASE i = k
    <3>1. h[i - 1] = g[i - 1]
      BY <1>5, <2>2, <2>5
    <3>2. g[i] = g[i - 1] /\ h[i] = g[i - 1] \o t[k]
      BY <1>9, <1>10, <2>2, <2>3, <2>5, <3>1
    <3>3. ~(i < k)
      BY <2>5
    <3>4. QED
      BY <1>5, <2>3, <3>2, <3>3
  <2>6. CASE i > k
    <3>1. h[i - 1] = g[i - 1] \o t[k]
      <4>1. ~(i - 1 < k)
        BY <1>5, <2>6
      <4>2. QED
        BY <2>2, <4>1
    <3>2. g[i] = g[i - 1] /\ h[i] = g[i - 1] \o t[k]
      BY <1>7, <1>8, <1>9, <1>10, <2>2, <2>3, <2>6, <3>1
    <3>3. ~(i < k)
      BY <1>5, <2>6
    <3>4. QED
      BY <1>5, <2>3, <3>2, <3>3
  <2>7. QED
    BY <1>5, <2>4, <2>5, <2>6
<1>13. QED
  BY <1>11, <1>12

\* What FlattenSeq returns is the last of the joins.
LEMMA FlattenIsJoin ==
  ASSUME NEW T, NEW n \in Nat \ {0}, NEW s, DOMAIN s = 1..n, Len(s) = n,
         \A i \in 1..n : s[i] \in Seq(T)
  PROVE  \E g : Joins(g, s, n) /\ FlattenSeq(s) = g[n]
<1>. DEFINE c == CHOOSE g : g = [i \in 1..n |-> IF i = 1 THEN s[i] ELSE g[i - 1] \o s[i]]
<1>1. \E g : g = [i \in 1..n |-> IF i = 1 THEN s[i] ELSE g[i - 1] \o s[i]]
  <2>1. PICK g \in [1..n -> Seq(T)] : Joins(g, s, n)
    BY JoinsExist
  <2>2. QED
    BY <2>1 DEF Joins
<1>2. c = [i \in 1..n |-> IF i = 1 THEN s[i] ELSE c[i - 1] \o s[i]]
  BY <1>1
<1>3. FlattenSeq(s) = c[n]
  <2>1. ~(Len(s) = 0)
    OBVIOUS
  <2>2. QED
    BY <2>1 DEF FlattenSeq
<1>4. QED
  BY <1>2, <1>3 DEF Joins

\* FlattenSeq gives for t what it gives for s, and x.
FlattensToo(s, t, x) == FlattenSeq(t) = FlattenSeq(s) \o x

\* What comes in an empty place, with nothing behind it, is appended.
LEMMA FlattenAppends ==
  ASSUME NEW T, NEW n \in Nat, NEW k \in 1..n,
         NEW s, NEW t, FillsPlace(T, n, k, s, t)
  PROVE  FlattensToo(s, t, t[k])
<1>1. /\ n \in Nat \ {0} /\ n \in 1..n /\ ~(n < k)
      /\ \A i \in 1..n : s[i] \in Seq(T) /\ t[i] \in Seq(T)
      /\ DOMAIN s = 1..n /\ Len(s) = n
      /\ DOMAIN t = 1..n /\ Len(t) = n
  BY DEF FillsPlace
<1>2. PICK g : Joins(g, s, n) /\ FlattenSeq(s) = g[n]
  BY <1>1, FlattenIsJoin
<1>3. PICK h : Joins(h, t, n) /\ FlattenSeq(t) = h[n]
  BY <1>1, FlattenIsJoin
<1>4. JoinsToo(T, g, h, n, k, t[k])
  BY <1>2, <1>3, JoinsDiffer
<1>5. h[n] = g[n] \o t[k]
  BY <1>1, <1>4 DEF JoinsToo
<1>6. QED
  BY <1>2, <1>3, <1>5 DEF FlattensToo

\* Nothing makes nothing.
LEMMA FlattenNothing ==
  ASSUME NEW n \in Nat, NEW s, DOMAIN s = 1..n, Len(s) = n, s \in Seq({<< >>}),
         \A i \in 1..n : s[i] = << >>
  PROVE  FlattenSeq(s) = << >>
<1>1. CASE n = 0
  <2>1. FlattenSeq(s) = s
    BY <1>1 DEF FlattenSeq
  <2>2. s = << >>
    BY <1>1
  <2>3. QED
    BY <2>1, <2>2
<1>2. CASE n # 0
  <2>. DEFINE z == [i \in 1..n |-> << >>]
  <2>1. n \in Nat \ {0} /\ n \in 1..n /\ 1 \in 1..n /\ ~(n < 1)
    BY <1>2
  <2>2. << >> \in Seq({}) /\ \A i \in 1..n : s[i] \in Seq({})
    BY EmptySeq
  <2>3. PICK h : Joins(h, s, n) /\ FlattenSeq(s) = h[n]
    BY <2>1, <2>2, FlattenIsJoin
  <2>4. Joins(z, s, n)
    <3>1. << >> \o << >> = << >>
      OBVIOUS
    <3>2. ASSUME NEW i \in 1..n  PROVE z[i] = IF i = 1 THEN s[i] ELSE z[i - 1] \o s[i]
      BY <3>1
    <3>3. QED
      BY <3>2 DEF Joins
  <2>5. z[n] = << >>
    BY <2>1
  <2>. HIDE DEF z
  <2>6. JoinsToo({}, z, h, n, 1, s[1])
    <3>1. FillsPlace({}, n, 1, s, s)
      BY <2>2 DEF FillsPlace
    <3>2. QED
      BY <2>1, <2>3, <2>4, <3>1, JoinsDiffer
  <2>7. h[n] = << >> \o << >>
    BY <2>1, <2>5, <2>6 DEF JoinsToo
  <2>8. QED
    BY <2>3, <2>7
<1>3. QED
  BY <1>1, <1>2

-----------------------------------------------------------------------------
(* The second invariant: where the program is, what it has matched, whose  *)
(* each filter is and what the lists are made of.                          *)

\* Where the program goes on when there is nothing left to free.
At == IF pc = "free" THEN after ELSE pc

\* The lists of the program are used in turn, and the line is not there while it
\* is created.
Phase ==
    /\ pc \in {"idle", "profile", "file", "free"} /\ after \in {"idle", "file"}
    /\ profile \in Profiles /\ dev \in Device /\ pos \in 1..Len(profile) + 1
    /\ matched \in {-1, 0, 1}
    /\ todo \in Seq(Name \cup {Plain, Bad})
    /\ refused \in [Device -> SUBSET Nat]
    /\ pc # "file" => tmp = << >> /\ todo = << >>
    /\ pc # "free" => doomed = << >>
    /\ At = "idle" => filters = << >>
    /\ At # "idle" => line[dev] = << >>
    /\ At = "file" => pos <= Len(profile) /\ IsFile(pos) /\ matched # 0

\* A File line at n of profile p would be for d.
Follows(p, d, n) ==
    \E j \in 1..n - 1 :
        /\ p[j].type # "File" /\ Matches(d, p[j])
        /\ \A k \in j + 1..n - 1 :
              p[k].type = "File" => \A i \in k..n - 1 : p[i].type = "File"

\* A rule before n matches, and no File line comes between.
RuleLast(p, d, n) ==
    \E j \in 1..n - 1 :
        /\ p[j].type # "File" /\ Matches(d, p[j])
        /\ \A k \in j + 1..n - 1 : p[k].type # "File"

\* has_matched says whether a File line would be for the device.
Rules ==
    At # "idle" =>
        \/ matched = 0 /\ ~Follows(profile, dev, pos)
        \/ matched = 1 /\ RuleLast(profile, dev, pos)
        \/ /\ matched = -1 /\ Follows(profile, dev, pos)
           /\ pos > 1 /\ profile[pos - 1].type = "File"

\* Whose a filter is: the line's of a device, or one of the lists'.
Owner == Device \cup Work

Own == [o \in Owner |->
          CASE o = "filters" -> ToSet(filters)
            [] o = "tmp" -> ToSet(tmp)
            [] o = "doomed" -> ToSet(doomed)
            [] o = "leaked" -> leaked
            [] OTHER -> ToSet(line[o])]

\* Exactly the filters with a configuration in c have an owner in own, and no two.
OwnedOnce(own, c) ==
    /\ \A a, b \in Owner : a # b => own[a] \cap own[b] = {}
    /\ \A f \in Filter : c[f] # None <=> \E o \in Owner : f \in own[o]

Owned == OwnedOnce(Own, conf) /\ \A l \in Lists : IsInjective(l)

\* The places of the File lines that are for d.
Due(d) == {i \in 1..Len(profile) : For(d, i)}

\* The filters of the files at those places of p that are in w and before n.
Parts(p, w, n) ==
    [i \in 1..Len(p) |-> IF i \in w /\ i < n THEN Files[p[i].file] ELSE << >>]

\* What the filters of l are, by their configurations c.
Kinds(c, l) == [k \in 1..Len(l) |-> c[l[k]]]

\* They are those of the files.
Whole(p, w, n, c, l) ==
    /\ \A i \in w : i < n => Files[p[i].file] # Missing
    /\ Kinds(c, l) = FlattenSeq(Parts(p, w, n))

\* A line has the filters of all files that are for its device,
LinesDone ==
    \A d \in Device : line[d] # << >> =>
        Whole(profile, Due(d) \ refused[d], Len(profile) + 1, conf, line[d])

\* filters has those of the files before pos,
ProfileSoFar ==
    At # "idle" =>
        /\ refused[dev] \subseteq 1..pos
        /\ pos \in refused[dev] => At = "file"
        /\ Whole(profile, Due(dev) \ refused[dev], pos, conf, filters)

\* and tmp those of the current file up to todo, unless it was refused.
FileSoFar ==
    At = "file" /\ ~err =>
        IF pos \in refused[dev] THEN tmp = << >> /\ todo = << >>
        ELSE /\ pc = "file" /\ Files[Line.file] # Missing
             /\ Kinds(conf, tmp) \o todo = Files[Line.file]

Content == LinesDone /\ ProfileSoFar /\ FileSoFar

LInv == Phase /\ Rules /\ Owned /\ Content

\* What the assumption on the profiles says of one of them.
LEMMA ProfileTyped ==
  ASSUME NEW p \in Profiles
  PROVE  /\ Len(p) \in Nat
         /\ \A i \in 1..Len(p) :
               p[i].type = "File" =>
                  \/ Files[p[i].file] = Missing
                  \/ Files[p[i].file] \in Seq(Name \cup {Plain, Bad})
<1>. DEFINE A == [type : {"File"}, file : DOMAIN Files]
            B == [type : STRING \ {"File"}, value : STRING]
<1>1. p \in Seq(A \cup B)
  BY ProfilesAssumption
<1>2. Len(p) \in Nat /\ \A i \in 1..Len(p) : p[i] \in A \cup B
  <2>. HIDE DEF A, B
  <2>1. QED
    BY <1>1
<1>3. \A x \in B : x.type # "File"
  OBVIOUS
<1>4. \A x \in A : x.file \in DOMAIN Files
  OBVIOUS
<1>. HIDE DEF A, B
<1>5. \A i \in 1..Len(p) : p[i].type = "File" => p[i].file \in DOMAIN Files
  BY <1>2, <1>3, <1>4
<1>6. QED
  BY <1>2, <1>5, ProfilesAssumption

-----------------------------------------------------------------------------
(* Phase and Rules                                                         *)

\* Where nothing has happened yet.
LEMMA InitPhase == Init => Phase /\ Rules
<1>. SUFFICES ASSUME Init  PROVE Phase /\ Rules
  OBVIOUS
<1>1. At = "idle"
  BY DEF Init, At
<1>2. Len(profile) \in Nat
  BY ProfileTyped DEF Init
<1>3. QED
  BY <1>1, <1>2 DEF Init, Phase, Rules

\* A file is loaded from one to the next filter.
LEMMA LoadPhase ==
  ASSUME Phase, LoadFilter
  PROVE  /\ Phase' /\ profile' = profile /\ dev' = dev /\ pos' = pos /\ matched' = matched
         /\ At = "file" /\ At' = "file" /\ err' = err /\ line' = line /\ filters' = filters
<1>1. /\ pc = "file" /\ todo # << >>
      /\ UNCHANGED <<profile, dev, pos, matched, filters, err>>
  BY DEF LoadFilter, profileVars
<1>2. todo \in Seq(Name \cup {Plain, Bad}) /\ dev \in Device /\ refused \in [Device -> SUBSET Nat]
  BY DEF Phase
<1>3. pos \in Nat
  BY <1>2, ProfileTyped DEF Phase
<1>4. ASSUME GiveUp
      PROVE  /\ pc' = "free" /\ after' = "file" /\ tmp' = << >> /\ todo' = << >>
             /\ refused' \in [Device -> SUBSET Nat] /\ line' = line
  BY <1>2, <1>3, <1>4 DEF GiveUp, Free
<1>5. ASSUME NEW c, Link(c)
      PROVE  /\ pc' = "file" /\ after' = after /\ doomed' = doomed
             /\ todo' \in Seq(Name \cup {Plain, Bad}) /\ refused' = refused /\ line' = line
  BY <1>1, <1>2, <1>5 DEF Link, lineVars, freeVars
<1>6. GiveUp \/ \E c \in Name \cup {Plain} : Link(c)
  BY DEF LoadFilter, FromPipe
<1>7. CASE GiveUp
  BY <1>1, <1>4, <1>7 DEF Phase, At, IsFile
<1>8. ASSUME NEW c, Link(c)
      PROVE  Phase' /\ At = "file" /\ At' = "file" /\ line' = line
  BY <1>1, <1>5, <1>8 DEF Phase, At, IsFile
<1>9. QED
  BY <1>1, <1>6, <1>7, <1>8

\* A File line at n + 1 would be for the device when one at n would, unless a rule
\* comes between, or when a rule at n matches.
LEMMA FollowsNext ==
  ASSUME NEW p, NEW d, NEW n \in Nat, n > 0
  PROVE  /\ Follows(p, d, n + 1) => Follows(p, d, n) \/ (p[n].type # "File" /\ Matches(d, p[n]))
         /\ p[n].type = "File" /\ Follows(p, d, n) => Follows(p, d, n + 1)
         /\ RuleLast(p, d, n) => Follows(p, d, n)
         /\ p[n].type # "File" /\ Matches(d, p[n]) => RuleLast(p, d, n + 1)
         /\ p[n].type # "File" /\ RuleLast(p, d, n) => RuleLast(p, d, n + 1)
         /\ (/\ n > 1 /\ p[n - 1].type = "File" /\ p[n].type # "File"
             /\ ~Matches(d, p[n])) => ~Follows(p, d, n + 1)
<1>. DEFINE File(i) == p[i].type = "File"
            Good(j) == ~File(j) /\ Matches(d, p[j])
            Run(j, m) == \A k \in j + 1..m - 1 : File(k) => \A i \in k..m - 1 : File(i)
<1>1. \A m : Follows(p, d, m) <=> \E j \in 1..m - 1 : Good(j) /\ Run(j, m)
  BY DEF Follows
<1>2. \A m : RuleLast(p, d, m) <=>
         \E j \in 1..m - 1 : Good(j) /\ \A k \in j + 1..m - 1 : ~File(k)
  BY DEF RuleLast
<1>. HIDE DEF File, Good
<1>3. ASSUME Follows(p, d, n + 1)  PROVE Follows(p, d, n) \/ Good(n)
  <2>1. PICK j \in 1..n : Good(j) /\ Run(j, n + 1)
    BY <1>1, <1>3
  <2>2. j # n => j \in 1..n - 1 /\ Run(j, n)
    BY <2>1
  <2>3. QED
    BY <1>1, <2>1, <2>2
<1>4. ASSUME File(n), Follows(p, d, n)  PROVE Follows(p, d, n + 1)
  <2>1. PICK j \in 1..n - 1 : Good(j) /\ Run(j, n)
    BY <1>1, <1>4
  <2>2. Run(j, n + 1) /\ j \in 1..n + 1 - 1
    BY <1>4, <2>1
  <2>3. QED
    BY <1>1, <2>1, <2>2
<1>5. ASSUME RuleLast(p, d, n)  PROVE Follows(p, d, n)
  BY <1>1, <1>2, <1>5
<1>6. ASSUME Good(n)  PROVE RuleLast(p, d, n + 1)
  <2>1. n \in 1..n + 1 - 1 /\ \A k \in n + 1..n + 1 - 1 : ~File(k)
    OBVIOUS
  <2>2. QED
    BY <1>2, <1>6, <2>1
<1>7. ASSUME ~File(n), RuleLast(p, d, n)  PROVE RuleLast(p, d, n + 1)
  <2>1. PICK j \in 1..n - 1 : Good(j) /\ \A k \in j + 1..n - 1 : ~File(k)
    BY <1>2, <1>7
  <2>2. j \in 1..n + 1 - 1 /\ \A k \in j + 1..n + 1 - 1 : ~File(k)
    BY <1>7, <2>1
  <2>3. QED
    BY <1>2, <2>1, <2>2
<1>8. ASSUME n > 1, File(n - 1), ~File(n), ~Good(n), Follows(p, d, n + 1)  PROVE FALSE
  <2>1. PICK j \in 1..n : Good(j) /\ Run(j, n + 1)
    BY <1>1, <1>8
  <2>2. j # n /\ j # n - 1
    BY <1>8, <2>1 DEF Good
  <2>3. n - 1 \in j + 1..n + 1 - 1 /\ n \in n - 1..n + 1 - 1
    BY <1>8, <2>2
  <2>4. QED
    BY <1>8, <2>1, <2>3
<1>9. /\ File(n) <=> p[n].type = "File"
      /\ File(n - 1) <=> p[n - 1].type = "File"
      /\ Good(n) <=> p[n].type # "File" /\ Matches(d, p[n])
  BY DEF File, Good
<1>10. Follows(p, d, n + 1) => Follows(p, d, n) \/ (p[n].type # "File" /\ Matches(d, p[n]))
  BY <1>3, <1>9
<1>11. p[n].type = "File" /\ Follows(p, d, n) => Follows(p, d, n + 1)
  BY <1>4, <1>9
<1>12. p[n].type # "File" /\ Matches(d, p[n]) => RuleLast(p, d, n + 1)
  BY <1>6, <1>9
<1>13. p[n].type # "File" /\ RuleLast(p, d, n) => RuleLast(p, d, n + 1)
  BY <1>7, <1>9
<1>14. (/\ n > 1 /\ p[n - 1].type = "File" /\ p[n].type # "File"
        /\ ~Matches(d, p[n])) => ~Follows(p, d, n + 1)
  BY <1>8, <1>9
<1>15. QED
  BY <1>5, <1>10, <1>11, <1>12, <1>13, <1>14

\* The lines of the profile are read one after the other.
LEMMA NextPhase == Phase /\ Rules /\ [Next]_vars => Phase' /\ Rules'
<1>. SUFFICES ASSUME Phase, Rules, [Next]_vars  PROVE Phase' /\ Rules'
  OBVIOUS
<1>. USE DEF filterVars, lineVars, profileVars, fileVars, freeVars, Free
<1>0. Len(profile) \in Nat /\ pos \in 1..Len(profile) + 1
  BY ProfileTyped DEF Phase
<1>1. ASSUME NEW d \in Device, Create(d)  PROVE Phase' /\ Rules'
  <2>1. Phase'
    BY <1>0, <1>1 DEF Create, Phase, At
  <2>2. \A p, e : ~Follows(p, e, 1)
    BY DEF Follows
  <2>3. QED
    BY <1>1, <2>1, <2>2 DEF Create, Rules
<1>2. ASSUME NEW d \in Device, Destroy(d)  PROVE Phase' /\ Rules'
  BY <1>2 DEF Destroy, Phase, Rules, At, IsFile
<1>3. CASE Match
  <2>1. Phase'
    BY <1>0, <1>3 DEF Match, Phase, At
  <2>2. /\ pos' = pos + 1 /\ profile' = profile /\ dev' = dev
        /\ At = "profile" /\ profile[pos].type # "File"
        /\ matched' = IF Matches(dev, profile[pos]) THEN 1
                      ELSE IF matched = -1 THEN 0 ELSE matched
    BY <1>3 DEF Match, At, Line
  <2>3. Rules'
    BY <1>0, <2>2, FollowsNext DEF Rules
  <2>4. QED
    BY <2>1, <2>3
<1>4. CASE Skip
  <2>1. Phase'
    BY <1>0, <1>4 DEF Skip, Phase, At
  <2>2. /\ pos' = pos + 1 /\ profile' = profile /\ dev' = dev
        /\ At = "profile" /\ profile[pos].type = "File" /\ matched = 0 /\ matched' = 0
    BY <1>4 DEF Skip, At, Line
  <2>3. ~Follows(profile, dev, pos) /\ pos \in Nat /\ pos > 0
    BY <1>0, <2>2 DEF Rules
  <2>4. ~Follows(profile, dev, pos + 1)
    BY <2>2, <2>3, FollowsNext
  <2>5. Rules'
    BY <2>2, <2>4 DEF Rules
  <2>6. QED
    BY <2>1, <2>5
<1>5. CASE Open
  <2>1. Len(profile) \in Nat /\ pos \in 1..Len(profile) /\ Line = profile[pos] /\ Line.type = "File"
    BY <1>0, <1>5 DEF Open, Line
  <2>2. todo' \in Seq(Name \cup {Plain, Bad})
    BY <1>5, <2>1, ProfileTyped DEF Open, Phase
  <2>3. Phase'
    BY <1>5, <2>1, <2>2 DEF Open, Phase, At, IsFile
  <2>4. Rules'
    BY <1>5 DEF Open, Rules, At
  <2>5. QED
    BY <2>3, <2>4
<1>6. CASE LoadFilter
  BY <1>6, LoadPhase DEF Rules
<1>7. CASE FileDone
  <2>1. CASE err
    BY <1>7, <2>1 DEF FileDone, Phase, Rules, At, IsFile
  <2>2. CASE ~err
    <3>1. pos \in 1..Len(profile) /\ profile[pos].type = "File"
      BY <1>0, <1>7 DEF FileDone, Phase, At, IsFile
    <3>2. Phase'
      BY <1>0, <1>7, <2>2, <3>1 DEF FileDone, Phase, At, IsFile
    <3>3. /\ pos' = pos + 1 /\ profile' = profile /\ dev' = dev
          /\ At = "file" /\ matched # 0 /\ matched' = -1
      BY <1>7, <2>2 DEF FileDone, Phase, At
    <3>4. pos \in Nat /\ pos > 0 /\ pos + 1 > 1 /\ pos + 1 - 1 = pos
      BY <1>0
    <3>5. Follows(profile, dev, pos)
      BY <3>3, <3>4, FollowsNext DEF Rules
    <3>6. Follows(profile, dev, pos + 1)
      BY <3>1, <3>4, <3>5, FollowsNext
    <3>7. Rules'
      BY <3>1, <3>3, <3>4, <3>6 DEF Rules
    <3>8. QED
      BY <3>2, <3>7
  <2>3. QED
    BY <2>1, <2>2
<1>8. CASE CreateDone
  BY <1>8 DEF CreateDone, Phase, Rules, At, IsFile
<1>9. CASE FreeFilter
  BY <1>9 DEF FreeFilter, Phase, Rules, At, IsFile
<1>10. CASE FreeDone
  BY <1>10 DEF FreeDone, Phase, Rules, At, IsFile
<1>11. CASE UNCHANGED vars
  BY <1>11 DEF vars, Phase, Rules, At, IsFile
<1>12. QED
  BY <1>1, <1>2, <1>3, <1>4, <1>5, <1>6, <1>7, <1>8, <1>9, <1>10, <1>11 DEF Next

-----------------------------------------------------------------------------
(* Owned                                                                   *)

\* What one owner has, of the elements of its list.
LEMMA OwnOf ==
  /\ Own["filters"] = ToSet(filters)
  /\ Own["tmp"] = ToSet(tmp)
  /\ Own["doomed"] = ToSet(doomed)
  /\ Own["leaked"] = leaked
  /\ \A d \in Device : Own[d] = ToSet(line[d])
  /\ DOMAIN Own = Owner /\ Work \subseteq Owner /\ Device \subseteq Owner
  /\ \A o \in Owner : o \in Device \/ o \in Work
<1>1. \A d \in Device : d # "filters" /\ d # "tmp" /\ d # "doomed" /\ d # "leaked"
  BY ConfigAssumption DEF Work
<1>2. QED
  BY <1>1 DEF Own, Owner, Work

\* One owner gives all it has to another.
LEMMA MoveOwned ==
  ASSUME NEW own, NEW new, NEW c, OwnedOnce(own, c),
         NEW a \in Owner, NEW b \in Owner, a # b,
         new[a] = {}, new[b] = own[b] \cup own[a],
         \A o \in Owner : o # a /\ o # b => new[o] = own[o]
  PROVE  OwnedOnce(new, c)
<1>1. \A o \in Owner, f \in Filter :
         f \in new[o] <=> (o # a /\ (f \in own[o] \/ (o = b /\ f \in own[a])))
  OBVIOUS
<1>2. ASSUME NEW x \in Owner, NEW y \in Owner, x # y, NEW f, f \in new[x], f \in new[y]
      PROVE  FALSE
  BY <1>2 DEF OwnedOnce
<1>3. ASSUME NEW f \in Filter
      PROVE  (\E o \in Owner : f \in new[o]) <=> (\E o \in Owner : f \in own[o])
  BY <1>1
<1>4. QED
  BY <1>2, <1>3 DEF OwnedOnce

\* An owner gets a filter that is made.
LEMMA MakeOwned ==
  ASSUME NEW own, NEW new, NEW c, NEW e, OwnedOnce(own, c),
         NEW a \in Owner, NEW f \in Filter, c[f] = None, e[f] # None,
         \A g \in Filter : g # f => e[g] = c[g],
         new[a] = own[a] \cup {f},
         \A o \in Owner : o # a => new[o] = own[o]
  PROVE  OwnedOnce(new, e)
<1>1. \A o \in Owner : f \notin own[o]
  BY DEF OwnedOnce
<1>2. \A x, y \in Owner : x # y => new[x] \cap new[y] = {}
  BY <1>1 DEF OwnedOnce
<1>3. ASSUME NEW g \in Filter
      PROVE  e[g] # None <=> \E o \in Owner : g \in new[o]
  <2>1. CASE g = f
    BY <2>1
  <2>2. CASE g # f
    BY <2>2 DEF OwnedOnce
  <2>3. QED
    BY <2>1, <2>2
<1>4. QED
  BY <1>2, <1>3 DEF OwnedOnce

\* An owner frees a filter.
LEMMA FreeOwned ==
  ASSUME NEW own, NEW new, NEW c, NEW e, OwnedOnce(own, c),
         NEW a \in Owner, NEW f \in Filter, f \in own[a], e[f] = None,
         \A g \in Filter : g # f => e[g] = c[g],
         new[a] = own[a] \ {f},
         \A o \in Owner : o # a => new[o] = own[o]
  PROVE  OwnedOnce(new, e)
<1>1. \A o \in Owner : f \notin new[o]
  BY DEF OwnedOnce
<1>2. \A x, y \in Owner : x # y => new[x] \cap new[y] = {}
  BY DEF OwnedOnce
<1>3. ASSUME NEW g \in Filter
      PROVE  e[g] # None <=> \E o \in Owner : g \in new[o]
  <2>1. CASE g = f
    BY <1>1, <2>1
  <2>2. CASE g # f
    BY <2>2 DEF OwnedOnce
  <2>3. QED
    BY <2>1, <2>2
<1>4. QED
  BY <1>2, <1>3 DEF OwnedOnce

\* Lists that have no element in common make a list without repetition.
LEMMA ConcatInjective ==
  ASSUME NEW S, NEW s \in Seq(S), NEW t \in Seq(S),
         IsInjective(s), IsInjective(t), ToSet(s) \cap ToSet(t) = {}
  PROVE  s \o t \in Seq(S) /\ IsInjective(s \o t) /\ ToSet(s \o t) = ToSet(s) \cup ToSet(t)
<1>1. /\ s \o t \in Seq(S) /\ Len(s \o t) = Len(s) + Len(t)
      /\ \A i \in 1..Len(s) + Len(t) :
            (s \o t)[i] = IF i <= Len(s) THEN s[i] ELSE t[i - Len(s)]
  BY ConcatProperties
<1>2. /\ DOMAIN s = 1..Len(s) /\ DOMAIN t = 1..Len(t) /\ Len(s) \in Nat /\ Len(t) \in Nat
      /\ DOMAIN (s \o t) = 1..Len(s) + Len(t)
  BY <1>1
<1>. DEFINE u == s \o t
<1>3. \A i \in 1..Len(s) + Len(t) :
         \/ i \in 1..Len(s) /\ u[i] = s[i]
         \/ i - Len(s) \in 1..Len(t) /\ u[i] = t[i - Len(s)]
  BY <1>1, <1>2
<1>4. /\ \A i \in 1..Len(s) : i \in 1..Len(s) + Len(t) /\ u[i] = s[i]
      /\ \A i \in 1..Len(t) : i + Len(s) \in 1..Len(s) + Len(t) /\ u[i + Len(s)] = t[i]
  <2>1. \A i \in 1..Len(s) : i \in 1..Len(s) + Len(t) /\ u[i] = s[i]
    BY <1>1, <1>2
  <2>2. ASSUME NEW i \in 1..Len(t)
        PROVE  i + Len(s) \in 1..Len(s) + Len(t) /\ u[i + Len(s)] = t[i]
    <3>1. /\ i + Len(s) \in 1..Len(s) + Len(t) /\ ~(i + Len(s) <= Len(s))
          /\ i + Len(s) - Len(s) = i
      BY <1>2
    <3>2. QED
      BY <1>1, <3>1
  <2>3. QED
    BY <2>1, <2>2
<1>. HIDE DEF u
<1>5. ToSet(u) = ToSet(s) \cup ToSet(t)
  <2>1. ASSUME NEW x \in ToSet(u)  PROVE x \in ToSet(s) \cup ToSet(t)
    <3>1. PICK i \in 1..Len(s) + Len(t) : x = u[i]
      BY <1>2 DEF ToSet, u
    <3>2. QED
      BY <1>2, <1>3, <3>1 DEF ToSet
  <2>2. ASSUME NEW x \in ToSet(s) \cup ToSet(t)  PROVE x \in ToSet(u)
    <3>1. DOMAIN u = 1..Len(s) + Len(t)
      BY <1>2 DEF u
    <3>2. QED
      BY <1>2, <1>4, <3>1 DEF ToSet
  <2>3. QED
    BY <2>1, <2>2
<1>6. ASSUME NEW i \in 1..Len(s) + Len(t), NEW j \in 1..Len(s) + Len(t), u[i] = u[j]
      PROVE  i = j
  <2>1. /\ \A x, y \in 1..Len(s) : s[x] = s[y] => x = y
        /\ \A x, y \in 1..Len(t) : t[x] = t[y] => x = y
    BY <1>2 DEF IsInjective
  <2>2. \A x \in 1..Len(s), y \in 1..Len(t) : s[x] # t[y]
    BY <1>2 DEF ToSet
  <2>3. (i \in 1..Len(s) /\ u[i] = s[i]) \/ (i - Len(s) \in 1..Len(t) /\ u[i] = t[i - Len(s)])
    BY <1>3
  <2>4. (j \in 1..Len(s) /\ u[j] = s[j]) \/ (j - Len(s) \in 1..Len(t) /\ u[j] = t[j - Len(s)])
    BY <1>3
  <2>5. i - Len(s) = j - Len(s) => i = j
    BY <1>2
  <2>6. QED
    BY <1>6, <2>1, <2>2, <2>3, <2>4, <2>5
<1>7. IsInjective(u)
  BY <1>2, <1>6 DEF IsInjective, u
<1>8. QED
  BY <1>1, <1>5, <1>7 DEF u

\* A list without its first element.
LEMMA TailInjective ==
  ASSUME NEW S, NEW s \in Seq(S), s # << >>, IsInjective(s)
  PROVE  IsInjective(Tail(s)) /\ ToSet(Tail(s)) = ToSet(s) \ {Head(s)} /\ Head(s) \in ToSet(s)
<1>1. /\ Tail(s) \in Seq(S) /\ Len(Tail(s)) = Len(s) - 1 /\ Len(s) \in Nat /\ Len(s) > 0
      /\ \A i \in 1..Len(s) - 1 : Tail(s)[i] = s[i + 1]
      /\ Head(s) = s[1]
  OBVIOUS
<1>2. DOMAIN s = 1..Len(s) /\ DOMAIN Tail(s) = 1..Len(s) - 1
  BY <1>1
<1>. DEFINE t == Tail(s)
<1>. HIDE DEF t
<1>3. \A i, j \in 1..Len(s) : s[i] = s[j] => i = j
  BY <1>2 DEF IsInjective
<1>4. IsInjective(t)
  BY <1>1, <1>2, <1>3 DEF IsInjective, t
<1>5. ToSet(t) = ToSet(s) \ {s[1]}
  <2>1. ASSUME NEW x \in ToSet(t)  PROVE x \in ToSet(s) \ {s[1]}
    <3>1. PICK i \in 1..Len(s) - 1 : x = s[i + 1]
      BY <1>1, <1>2 DEF ToSet, t
    <3>2. i + 1 \in 1..Len(s) /\ 1 \in 1..Len(s) /\ i + 1 # 1
      BY <1>1
    <3>3. QED
      BY <1>2, <1>3, <3>1, <3>2 DEF ToSet
  <2>2. ASSUME NEW x \in ToSet(s) \ {s[1]}  PROVE x \in ToSet(t)
    <3>1. PICK i \in 1..Len(s) : x = s[i]
      BY <1>2 DEF ToSet
    <3>2. i - 1 \in 1..Len(s) - 1 /\ i - 1 + 1 = i
      BY <1>1, <2>2, <3>1
    <3>3. t[i - 1] = x
      BY <1>1, <3>1, <3>2 DEF t
    <3>4. QED
      BY <1>2, <3>2, <3>3 DEF ToSet, t
  <2>3. QED
    BY <2>1, <2>2
<1>6. s[1] \in ToSet(s)
  BY <1>1, <1>2 DEF ToSet
<1>7. QED
  BY <1>1, <1>4, <1>5, <1>6 DEF t

\* A list with one more element.
LEMMA AppendInjectively ==
  ASSUME NEW S, NEW s \in Seq(S), NEW x \in S, x \notin ToSet(s), IsInjective(s)
  PROVE  IsInjective(Append(s, x)) /\ ToSet(Append(s, x)) = ToSet(s) \cup {x}
<1>. DEFINE y == <<x>>
<1>1. Append(s, x) = s \o y /\ y \in Seq(S)
  OBVIOUS
<1>2. IsInjective(y) /\ ToSet(y) = {x}
  <2>1. DOMAIN <<x>> = {1} /\ <<x>>[1] = x
    OBVIOUS
  <2>2. QED
    BY <2>1 DEF IsInjective, ToSet
<1>. HIDE DEF y
<1>3. ToSet(s) \cap ToSet(y) = {}
  BY <1>2
<1>4. IsInjective(s \o y) /\ ToSet(s \o y) = ToSet(s) \cup ToSet(y)
  BY <1>1, <1>2, <1>3, ConcatInjective
<1>5. QED
  BY <1>1, <1>2, <1>4

\* A step that leaves the lists and the configurations alone.
LEMMA SameOwned ==
  ASSUME Owned, UNCHANGED <<line, filters, tmp, doomed, leaked, conf>>
  PROVE  Owned'
BY DEF Owned, OwnedOnce, Own, Lists

\* The lists are typed and without repetition.
LEMMA ListsInjective ==
  ASSUME ListsTyped, Owned
  PROVE  /\ \A d \in Device : line[d] \in Seq(Filter) /\ IsInjective(line[d])
         /\ filters \in Seq(Filter) /\ IsInjective(filters)
         /\ tmp \in Seq(Filter) /\ IsInjective(tmp)
         /\ doomed \in Seq(Filter) /\ IsInjective(doomed)
BY DEF ListsTyped, Owned, Lists

\* Nothing has no elements and no repetition.
LEMMA EmptyList == ToSet(<< >>) = {} /\ IsInjective(<< >>)
BY DEF ToSet, IsInjective

\* Nobody has anything.
LEMMA InitOwned == Init => Owned
<1>. SUFFICES ASSUME Init  PROVE Owned
  OBVIOUS
<1>1. \A o \in Owner : Own[o] = {}
  BY EmptyList, OwnOf DEF Init, Work
<1>2. OwnedOnce(Own, conf)
  BY <1>1 DEF OwnedOnce, Init
<1>3. \A l \in Lists : IsInjective(l)
  BY EmptyList DEF Lists, Init
<1>4. QED
  BY <1>2, <1>3 DEF Owned

\* A filter is made, or those of the file are given up.
LEMMA LoadOwned ==
  ASSUME IInv, Phase, Owned, LoadFilter
  PROVE  Owned'
<1>0. /\ pc = "file" /\ doomed = << >>
      /\ UNCHANGED <<profile, dev, pos, matched, filters, err>>
  BY DEF LoadFilter, profileVars, Phase
<1>1. CASE GiveUp
  <2>1. UNCHANGED <<line, leaked, conf, filters>> /\ tmp' = << >> /\ doomed' = tmp
    BY <1>0, <1>1 DEF GiveUp, Free
  <2>2. OwnedOnce(Own', conf)
    <3>1. /\ Own'["tmp"] = {} /\ Own["doomed"] = {}
          /\ Own'["doomed"] = Own["doomed"] \cup Own["tmp"]
      BY <1>0, <2>1, EmptyList DEF Own, Owner, Work
    <3>2. \A o \in Owner : o # "tmp" /\ o # "doomed" => Own'[o] = Own[o]
      BY <2>1 DEF Own
    <3>3. "tmp" \in Owner /\ "doomed" \in Owner /\ "tmp" # "doomed"
      BY DEF Owner, Work
    <3>4. OwnedOnce(Own, conf)
      BY DEF Owned
    <3>5. QED
      BY <3>1, <3>2, <3>3, <3>4, MoveOwned
  <2>3. \A l \in Lists' : IsInjective(l)
    BY <2>1, EmptyList DEF Owned, Lists
  <2>4. QED
    BY <2>1, <2>2, <2>3 DEF Owned
<1>2. ASSUME NEW c \in Name \cup {Plain}, Memory, Link(c)  PROVE Owned'
  <2>. DEFINE f == NewFilter
  <2>1. f \in Filter /\ conf[f] = None
    BY <1>2, NewFilterFree
  <2>2. conf' = [conf EXCEPT ![f] = c] /\ tmp' = Append(tmp, f)
    BY <1>2 DEF Link
  <2>. HIDE DEF f
  <2>3. UNCHANGED <<line, leaked, refused, doomed>>
    BY <1>2 DEF Link, lineVars, freeVars
  <2>4. conf'[f] # None /\ \A g \in Filter : g # f => conf'[g] = conf[g]
    BY <2>1, <2>2, ConfigAssumption DEF IInv, FreeHoldsNone
  <2>5. f \notin ToSet(tmp)
    <3>1. Own["tmp"] = ToSet(tmp) /\ "tmp" \in Owner
      BY OwnOf DEF Work
    <3>2. f \in Own["tmp"] => conf[f] # None
      BY <2>1, <3>1 DEF Owned, OwnedOnce
    <3>3. QED
      BY <2>1, <3>1, <3>2
  <2>6. IsInjective(tmp') /\ ToSet(tmp') = ToSet(tmp) \cup {f}
    BY <2>1, <2>2, <2>5, ListsInjective, AppendInjectively DEF IInv
  <2>7. OwnedOnce(Own', conf')
    <3>1. Own'["tmp"] = Own["tmp"] \cup {f}
      BY <2>6 DEF Own, Owner, Work
    <3>2. \A o \in Owner : o # "tmp" => Own'[o] = Own[o]
      BY <1>0, <2>3 DEF Own
    <3>3. "tmp" \in Owner
      BY DEF Owner, Work
    <3>4. OwnedOnce(Own, conf)
      BY DEF Owned
    <3>5. QED
      BY <2>1, <2>4, <3>1, <3>2, <3>3, <3>4, MakeOwned
  <2>8. \A l \in Lists' : IsInjective(l)
    BY <1>0, <2>3, <2>6 DEF Owned, Lists
  <2>9. QED
    BY <2>7, <2>8 DEF Owned
<1>3. GiveUp \/ \E c \in Name \cup {Plain} : Memory /\ Link(c)
  BY DEF LoadFilter, FromPipe
<1>4. QED
  BY <1>1, <1>2, <1>3

\* The first of the doomed filters is freed.
LEMMA FreeFilterOwned ==
  ASSUME IInv, Phase, Owned, FreeFilter
  PROVE  Owned'
<1>. DEFINE f == Head(doomed)
<1>1. /\ UNCHANGED <<line, leaked, filters, tmp>> /\ doomed' = Tail(doomed) /\ doomed # << >>
      /\ conf' = [conf EXCEPT ![f] = None]
  BY DEF FreeFilter, lineVars, profileVars, fileVars
<1>2. doomed \in Seq(Filter) /\ IsInjective(doomed) /\ conf \in [Filter -> Name \cup {Plain, None}]
  BY ListsInjective DEF IInv, FreeHoldsNone
<1>3. f \in Filter
  BY <1>1, <1>2
<1>. HIDE DEF f
<1>4. IsInjective(doomed') /\ ToSet(doomed') = ToSet(doomed) \ {f} /\ f \in ToSet(doomed)
  BY <1>1, <1>2, TailInjective DEF f
<1>5. conf'[f] = None /\ \A g \in Filter : g # f => conf'[g] = conf[g]
  BY <1>1, <1>2, <1>3
<1>6. OwnedOnce(Own', conf')
  <2>1. f \in Own["doomed"] /\ Own'["doomed"] = Own["doomed"] \ {f}
    BY <1>4 DEF Own, Owner, Work
  <2>2. \A o \in Owner : o # "doomed" => Own'[o] = Own[o]
    BY <1>1 DEF Own
  <2>3. "doomed" \in Owner
    BY DEF Owner, Work
  <2>4. OwnedOnce(Own, conf)
    BY DEF Owned
  <2>5. QED
    BY <1>3, <1>5, <2>1, <2>2, <2>3, <2>4, FreeOwned
<1>7. \A l \in Lists' : IsInjective(l)
  BY <1>1, <1>4 DEF Owned, Lists
<1>8. QED
  BY <1>6, <1>7 DEF Owned

\* The filters of a file join those of the files before, or all are given up.
LEMMA FileOwned ==
  ASSUME IInv, Phase, Owned, FileDone
  PROVE  Owned'
<1>1. /\ pc = "file" /\ doomed = << >> /\ UNCHANGED <<line, conf>> /\ tmp' = << >>
  BY DEF FileDone, filterVars, Phase
<1>2. OwnedOnce(Own, conf) /\ {"filters", "tmp", "doomed", "leaked"} \subseteq Owner
  BY DEF Owned, Owner, Work
<1>3. CASE err
  <2>1. filters' = << >> /\ doomed' = filters /\ leaked' = leaked \cup ToSet(tmp)
    BY <1>3 DEF FileDone, Free
  <2>. DEFINE own == [o \in Owner |-> IF o = "filters" THEN {}
                                      ELSE IF o = "doomed" THEN Own["doomed"] \cup Own["filters"]
                                      ELSE Own[o]]
  <2>2. OwnedOnce(own, conf)
    <3>1. /\ own["filters"] = {} /\ own["doomed"] = Own["doomed"] \cup Own["filters"]
          /\ \A o \in Owner : o # "filters" /\ o # "doomed" => own[o] = Own[o]
      BY <1>2
    <3>. HIDE DEF own
    <3>2. QED
      BY <1>2, <3>1, MoveOwned
  <2>3. /\ Own'["tmp"] = {} /\ Own'["leaked"] = own["leaked"] \cup own["tmp"]
        /\ \A o \in Owner : o # "tmp" /\ o # "leaked" => Own'[o] = own[o]
    <3>1. Own'["tmp"] = {} /\ Own'["leaked"] = own["leaked"] \cup own["tmp"]
      BY <1>1, <2>1, EmptyList DEF Own, Owner, Work
    <3>2. Own'["filters"] = own["filters"] /\ Own'["doomed"] = own["doomed"]
      BY <1>1, <1>2, <2>1, EmptyList DEF Own, Owner, Work
    <3>3. \A o \in Owner \ Work : Own'[o] = Own[o] /\ Own[o] = own[o]
      BY <1>1 DEF Own, Work
    <3>. HIDE DEF own
    <3>4. QED
      BY <3>1, <3>2, <3>3 DEF Work
  <2>. HIDE DEF own
  <2>4. OwnedOnce(Own', conf)
    BY <1>2, <2>2, <2>3, MoveOwned
  <2>5. \A l \in Lists' : IsInjective(l)
    BY <1>1, <2>1, EmptyList DEF Owned, Lists
  <2>6. QED
    BY <1>1, <2>4, <2>5 DEF Owned
<1>4. CASE ~err
  <2>1. filters' = filters \o tmp /\ UNCHANGED <<leaked, doomed>>
    BY <1>4 DEF FileDone, freeVars
  <2>2. ToSet(filters) \cap ToSet(tmp) = {}
    <3>1. Own["filters"] \cap Own["tmp"] = {}
      BY <1>2 DEF OwnedOnce
    <3>2. QED
      BY <3>1, OwnOf
  <2>3. IsInjective(filters') /\ ToSet(filters') = ToSet(filters) \cup ToSet(tmp)
    BY <2>1, <2>2, ListsInjective, ConcatInjective DEF IInv
  <2>4. OwnedOnce(Own', conf)
    <3>1. Own'["tmp"] = {} /\ Own'["filters"] = Own["filters"] \cup Own["tmp"]
      BY <1>1, <2>3, EmptyList DEF Own, Owner, Work
    <3>2. \A o \in Owner : o # "filters" /\ o # "tmp" => Own'[o] = Own[o]
      BY <1>1, <2>1 DEF Own
    <3>3. QED
      BY <1>2, <3>1, <3>2, MoveOwned
  <2>5. \A l \in Lists' : IsInjective(l)
    BY <1>1, <2>1, <2>3, EmptyList DEF Owned, Lists
  <2>6. QED
    BY <1>1, <2>4, <2>5 DEF Owned
<1>5. QED
  BY <1>3, <1>4

\* The line gets its filters.
LEMMA CreateOwned ==
  ASSUME IInv, Phase, Owned, CreateDone
  PROVE  Owned'
<1>1. /\ UNCHANGED <<tmp, doomed, leaked, conf>>
      /\ line' = [line EXCEPT ![dev] = filters] /\ filters' = << >>
  BY DEF CreateDone, filterVars, fileVars, freeVars
<1>2. dev \in Device /\ line[dev] = << >> /\ line \in [Device -> Seq(Filter)]
  BY DEF Phase, CreateDone, At, IInv, ListsTyped
<1>3. OwnedOnce(Own', conf)
  <2>1. dev # "filters" /\ dev # "tmp" /\ dev # "doomed" /\ dev # "leaked"
    BY <1>2, ConfigAssumption DEF Work
  <2>2. dev \in Owner /\ "filters" \in Owner
    BY <1>2 DEF Owner, Work
  <2>3. /\ Own[dev] = {} /\ Own'[dev] = ToSet(filters) /\ Own["filters"] = ToSet(filters)
        /\ Own'["filters"] = {}
    BY <1>1, <1>2, <2>1, <2>2, EmptyList DEF Own
  <2>4. ASSUME NEW o \in Owner, o # "filters", o # dev  PROVE Own'[o] = Own[o]
    <3>1. CASE o \in Work
      BY <1>1, <2>4, <3>1 DEF Own, Work
    <3>2. CASE o \in Device
      <4>1. line'[o] = line[o]
        BY <1>1, <1>2, <2>4, <3>2
      <4>2. QED
        BY <1>1, <2>4, <4>1 DEF Own
    <3>3. QED
      BY <3>1, <3>2 DEF Owner
  <2>5. OwnedOnce(Own, conf)
    BY DEF Owned
  <2>6. QED
    BY <2>1, <2>2, <2>3, <2>4, <2>5, MoveOwned
<1>4. \A l \in Lists' : IsInjective(l)
  <2>1. \A d \in Device : line'[d] = line[d] \/ line'[d] = filters
    BY <1>1, <1>2
  <2>2. QED
    BY <1>1, <2>1, EmptyList DEF Owned, Lists
<1>5. QED
  BY <1>1, <1>3, <1>4 DEF Owned

\* A line loses its filters.
LEMMA DestroyOwned ==
  ASSUME IInv, Phase, Owned, NEW d \in Device, Destroy(d)
  PROVE  Owned'
<1>1. /\ UNCHANGED <<filters, tmp, leaked, conf>>
      /\ line' = [line EXCEPT ![d] = << >>] /\ doomed' = line[d]
  BY DEF Destroy, Free, filterVars, profileVars, fileVars
<1>2. doomed = << >> /\ line \in [Device -> Seq(Filter)]
  BY DEF Phase, Destroy, IInv, ListsTyped
<1>3. OwnedOnce(Own', conf)
  <2>1. d # "filters" /\ d # "tmp" /\ d # "doomed" /\ d # "leaked"
    BY ConfigAssumption DEF Work
  <2>2. d \in Owner /\ "doomed" \in Owner
    BY DEF Owner, Work
  <2>3. /\ Own["doomed"] = {} /\ Own'["doomed"] = ToSet(line[d]) /\ Own[d] = ToSet(line[d])
        /\ Own'[d] = {}
    BY <1>1, <1>2, <2>1, <2>2, EmptyList DEF Own
  <2>4. ASSUME NEW o \in Owner, o # "doomed", o # d  PROVE Own'[o] = Own[o]
    <3>1. CASE o \in Work
      BY <1>1, <2>4, <3>1 DEF Own, Work
    <3>2. CASE o \in Device
      <4>1. line'[o] = line[o]
        BY <1>1, <1>2, <2>4, <3>2
      <4>2. QED
        BY <1>1, <2>4, <4>1 DEF Own
    <3>3. QED
      BY <3>1, <3>2 DEF Owner
  <2>5. OwnedOnce(Own, conf)
    BY DEF Owned
  <2>6. QED
    BY <2>1, <2>2, <2>3, <2>4, <2>5, MoveOwned
<1>4. \A l \in Lists' : IsInjective(l)
  <2>1. \A e \in Device : line'[e] = line[e] \/ line'[e] = << >>
    BY <1>1, <1>2
  <2>2. QED
    BY <1>1, <2>1, EmptyList DEF Owned, Lists
<1>5. QED
  BY <1>1, <1>3, <1>4 DEF Owned

\* No step makes a filter somebody else's as well.
LEMMA NextOwned == IInv /\ Phase /\ Owned /\ [Next]_vars => Owned'
<1>. SUFFICES ASSUME IInv, Phase, Owned, [Next]_vars  PROVE Owned'
  OBVIOUS
<1>. USE DEF filterVars, lineVars, profileVars, fileVars, freeVars
<1>1. ASSUME NEW d \in Device, Create(d)  PROVE Owned'
  BY <1>1, SameOwned DEF Create, Phase, At
<1>2. CASE Match
  BY <1>2, SameOwned DEF Match
<1>3. CASE Skip
  BY <1>3, SameOwned DEF Skip
<1>4. CASE Open
  BY <1>4, SameOwned DEF Open, Phase
<1>5. CASE FreeDone
  BY <1>5, SameOwned DEF FreeDone
<1>6. CASE UNCHANGED vars
  BY <1>6, SameOwned DEF vars
<1>7. QED
  BY <1>1, <1>2, <1>3, <1>4, <1>5, <1>6, LoadOwned, FreeFilterOwned, FileOwned, CreateOwned,
     DestroyOwned DEF Next

-----------------------------------------------------------------------------
(* Content                                                                 *)

\* A File line is for a device when one at its place would be.
LEMMA DueFollows ==
  ASSUME NEW d, Len(profile) \in Nat, NEW n \in 1..Len(profile)
  PROVE  n \in Due(d) <=> profile[n].type = "File" /\ Follows(profile, d, n)
<1>1. n \in Due(d) <=> For(d, n)
  BY DEF Due
<1>2. CASE ~(profile[n].type = "File")
  BY <1>1, <1>2 DEF For, IsFile
<1>3. CASE profile[n].type = "File"
  <2>1. ASSUME NEW k \in 1..n - 1
        PROVE  (\A i \in k..n : profile[i].type = "File")
                 <=> (\A i \in k..n - 1 : profile[i].type = "File")
    <3>1. k..n = (k..n - 1) \cup {n}
      OBVIOUS
    <3>2. QED
      BY <1>3, <3>1
  <2>2. For(d, n) <=> \E j \in 1..n - 1 :
           /\ profile[j].type # "File" /\ Matches(d, profile[j])
           /\ \A k \in j + 1..n - 1 :
                 profile[k].type = "File" => \A i \in k..n : profile[i].type = "File"
    BY <1>3 DEF For, IsFile
  <2>3. \A j \in 1..n - 1 : \A k \in j + 1..n - 1 : k \in 1..n - 1
    OBVIOUS
  <2>4. QED
    BY <1>1, <1>3, <2>1, <2>2, <2>3 DEF Follows
<1>4. QED
  BY <1>2, <1>3

\* The profile does not change.
LEMMA SameDue == ASSUME profile' = profile, NEW d  PROVE Due(d)' = Due(d)
BY DEF Due, For, IsFile

\* Which files there are.
LEMMA FilesTyped ==
  ASSUME NEW p \in Profiles, NEW w, NEW n \in Nat,
         \A i \in w : i \in 1..Len(p) /\ p[i].type = "File",
         \A i \in w : i < n => Files[p[i].file] # Missing
  PROVE  \A i \in 1..Len(p) : Parts(p, w, n)[i] \in Seq(Name \cup {Plain, Bad})
<1>. SUFFICES ASSUME NEW i \in 1..Len(p)
              PROVE  Parts(p, w, n)[i] \in Seq(Name \cup {Plain, Bad})
  OBVIOUS
<1>1. CASE i \in w /\ i < n
  <2>1. Parts(p, w, n)[i] = Files[p[i].file]
    BY <1>1 DEF Parts
  <2>2. QED
    BY <1>1, <2>1, ProfileTyped
<1>2. CASE ~(i \in w /\ i < n)
  <2>1. Parts(p, w, n)[i] = << >>
    BY <1>2 DEF Parts
  <2>2. << >> \in Seq(Name \cup {Plain, Bad})
    BY EmptySeq
  <2>3. QED
    BY <2>1, <2>2
<1>3. QED
  BY <1>1, <1>2

\* No file makes no filter.
LEMMA WholeNothing ==
  ASSUME NEW p \in Profiles, NEW w, NEW c, \A i \in w : i \in 1..Len(p)
  PROVE  Whole(p, w, 1, c, << >>)
<1>1. Len(p) \in Nat
  BY ProfileTyped
<1>2. /\ \A i \in 1..Len(p) : Parts(p, w, 1)[i] = << >>
      /\ DOMAIN Parts(p, w, 1) = 1..Len(p)
      /\ Parts(p, w, 1) \in [1..Len(p) -> {<< >>}]
  BY <1>1 DEF Parts
<1>3. Parts(p, w, 1) \in Seq({<< >>}) /\ Len(Parts(p, w, 1)) = Len(p)
  BY <1>1, <1>2, IsASeq, LenProperties
<1>4. FlattenSeq(Parts(p, w, 1)) = << >>
  BY <1>1, <1>2, <1>3, FlattenNothing
<1>5. Kinds(c, << >>) = << >>
  BY DEF Kinds
<1>6. QED
  BY <1>1, <1>4, <1>5 DEF Whole

\* A place that is not wanted adds nothing.
LEMMA WholeSkips ==
  ASSUME NEW p \in Profiles, NEW w, NEW n \in Nat, NEW c, NEW l, n \notin w,
         \A i \in w : i \in 1..Len(p), Whole(p, w, n, c, l)
  PROVE  Whole(p, w, n + 1, c, l)
<1>1. \A i \in w : i < n + 1 <=> i < n
  <2>1. ASSUME NEW i \in w  PROVE i < n + 1 <=> i < n
    <3>1. i \in Nat /\ i # n
      BY ProfileTyped
    <3>2. QED
      BY <3>1
  <2>2. QED
    BY <2>1
<1>2. Parts(p, w, n + 1) = Parts(p, w, n)
  BY <1>1 DEF Parts
<1>3. QED
  BY <1>1, <1>2 DEF Whole

\* What matters is which files before n are wanted, and the filters of the list.
LEMMA WholeSame ==
  ASSUME NEW p \in Profiles, NEW w, NEW v, NEW n \in Nat, NEW c, NEW e, NEW l, Len(l) \in Nat,
         \A i \in w \cup v : i \in 1..Len(p),
         \A i \in 1..Len(p) : i < n => (i \in w <=> i \in v),
         \A k \in 1..Len(l) : e[l[k]] = c[l[k]],
         Whole(p, w, n, c, l)
  PROVE  Whole(p, v, n, e, l)
<1>1. Parts(p, w, n) = Parts(p, v, n)
  BY DEF Parts
<1>2. Kinds(c, l) = Kinds(e, l)
  BY DEF Kinds
<1>3. QED
  BY <1>1, <1>2 DEF Whole

\* The filters of a file behind those of the files before.
LEMMA WholeAdds ==
  ASSUME NEW p \in Profiles, NEW w, NEW n \in 1..Len(p), NEW c,
         NEW S, NEW l \in Seq(S), NEW m \in Seq(S),
         \A i \in w : i \in 1..Len(p) /\ p[i].type = "File",
         n \in w, Files[p[n].file] # Missing, Kinds(c, m) = Files[p[n].file],
         Whole(p, w, n, c, l)
  PROVE  Whole(p, w, n + 1, c, l \o m)
<1>0. Len(p) \in Nat /\ n \in Nat
  BY ProfileTyped
<1>1. \A i \in w : i < n + 1 => Files[p[i].file] # Missing
  <2>1. ASSUME NEW i \in w, i < n + 1  PROVE i = n \/ i < n
    BY <1>0, <2>1
  <2>2. QED
    BY <2>1 DEF Whole
<1>. DEFINE T == Name \cup {Plain, Bad}
            s == Parts(p, w, n)
            t == Parts(p, w, n + 1)
<1>2. /\ DOMAIN s = 1..Len(p) /\ \A i \in 1..Len(p) : s[i] \in Seq(T)
      /\ DOMAIN t = 1..Len(p) /\ \A i \in 1..Len(p) : t[i] \in Seq(T)
  <2>1. \A i \in 1..Len(p) : s[i] \in Seq(T)
    BY <1>0, FilesTyped DEF Whole
  <2>2. \A i \in 1..Len(p) : t[i] \in Seq(T)
    <3>1. n + 1 \in Nat
      BY <1>0
    <3>2. QED
      BY <1>1, <3>1, FilesTyped
  <2>3. QED
    BY <2>1, <2>2 DEF Parts
<1>3. Len(s) = Len(p) /\ Len(t) = Len(p)
  BY <1>0, <1>2
<1>4. t[n] = Files[p[n].file]
  BY <1>0 DEF Parts
<1>5. FillsPlace(T, Len(p), n, s, t)
  <2>1. \A i \in 1..Len(p) : i # n => s[i] = t[i]
    BY <1>0 DEF Parts
  <2>2. \A i \in n..Len(p) : s[i] = << >>
    BY <1>0 DEF Parts
  <2>3. \A i \in n + 1..Len(p) : t[i] = << >>
    BY <1>0 DEF Parts
  <2>. HIDE DEF s, t, T
  <2>4. QED
    BY <1>2, <1>3, <2>1, <2>2, <2>3 DEF FillsPlace
<1>. HIDE DEF s, t, T
<1>6. FlattensToo(s, t, t[n])
  BY <1>0, <1>5, FlattenAppends
<1>7. Kinds(c, l \o m) = Kinds(c, l) \o Kinds(c, m)
  <2>1. /\ l \o m \in Seq(S) /\ Len(l \o m) = Len(l) + Len(m) /\ Len(l) \in Nat /\ Len(m) \in Nat
        /\ \A i \in 1..Len(l) + Len(m) :
              (l \o m)[i] = IF i <= Len(l) THEN l[i] ELSE m[i - Len(l)]
    BY ConcatProperties
  <2>. DEFINE V == {c[x] : x \in S}
              a == Kinds(c, l)
              b == Kinds(c, m)
  <2>2. /\ a \in Seq(V) /\ Len(a) = Len(l) /\ \A i \in 1..Len(l) : a[i] = c[l[i]]
        /\ b \in Seq(V) /\ Len(b) = Len(m) /\ \A i \in 1..Len(m) : b[i] = c[m[i]]
    BY DEF Kinds
  <2>. HIDE DEF a, b, V
  <2>3. /\ a \o b \in Seq(V) /\ Len(a \o b) = Len(l) + Len(m)
        /\ \A i \in 1..Len(l) + Len(m) :
              (a \o b)[i] = IF i <= Len(l) THEN a[i] ELSE b[i - Len(l)]
    <3>1. a \in Seq(V) /\ b \in Seq(V)
      BY <2>2
    <3>2. /\ a \o b \in Seq(V) /\ Len(a \o b) = Len(a) + Len(b)
          /\ \A i \in 1..Len(a) + Len(b) :
                (a \o b)[i] = IF i <= Len(a) THEN a[i] ELSE b[i - Len(a)]
      BY <3>1, ConcatProperties
    <3>3. QED
      BY <2>2, <3>2
  <2>4. \A i \in 1..Len(l) + Len(m) : (a \o b)[i] = c[(l \o m)[i]]
    <3>. SUFFICES ASSUME NEW i \in 1..Len(l) + Len(m)  PROVE (a \o b)[i] = c[(l \o m)[i]]
      OBVIOUS
    <3>1. CASE i <= Len(l)
      BY <2>1, <2>2, <2>3, <3>1
    <3>2. CASE ~(i <= Len(l))
      <4>1. i - Len(l) \in 1..Len(m)
        BY <2>1, <3>2
      <4>2. QED
        BY <2>1, <2>2, <2>3, <3>2, <4>1
    <3>3. QED
      BY <3>1, <3>2
  <2>5. a \o b = [i \in 1..Len(l) + Len(m) |-> c[(l \o m)[i]]]
    <3>. DEFINE u == a \o b
    <3>1. u \in Seq(V) /\ Len(u) = Len(l) + Len(m)
      BY <2>3
    <3>2. \A i \in 1..Len(u) : u[i] = c[(l \o m)[i]]
      BY <2>3, <2>4
    <3>. HIDE DEF u
    <3>3. u = [i \in 1..Len(u) |-> u[i]]
      BY <3>1
    <3>4. u = [i \in 1..Len(u) |-> c[(l \o m)[i]]]
      BY <3>2, <3>3
    <3>5. QED
      BY <3>1, <3>4 DEF u
  <2>6. QED
    BY <2>1, <2>5 DEF a, b, Kinds
<1>8. QED
  BY <1>1, <1>4, <1>6, <1>7 DEF Whole, FlattensToo, s, t

\* The elements of the lists are allocated, and those of the lines and of filters
\* are not about to be freed.
LEMMA Elements ==
  ASSUME IInv, Owned
  PROVE  /\ \A d \in Device : \A k \in 1..Len(line[d]) :
               /\ line[d][k] \in Filter /\ conf[line[d][k]] # None
               /\ line[d][k] \notin ToSet(doomed)
         /\ \A k \in 1..Len(filters) :
               /\ filters[k] \in Filter /\ conf[filters[k]] # None
               /\ filters[k] \notin ToSet(doomed)
         /\ \A k \in 1..Len(tmp) : tmp[k] \in Filter /\ conf[tmp[k]] # None
         /\ \A k \in 1..Len(doomed) : doomed[k] \in Filter /\ conf[doomed[k]] # None
<1>1. \A o \in Owner, f \in Filter : f \in Own[o] => conf[f] # None
  BY DEF Owned, OwnedOnce
<1>2. \A o \in Owner : o # "doomed" => Own[o] \cap ToSet(doomed) = {}
  BY OwnOf DEF Owned, OwnedOnce, Work
<1>3. \A s \in Seq(Filter) : \A k \in 1..Len(s) : s[k] \in Filter /\ s[k] \in ToSet(s)
  BY DEF ToSet
<1>4. /\ line \in [Device -> Seq(Filter)] /\ filters \in Seq(Filter)
      /\ tmp \in Seq(Filter) /\ doomed \in Seq(Filter)
  BY DEF IInv, ListsTyped
<1>5. \A d \in Device : d \in Owner /\ d # "doomed" /\ Own[d] = ToSet(line[d])
  BY OwnOf, ConfigAssumption DEF Work
<1>6. ASSUME NEW d \in Device, NEW k \in 1..Len(line[d])
      PROVE  /\ line[d][k] \in Filter /\ conf[line[d][k]] # None
             /\ line[d][k] \notin ToSet(doomed)
  BY <1>1, <1>2, <1>3, <1>4, <1>5
<1>7. {"filters", "tmp", "doomed"} \subseteq Owner
  BY DEF Owner, Work
<1>8. ASSUME NEW k \in 1..Len(filters)
      PROVE  filters[k] \in Filter /\ conf[filters[k]] # None /\ filters[k] \notin ToSet(doomed)
  <2>1. filters[k] \in Filter /\ filters[k] \in Own["filters"]
    BY <1>3, <1>4, OwnOf
  <2>2. QED
    BY <1>1, <1>2, <1>7, <2>1
<1>9. ASSUME NEW k \in 1..Len(tmp)
      PROVE  tmp[k] \in Filter /\ conf[tmp[k]] # None
  <2>1. tmp[k] \in Filter /\ tmp[k] \in Own["tmp"]
    BY <1>3, <1>4, OwnOf
  <2>2. QED
    BY <1>1, <1>7, <2>1
<1>10. ASSUME NEW k \in 1..Len(doomed)
       PROVE  doomed[k] \in Filter /\ conf[doomed[k]] # None
  <2>1. doomed[k] \in Filter /\ doomed[k] \in Own["doomed"]
    BY <1>3, <1>4, OwnOf
  <2>2. QED
    BY <1>1, <1>7, <2>1
<1>11. QED
  BY <1>6, <1>8, <1>9, <1>10

\* Places of File lines.
LEMMA DueTyped ==
  ASSUME NEW d, NEW X
  PROVE  \A i \in Due(d) \ X : i \in 1..Len(profile) /\ profile[i].type = "File"
BY DEF Due, For, IsFile

\* The lines that are there stay what they are.
LEMMA SameLines ==
  ASSUME IInv, Phase, LinesDone, profile' = profile,
         \A d \in Device : line'[d] # << >> =>
            /\ line'[d] = line[d] /\ refused'[d] = refused[d]
            /\ \A k \in 1..Len(line[d]) : conf'[line[d][k]] = conf[line[d][k]]
  PROVE  LinesDone'
<1>. SUFFICES ASSUME NEW d \in Device, line'[d] # << >>
              PROVE  Whole(profile, Due(d)' \ refused'[d], Len(profile) + 1, conf', line'[d])
  BY DEF LinesDone
<1>. DEFINE w == Due(d) \ refused[d]
            l == line[d]
            n == Len(profile) + 1
<1>1. Due(d)' \ refused'[d] = w /\ line'[d] = l
  BY SameDue
<1>2. \A k \in 1..Len(l) : conf'[l[k]] = conf[l[k]]
  OBVIOUS
<1>3. Whole(profile, w, n, conf, l)
  BY <1>1 DEF LinesDone
<1>4. profile \in Profiles /\ n \in Nat /\ Len(l) \in Nat
  BY ProfileTyped DEF Phase, IInv, ListsTyped
<1>5. \A i \in w : i \in 1..Len(profile)
  BY DueTyped
<1>. HIDE DEF w, l, n
<1>6. Whole(profile, w, n, conf', l)
  BY <1>2, <1>3, <1>4, <1>5, WholeSame
<1>7. QED
  BY <1>1, <1>6 DEF n

\* What is loaded so far stays what it is.
LEMMA SameFilters ==
  ASSUME IInv, Phase, At # "idle", ProfileSoFar,
         profile' = profile, dev' = dev, pos' = pos, filters' = filters,
         \A i \in 1..Len(profile) : i < pos => (i \in refused'[dev] <=> i \in refused[dev]),
         refused'[dev] \subseteq 1..pos,
         pos \in refused'[dev] => At' = "file",
         \A k \in 1..Len(filters) : conf'[filters[k]] = conf[filters[k]]
  PROVE  ProfileSoFar'
<1>. DEFINE w == Due(dev) \ refused[dev]
            v == Due(dev) \ refused'[dev]
<1>1. Due(dev)' = Due(dev)
  <2>1. \A d : Due(d)' = Due(d)
    BY SameDue
  <2>2. QED
    BY <2>1 DEF Due, For, IsFile
<1>2. Whole(profile, w, pos, conf, filters)
  BY DEF ProfileSoFar
<1>3. /\ \A i \in w \cup v : i \in 1..Len(profile)
      /\ \A i \in 1..Len(profile) : i < pos => (i \in w <=> i \in v)
  BY DueTyped
<1>4. profile \in Profiles /\ pos \in Nat /\ Len(filters) \in Nat
  BY ProfileTyped DEF Phase, IInv, ListsTyped
<1>. HIDE DEF w, v
<1>5. Whole(profile, v, pos, conf', filters)
  BY <1>2, <1>3, <1>4, WholeSame
<1>6. QED
  BY <1>1, <1>5 DEF ProfileSoFar, v

\* Nothing is there yet.
LEMMA InitContent == Init => Content
BY DEF Init, Content, LinesDone, ProfileSoFar, FileSoFar, At

\* A line is begun.
LEMMA CreateContent ==
  ASSUME IInv, Phase, Content, NEW d \in Device, Create(d)
  PROVE  Content'
<1>1. /\ UNCHANGED <<profile, line, conf>> /\ pc = "idle" /\ line[d] = << >>
      /\ dev' = d /\ pos' = 1 /\ filters' = << >> /\ pc' = "profile"
      /\ refused' = [refused EXCEPT ![d] = {}]
  BY DEF Create, filterVars
<1>2. refused \in [Device -> SUBSET Nat] /\ profile \in Profiles
  BY DEF Phase
<1>3. LinesDone'
  BY <1>1, <1>2, SameLines DEF Content
<1>4. Whole(profile, Due(d) \ {}, 1, conf, << >>)
  BY <1>2, DueTyped, WholeNothing
<1>5. refused'[d] = {} /\ Due(d)' = Due(d)
  BY <1>1, <1>2, SameDue
<1>6. At' = "profile"
  BY <1>1 DEF At
<1>7. ProfileSoFar'
  <2>1. Due(dev)' = Due(d)'
    BY <1>1 DEF Due, For, IsFile
  <2>2. QED
    BY <1>1, <1>4, <1>5, <1>6, <2>1 DEF ProfileSoFar
<1>8. FileSoFar'
  BY <1>6 DEF FileSoFar
<1>9. QED
  BY <1>3, <1>7, <1>8 DEF Content

\* A rule, or a File line that is not for the device.
LEMMA NoFileContent ==
  ASSUME IInv, Phase, Rules, Content, Match \/ Skip
  PROVE  Content'
<1>1. /\ UNCHANGED <<profile, line, conf, refused, dev, filters>> /\ pc = "profile"
      /\ pc' = "profile" /\ pos' = pos + 1 /\ pos <= Len(profile)
      /\ profile[pos].type = "File" => matched = 0
  BY DEF Match, Skip, filterVars, lineVars, Line
<1>2. At = "profile" /\ At' = "profile"
  BY <1>1 DEF At
<1>3. /\ profile \in Profiles /\ Len(profile) \in Nat /\ pos \in 1..Len(profile) /\ pos \in Nat
      /\ dev \in Device
  BY <1>1, ProfileTyped DEF Phase
<1>4. LinesDone'
  BY <1>1, SameLines DEF Content
<1>5. ProfileSoFar'
  <2>. DEFINE w == Due(dev) \ refused[dev]
  <2>1. pos \notin w
    <3>1. matched = 0 => ~Follows(profile, dev, pos)
      BY <1>2 DEF Rules
    <3>2. pos \in Due(dev) => profile[pos].type = "File" /\ Follows(profile, dev, pos)
      BY <1>3, DueFollows
    <3>3. QED
      BY <1>1, <3>1, <3>2
  <2>2. /\ Whole(profile, w, pos, conf, filters)
        /\ refused[dev] \subseteq 1..pos /\ pos \notin refused[dev]
    BY <1>2 DEF Content, ProfileSoFar
  <2>3. \A i \in w : i \in 1..Len(profile)
    BY DueTyped
  <2>4. Due(dev)' = Due(dev)
    BY <1>1 DEF Due, For, IsFile
  <2>. HIDE DEF w
  <2>5. Whole(profile, w, pos + 1, conf, filters)
    BY <1>3, <2>1, <2>2, <2>3, WholeSkips
  <2>6. refused[dev] \subseteq 1..pos + 1 /\ pos + 1 \notin refused[dev]
    BY <1>3, <2>2
  <2>7. QED
    BY <1>1, <2>4, <2>5, <2>6 DEF ProfileSoFar, w
<1>6. FileSoFar'
  BY <1>2 DEF FileSoFar
<1>7. QED
  BY <1>4, <1>5, <1>6 DEF Content

\* A file is opened.
LEMMA OpenContent ==
  ASSUME IInv, Phase, Content, Open
  PROVE  Content'
<1>1. /\ UNCHANGED <<profile, line, conf, refused, dev, filters, pos>>
      /\ pc = "profile" /\ pc' = "file" /\ tmp' = << >> /\ pos <= Len(profile)
      /\ Line.type = "File"
      /\ Files[Line.file] = Missing => err'
      /\ Files[Line.file] # Missing => todo' = Files[Line.file]
  BY DEF Open, filterVars, lineVars
<1>2. At = "profile" /\ At' = "file"
  BY <1>1 DEF At
<1>3. /\ profile \in Profiles /\ pos \in 1..Len(profile) /\ Line = profile[pos]
      /\ Line' = profile[pos]
  BY <1>1, ProfileTyped DEF Phase, Line
<1>4. LinesDone'
  BY <1>1, SameLines DEF Content
<1>5. refused[dev] \subseteq 1..pos /\ pos \notin refused[dev]
  BY <1>2 DEF Content, ProfileSoFar
<1>6. ProfileSoFar'
  BY <1>1, <1>2, <1>5, SameFilters DEF Content
<1>7. FileSoFar'
  <2>1. ASSUME ~err'
        PROVE  /\ Files[profile[pos].file] # Missing
               /\ Kinds(conf', tmp') \o todo' = Files[profile[pos].file]
    <3>1. /\ Files[profile[pos].file] # Missing
          /\ todo' = Files[profile[pos].file]
          /\ todo' \in Seq(Name \cup {Plain, Bad})
      BY <1>1, <1>3, <2>1, ProfileTyped
    <3>2. Kinds(conf', tmp') = << >>
      BY <1>1 DEF Kinds
    <3>3. << >> \o todo' = todo'
      BY <3>1
    <3>4. QED
      BY <3>1, <3>2, <3>3
  <2>2. QED
    BY <1>1, <1>3, <1>5, <2>1 DEF FileSoFar
<1>8. QED
  BY <1>4, <1>6, <1>7 DEF Content

\* A file is given up.
LEMMA GiveUpContent ==
  ASSUME IInv, Phase, Content, LoadFilter, GiveUp
  PROVE  Content'
<1>1. /\ UNCHANGED <<profile, line, conf, dev, filters, pos, err>> /\ At = "file" /\ At' = "file"
      /\ tmp' = << >> /\ todo' = << >>
      /\ refused' = [refused EXCEPT ![dev] = @ \cup {pos}]
  BY LoadPhase DEF GiveUp
<1>2. /\ refused \in [Device -> SUBSET Nat] /\ dev \in Device /\ line[dev] = << >>
      /\ pos \in Nat /\ pos > 0
  BY <1>1, ProfileTyped DEF Phase
<1>3. /\ refused'[dev] = refused[dev] \cup {pos}
      /\ \A d \in Device : d # dev => refused'[d] = refused[d]
  BY <1>1, <1>2
<1>4. LinesDone'
  BY <1>1, <1>2, <1>3, SameLines DEF Content
<1>5. refused[dev] \subseteq 1..pos
  BY <1>1 DEF Content, ProfileSoFar
<1>6. ProfileSoFar'
  <2>1. refused'[dev] \subseteq 1..pos
    BY <1>2, <1>3, <1>5
  <2>2. \A i \in 1..Len(profile) : i < pos => (i \in refused'[dev] <=> i \in refused[dev])
    BY <1>2, <1>3
  <2>3. QED
    BY <1>1, <2>1, <2>2, SameFilters DEF Content
<1>7. FileSoFar'
  BY <1>1, <1>3 DEF FileSoFar
<1>8. QED
  BY <1>4, <1>6, <1>7 DEF Content

\* What the filters of l are, with what is still to come.
Filled(c, l, t) == Kinds(c, l) \o t

\* e says the same of the filters of l as c does.
Agree(T, l, c, e) == \A k \in 1..Len(l) : c[l[k]] \in T /\ e[l[k]] = c[l[k]]

\* A filter more and one less to come.
LEMMA KindsAppend ==
  ASSUME NEW S, NEW T, NEW l \in Seq(S), NEW x \in S, NEW c, NEW e, Agree(T, l, c, e),
         NEW t \in Seq(T), t # << >>, e[x] = Head(t)
  PROVE  Filled(e, Append(l, x), Tail(t)) = Filled(c, l, t)
<1>. DEFINE a == Kinds(c, l)
<1>1. a \in Seq(T) /\ Len(a) = Len(l) /\ \A k \in 1..Len(l) : a[k] = e[l[k]]
  BY DEF Kinds, Agree
<1>2. Head(t) \in T /\ Tail(t) \in Seq(T) /\ t = <<Head(t)>> \o Tail(t)
  OBVIOUS
<1>3. Kinds(e, Append(l, x)) = Append(a, Head(t))
  <2>1. /\ Append(l, x) \in Seq(S) /\ Len(Append(l, x)) = Len(l) + 1 /\ Len(l) \in Nat
        /\ \A k \in 1..Len(l) : Append(l, x)[k] = l[k]
        /\ Append(l, x)[Len(l) + 1] = x
    OBVIOUS
  <2>. DEFINE u == Append(a, Head(t))
  <2>. HIDE DEF a
  <2>2. /\ u \in Seq(T) /\ Len(u) = Len(l) + 1
        /\ \A k \in 1..Len(l) : u[k] = a[k]
        /\ u[Len(l) + 1] = Head(t)
    BY <1>1, <1>2, AppendProperties
  <2>3. \A k \in 1..Len(l) + 1 : u[k] = e[Append(l, x)[k]]
    <3>1. ASSUME NEW k \in 1..Len(l) + 1  PROVE u[k] = e[Append(l, x)[k]]
      <4>1. CASE k \in 1..Len(l)
        BY <1>1, <2>1, <2>2, <4>1
      <4>2. CASE k = Len(l) + 1
        BY <2>1, <2>2, <4>2
      <4>3. k \in 1..Len(l) \/ k = Len(l) + 1
        BY <2>1
      <4>4. QED
        BY <4>1, <4>2, <4>3
    <3>2. QED
      BY <3>1
  <2>. HIDE DEF u
  <2>4. u = [k \in 1..Len(u) |-> u[k]]
    BY <2>2
  <2>5. u = [k \in 1..Len(l) + 1 |-> e[Append(l, x)[k]]]
    BY <2>2, <2>3, <2>4
  <2>6. QED
    BY <2>1, <2>5 DEF Kinds, u
<1>4. Append(a, Head(t)) = a \o <<Head(t)>>
  <2>. HIDE DEF a
  <2>1. QED
    BY <1>1, <1>2
<1>. DEFINE h == <<Head(t)>>
            r == Tail(t)
<1>5. h \in Seq(T) /\ r \in Seq(T) /\ t = h \o r
  BY <1>2
<1>. HIDE DEF a, h, r
<1>6. (a \o h) \o r = a \o (h \o r)
  BY <1>1, <1>5, ConcatAssociative
<1>7. QED
  BY <1>3, <1>4, <1>5, <1>6 DEF a, h, r, Filled

\* A filter of a file is made.
LEMMA LinkContent ==
  ASSUME IInv, Phase, Owned, Content, LoadFilter, NEW c \in Name \cup {Plain}, c = Head(todo),
         Memory, Link(c)
  PROVE  Content'
<1>. DEFINE f == NewFilter
<1>1. /\ UNCHANGED <<profile, line, refused, dev, filters, pos, err, pc>>
      /\ At = "file" /\ At' = "file" /\ todo # << >>
      /\ tmp' = Append(tmp, f) /\ todo' = Tail(todo) /\ conf' = [conf EXCEPT ![f] = c]
  BY LoadPhase DEF Link, lineVars, LoadFilter, profileVars
<1>2. f \in Filter /\ conf[f] = None
  BY NewFilterFree
<1>. HIDE DEF f
<1>3. /\ todo \in Seq(Name \cup {Plain, Bad}) /\ tmp \in Seq(Filter)
      /\ conf \in [Filter -> Name \cup {Plain, None}]
  BY DEF Phase, IInv, ListsTyped, FreeHoldsNone
<1>4. \A g \in Filter : conf[g] # None => conf'[g] = conf[g]
  BY <1>1, <1>2, <1>3
<1>5. LinesDone'
  <2>1. \A d \in Device : \A k \in 1..Len(line[d]) : conf'[line[d][k]] = conf[line[d][k]]
    BY <1>4, Elements
  <2>2. QED
    BY <1>1, <2>1, SameLines DEF Content
<1>6. ProfileSoFar'
  <2>1. \A k \in 1..Len(filters) : conf'[filters[k]] = conf[filters[k]]
    BY <1>4, Elements
  <2>2. refused[dev] \subseteq 1..pos
    BY <1>1 DEF Content, ProfileSoFar
  <2>3. QED
    BY <1>1, <2>1, <2>2, SameFilters DEF Content
<1>7. FileSoFar'
  <2>1. ASSUME ~err
        PROVE  /\ pos \notin refused[dev] /\ pc = "file" /\ Files[Line.file] # Missing
               /\ Kinds(conf', tmp') \o todo' = Files[Line.file]
    <3>1. /\ pos \notin refused[dev] /\ pc = "file" /\ Files[Line.file] # Missing
          /\ Kinds(conf, tmp) \o todo = Files[Line.file]
      BY <1>1, <2>1 DEF Content, FileSoFar
    <3>. DEFINE T == Name \cup {Plain, Bad, None}
    <3>2. Agree(T, tmp, conf, conf')
      BY <1>3, <1>4, Elements DEF Agree
    <3>3. todo \in Seq(T)
      BY <1>3
    <3>4. conf'[f] = Head(todo)
      BY <1>1, <1>2, <1>3
    <3>. HIDE DEF T
    <3>5. Filled(conf', Append(tmp, f), Tail(todo)) = Filled(conf, tmp, todo)
      <4>1. todo # << >> /\ f \in Filter /\ tmp \in Seq(Filter)
        BY <1>1, <1>2, <1>3
      <4>2. QED
        BY <3>2, <3>3, <3>4, <4>1, KindsAppend
    <3>6. QED
      BY <1>1, <3>1, <3>5 DEF Filled
  <2>2. Line' = Line
    BY <1>1 DEF Line
  <2>3. QED
    BY <1>1, <2>1, <2>2 DEF FileSoFar
<1>8. QED
  BY <1>5, <1>6, <1>7 DEF Content

\* A filter of a file is made or refused.
LEMMA LoadContent ==
  ASSUME IInv, Phase, Owned, Content, LoadFilter
  PROVE  Content'
<1>1. GiveUp \/ \E c \in Name \cup {Plain} : c = Head(todo) /\ Memory /\ Link(c)
  BY DEF LoadFilter, FromPipe
<1>2. QED
  BY <1>1, GiveUpContent, LinkContent

\* The filters of a file are there, or all are given up.
LEMMA FileContent ==
  ASSUME IInv, Phase, Rules, Owned, Content, FileDone
  PROVE  Content'
<1>1. /\ UNCHANGED <<profile, line, refused, dev, conf, err>> /\ pc = "file" /\ todo = << >>
  BY DEF FileDone, filterVars
<1>2. LinesDone'
  BY <1>1, SameLines DEF Content
<1>3. CASE err
  <2>1. At' = "idle"
    BY <1>3 DEF FileDone, Free, At
  <2>2. QED
    BY <1>2, <2>1 DEF Content, ProfileSoFar, FileSoFar
<1>4. CASE ~err
  <2>1. pc' = "profile" /\ filters' = filters \o tmp /\ pos' = pos + 1
    BY <1>4 DEF FileDone
  <2>2. At = "file" /\ At' = "profile"
    BY <1>1, <2>1 DEF At
  <2>3. /\ profile \in Profiles /\ Len(profile) \in Nat /\ pos \in 1..Len(profile) /\ pos \in Nat
        /\ dev \in Device /\ matched # 0 /\ Line = profile[pos] /\ profile[pos].type = "File"
    BY <2>2, ProfileTyped DEF Phase, Line, IsFile
  <2>4. /\ filters \in Seq(Filter) /\ tmp \in Seq(Filter)
        /\ conf \in [Filter -> Name \cup {Plain, None}]
    BY DEF IInv, ListsTyped, FreeHoldsNone
  <2>. DEFINE w == Due(dev) \ refused[dev]
  <2>5. Whole(profile, w, pos, conf, filters) /\ refused[dev] \subseteq 1..pos
    BY <2>2 DEF Content, ProfileSoFar
  <2>6. \A i \in w : i \in 1..Len(profile) /\ profile[i].type = "File"
    BY DueTyped
  <2>7. Whole(profile, w, pos + 1, conf, filters \o tmp)
    <3>1. CASE pos \in refused[dev]
      <4>1. tmp = << >> /\ pos \notin w
        BY <1>4, <2>2, <3>1 DEF Content, FileSoFar
      <4>2. filters \o tmp = filters
        BY <2>4, <4>1
      <4>. HIDE DEF w
      <4>3. Whole(profile, w, pos + 1, conf, filters)
        BY <2>3, <2>5, <2>6, <4>1, WholeSkips
      <4>4. QED
        BY <4>2, <4>3
    <3>2. CASE pos \notin refused[dev]
      <4>1. /\ Files[profile[pos].file] # Missing
            /\ Kinds(conf, tmp) \o << >> = Files[profile[pos].file]
        BY <1>1, <1>4, <2>2, <2>3, <3>2 DEF Content, FileSoFar
      <4>2. Kinds(conf, tmp) = Files[profile[pos].file]
        <5>1. Kinds(conf, tmp) \in Seq(Name \cup {Plain, None})
          BY <2>4 DEF Kinds
        <5>2. Kinds(conf, tmp) \o << >> = Kinds(conf, tmp)
          BY <5>1
        <5>3. QED
          BY <4>1, <5>2
      <4>3. pos \in w
        <5>1. Follows(profile, dev, pos)
          BY <2>2, <2>3, FollowsNext DEF Rules
        <5>2. pos \in Due(dev)
          BY <2>3, <5>1, DueFollows
        <5>3. QED
          BY <3>2, <5>2
      <4>. HIDE DEF w
      <4>4. QED
        BY <2>3, <2>4, <2>5, <2>6, <4>1, <4>2, <4>3, WholeAdds
    <3>3. QED
      BY <3>1, <3>2
  <2>8. refused[dev] \subseteq 1..pos + 1 /\ pos + 1 \notin refused[dev]
    BY <2>3, <2>5
  <2>9. Due(dev)' = Due(dev)
    BY <1>1 DEF Due, For, IsFile
  <2>. HIDE DEF w
  <2>10. ProfileSoFar'
    BY <1>1, <2>1, <2>7, <2>8, <2>9 DEF ProfileSoFar, w
  <2>11. FileSoFar'
    BY <2>2 DEF FileSoFar
  <2>12. QED
    BY <1>2, <2>10, <2>11 DEF Content
<1>5. QED
  BY <1>3, <1>4

\* The line gets the filters.
LEMMA CreateDoneContent ==
  ASSUME IInv, Phase, Content, CreateDone
  PROVE  Content'
<1>1. /\ UNCHANGED <<profile, refused, conf>> /\ pc = "profile" /\ pc' = "idle"
      /\ line' = [line EXCEPT ![dev] = filters] /\ pos > Len(profile)
  BY DEF CreateDone, filterVars
<1>2. At = "profile" /\ At' = "idle"
  BY <1>1 DEF At
<1>3. /\ dev \in Device /\ line \in [Device -> Seq(Filter)] /\ pos = Len(profile) + 1
      /\ profile \in Profiles
  BY <1>1, ProfileTyped DEF Phase, IInv, ListsTyped
<1>4. LinesDone'
  <2>. SUFFICES ASSUME NEW d \in Device, line'[d] # << >>
                PROVE  Whole(profile, Due(d)' \ refused'[d], Len(profile) + 1, conf', line'[d])
    BY <1>1 DEF LinesDone
  <2>1. Due(d)' = Due(d)
    BY <1>1, SameDue
  <2>2. CASE d = dev
    <3>1. Whole(profile, Due(dev) \ refused[dev], pos, conf, filters)
      BY <1>2 DEF Content, ProfileSoFar
    <3>2. line'[d] = filters
      BY <1>1, <1>3, <2>2
    <3>3. QED
      BY <1>1, <1>3, <2>1, <2>2, <3>1, <3>2
  <2>3. CASE d # dev
    <3>1. line'[d] = line[d]
      BY <1>1, <1>3, <2>3
    <3>2. Whole(profile, Due(d) \ refused[d], Len(profile) + 1, conf, line[d])
      BY <3>1 DEF Content, LinesDone
    <3>3. QED
      BY <1>1, <2>1, <3>1, <3>2
  <2>4. QED
    BY <2>2, <2>3
<1>5. QED
  BY <1>2, <1>4 DEF Content, ProfileSoFar, FileSoFar

\* A filter that is freed is neither in a line nor in filters.
LEMMA FreeContent ==
  ASSUME IInv, Phase, Owned, Content, FreeFilter
  PROVE  Content'
<1>. DEFINE f == Head(doomed)
<1>1. /\ UNCHANGED <<profile, line, refused, dev, pos, filters, tmp, todo, err, pc, after>>
      /\ pc = "free" /\ doomed # << >> /\ conf' = [conf EXCEPT ![f] = None]
  BY DEF FreeFilter, lineVars, profileVars, fileVars
<1>2. f \in Filter /\ f \in ToSet(doomed) /\ conf \in [Filter -> Name \cup {Plain, None}]
  <2>1. doomed \in Seq(Filter)
    BY DEF IInv, ListsTyped
  <2>2. f = doomed[1] /\ 1 \in DOMAIN doomed /\ f \in Filter
    BY <1>1, <2>1
  <2>3. QED
    BY <2>2 DEF ToSet, IInv, FreeHoldsNone
<1>. HIDE DEF f
<1>3. \A g \in Filter : g \notin ToSet(doomed) => conf'[g] = conf[g]
  BY <1>1, <1>2
<1>4. At' = At
  BY <1>1 DEF At
<1>5. LinesDone'
  <2>1. \A d \in Device : \A k \in 1..Len(line[d]) : conf'[line[d][k]] = conf[line[d][k]]
    BY <1>3, Elements
  <2>2. QED
    BY <1>1, <2>1, SameLines DEF Content
<1>6. ProfileSoFar'
  <2>1. CASE At = "idle"
    BY <1>4, <2>1 DEF ProfileSoFar
  <2>2. CASE At # "idle"
    <3>1. \A k \in 1..Len(filters) : conf'[filters[k]] = conf[filters[k]]
      BY <1>3, Elements
    <3>2. refused[dev] \subseteq 1..pos /\ (pos \in refused[dev] => At = "file")
      BY <2>2 DEF Content, ProfileSoFar
    <3>3. QED
      BY <1>1, <1>4, <2>2, <3>1, <3>2, SameFilters DEF Content
  <2>3. QED
    BY <2>1, <2>2
<1>7. FileSoFar'
  BY <1>1, <1>4 DEF Content, FileSoFar
<1>8. QED
  BY <1>5, <1>6, <1>7 DEF Content

\* A line is destroyed, or there is nothing left to free.
LEMMA DestroyContent ==
  ASSUME IInv, Phase, Content, (\E d \in Device : Destroy(d)) \/ FreeDone \/ UNCHANGED vars
  PROVE  Content'
<1>1. CASE FreeDone \/ UNCHANGED vars
  <2>1. UNCHANGED <<profile, line, conf, refused, dev, pos, filters, tmp, todo, err>>
    BY <1>1 DEF FreeDone, vars, filterVars, lineVars, profileVars, fileVars
  <2>2. At' = At /\ (pc = "file" => pc' = "file")
    BY <1>1 DEF FreeDone, vars, freeVars, At, Phase
  <2>3. LinesDone'
    BY <2>1, SameLines DEF Content
  <2>4. ProfileSoFar'
    <3>1. Due(dev)' = Due(dev)
      BY <2>1 DEF Due, For, IsFile
    <3>2. QED
      BY <2>1, <2>2, <3>1 DEF Content, ProfileSoFar
  <2>5. FileSoFar'
    <3>1. Line' = Line
      BY <2>1 DEF Line
    <3>2. QED
      BY <2>1, <2>2, <3>1 DEF Content, FileSoFar
  <2>6. QED
    BY <2>3, <2>4, <2>5 DEF Content
<1>2. ASSUME NEW d \in Device, Destroy(d)  PROVE Content'
  <2>1. UNCHANGED <<profile, conf, refused>> /\ line' = [line EXCEPT ![d] = << >>]
    BY <1>2 DEF Destroy, filterVars
  <2>2. At' = "idle"
    BY <1>2 DEF Destroy, Free, At
  <2>3. \A e \in Device : line'[e] # << >> => line'[e] = line[e]
    BY <2>1 DEF IInv, ListsTyped
  <2>4. LinesDone'
    BY <2>1, <2>3, SameLines DEF Content
  <2>5. QED
    BY <2>2, <2>4 DEF Content, ProfileSoFar, FileSoFar
<1>3. QED
  BY <1>1, <1>2

\* The four parts of the invariant hold together.
LEMMA NextLInv == IInv /\ LInv /\ [Next]_vars => LInv'
<1>. SUFFICES ASSUME IInv, LInv, [Next]_vars  PROVE LInv'
  OBVIOUS
<1>1. Phase /\ Rules /\ Owned /\ Content
  BY DEF LInv
<1>2. Phase' /\ Rules' /\ Owned'
  BY <1>1, NextPhase, NextOwned
<1>3. Content'
  BY <1>1, CreateContent, NoFileContent, OpenContent, LoadContent, FileContent,
     CreateDoneContent, FreeContent, DestroyContent DEF Next
<1>4. QED
  BY <1>2, <1>3 DEF LInv

\* The second invariant holds in all states of all behaviours.
THEOREM ListsInvariance == Spec => []LInv
<1>1. Init => LInv
  BY InitPhase, InitOwned, InitContent DEF LInv
<1>2. IInv /\ LInv /\ [Next]_vars => LInv'
  BY NextLInv
<1>3. QED
  BY <1>1, <1>2, Invariance, PTL DEF Spec

\* The state keeps its types, and no list names a filter twice or one that is
\* freed.
THEOREM Types == Spec => []TypeOK
<1>1. IInv /\ LInv => TypeOK
  <2>. SUFFICES ASSUME IInv, LInv  PROVE TypeOK
    OBVIOUS
  <2>1. Phase /\ Owned
    BY DEF LInv
  <2>2. held \in [Filter -> Pipe \cup {0}]
    BY DEF IInv, Balanced
  <2>3. ASSUME NEW l \in Lists
        PROVE  /\ IsInjective(l)
               /\ \A k \in 1..Len(l) : l[k] \in Filter /\ conf[l[k]] # None
    <3>1. IsInjective(l)
      BY <2>1 DEF Owned
    <3>2. (\E d \in Device : l = line[d]) \/ l = filters \/ l = tmp \/ l = doomed
      BY DEF Lists
    <3>3. QED
      BY <2>1, <3>1, <3>2, Elements
  <2>4. QED
    BY <2>1, <2>2, <2>3 DEF TypeOK, Phase
<1>2. QED
  BY <1>1, Invariance, ListsInvariance, PTL

\* A filter that is allocated is in the line of one device, or in one of the lists
\* of the program, or lost with the file of a failed load: it is freed once.
THEOREM FiltersFreedOnce == Spec => []FreedOnce
<1>1. LInv => FreedOnce
  <2>. SUFFICES ASSUME LInv  PROVE FreedOnce
    OBVIOUS
  <2>. DEFINE work == [filters |-> ToSet(filters), tmp |-> ToSet(tmp),
                       doomed |-> ToSet(doomed), leaked |-> leaked]
              Owners(f) == {d \in Device : f \in ToSet(line[d])}
                             \cup {w \in DOMAIN work : f \in work[w]}
  <2>1. OwnedOnce(Own, conf)
    BY DEF LInv, Owned
  <2>2. DOMAIN work = Work /\ \A w \in Work : work[w] = Own[w]
    BY OwnOf DEF Work
  <2>3. \A f : Owners(f) = {o \in Owner : f \in Own[o]}
    <3>. HIDE DEF work
    <3>1. \A d \in Device : Own[d] = ToSet(line[d])
      BY OwnOf
    <3>2. QED
      BY <2>2, <3>1 DEF Owner
  <2>. HIDE DEF work
  <2>4. ASSUME NEW f \in Filter
        PROVE  Cardinality(Owners(f)) = IF conf[f] = None THEN 0 ELSE 1
    <3>1. CASE conf[f] = None
      <4>1. Owners(f) = {}
        BY <2>1, <2>3, <3>1 DEF OwnedOnce
      <4>. HIDE DEF Owners
      <4>2. QED
        BY <3>1, <4>1, FS_EmptySet
    <3>2. CASE conf[f] # None
      <4>1. PICK o \in Owner : f \in Own[o]
        BY <2>1, <3>2 DEF OwnedOnce
      <4>2. \A a \in Owner : f \in Own[a] => a = o
        BY <2>1, <4>1 DEF OwnedOnce
      <4>3. Owners(f) = {o}
        BY <2>3, <4>1, <4>2
      <4>. HIDE DEF Owners
      <4>4. QED
        BY <3>2, <4>3, FS_Singleton
    <3>3. QED
      BY <3>1, <3>2
  <2>5. QED
    BY <2>4 DEF FreedOnce, work
<1>2. QED
  BY <1>1, ListsInvariance, PTL

\* A line has the filters of the files that its profile names for the device, in
\* order, of each file all or none.
THEOREM LinesMatch == Spec => []LineMatchesProfile
<1>1. LInv => LineMatchesProfile
  <2>. SUFFICES ASSUME LInv, NEW d \in Device, line[d] # << >>
                PROVE  [k \in 1..Len(line[d]) |-> conf[line[d][k]]]
                         = FlattenSeq([i \in 1..Len(profile) |->
                                          IF For(d, i) /\ i \notin refused[d]
                                          THEN Files[profile[i].file] ELSE << >>])
    BY DEF LineMatchesProfile
  <2>. DEFINE w == Due(d) \ refused[d]
  <2>1. Kinds(conf, line[d]) = FlattenSeq(Parts(profile, w, Len(profile) + 1))
    BY DEF LInv, Content, LinesDone, Whole
  <2>2. Len(profile) \in Nat
    BY ProfileTyped DEF LInv, Phase
  <2>3. \A i \in 1..Len(profile) :
           (i \in w /\ i < Len(profile) + 1) <=> (For(d, i) /\ i \notin refused[d])
    BY <2>2 DEF Due
  <2>4. Parts(profile, w, Len(profile) + 1)
          = [i \in 1..Len(profile) |-> IF For(d, i) /\ i \notin refused[d]
                                       THEN Files[profile[i].file] ELSE << >>]
    <3>. HIDE DEF w
    <3>1. QED
      BY <2>3 DEF Parts
  <2>5. QED
    BY <2>1, <2>4 DEF Kinds
<1>2. QED
  BY <1>1, ListsInvariance, PTL
=============================================================================
