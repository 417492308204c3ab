-------------------------- MODULE ConfigRowsLemmas --------------------------
(***************************************************************************)
(* Lemmas about the files of ConfigRows: what the operations on sequences  *)
(* leave in which place, which rows an edit or a handler changes, and which*)
(* of them share a Secret.                                                 *)
(***************************************************************************)
EXTENDS ConfigRows, SequenceTheorems, TLAPS

-----------------------------------------------------------------------------
(***************************************************************************)
(* Sequences, places and files                                             *)
(***************************************************************************)
\* The elements after the one that RemoveAt takes out move up by one.
LEMMA RemoveAtFacts ==
    ASSUME NEW S, NEW s \in Seq(S), NEW i \in DOMAIN s
    PROVE  /\ RemoveAt(s, i) \in Seq(S)
           /\ DOMAIN RemoveAt(s, i) = 1..(Len(s) - 1)
           /\ \A j \in 1..(Len(s) - 1) :
                 RemoveAt(s, i)[j] = IF j < i THEN s[j] ELSE s[j + 1]
  <1> DEFINE a == SubSeq(s, 1, i - 1)
             b == SubSeq(s, i + 1, Len(s))
  <1>1. Len(s) \in Nat /\ i \in 1..Len(s) /\ DOMAIN s = 1..Len(s)
    BY LenProperties
  <1>2. /\ a \in Seq(S) /\ Len(a) = i - 1
        /\ \A j \in 1..(i - 1) : a[j] = s[j]
    BY <1>1, SubSeqProperties
  <1>3. /\ b \in Seq(S) /\ Len(b) = Len(s) - i
        /\ \A j \in 1..(Len(s) - i) : b[j] = s[j + i]
    BY <1>1, SubSeqProperties
  <1>4. RemoveAt(s, i) = a \o b
    BY DEF RemoveAt
  <1> HIDE DEF a, b
  <1>5. /\ a \o b \in Seq(S) /\ Len(a \o b) = Len(s) - 1
        /\ \A j \in 1..(Len(s) - 1) : (a \o b)[j] = IF j < i THEN a[j] ELSE b[j - (i - 1)]
    <2>1. /\ a \o b \in Seq(S) /\ Len(a \o b) = Len(a) + Len(b)
          /\ \A j \in 1..(Len(a) + Len(b)) :
                (a \o b)[j] = IF j <= Len(a) THEN a[j] ELSE b[j - Len(a)]
      BY <1>2, <1>3, ConcatProperties
    <2>2. Len(a) + Len(b) = Len(s) - 1 /\ \A j \in Int : j <= Len(a) <=> j < i
      BY <1>1, <1>2, <1>3
    <2> QED
      BY <1>2, <2>1, <2>2
  <1>6. ASSUME NEW j \in 1..(Len(s) - 1)
        PROVE  (a \o b)[j] = IF j < i THEN s[j] ELSE s[j + 1]
    <2>1. CASE j < i
      BY <1>1, <1>2, <1>5, <2>1
    <2>2. CASE ~ (j < i)
      <3>1. j - (i - 1) \in 1..(Len(s) - i) /\ (j - (i - 1)) + i = j + 1
        BY <1>1, <2>2
      <3> QED
        BY <1>3, <1>5, <2>2, <3>1
    <2> QED
      BY <2>1, <2>2
  <1> QED
    BY <1>4, <1>5, <1>6, LenProperties

\* Reverse keeps the elements, from the last to the first.
LEMMA ReverseFacts ==
    ASSUME NEW S, NEW s \in Seq(S)
    PROVE  /\ Reverse(s) \in Seq(S)
           /\ DOMAIN Reverse(s) = DOMAIN s
           /\ \A j \in DOMAIN s : /\ Reverse(s)[j] = s[Len(s) - j + 1]
                                  /\ Len(s) - j + 1 \in DOMAIN s
  <1>1. Len(s) \in Nat /\ DOMAIN s = 1..Len(s) /\ s \in [1..Len(s) -> S]
    BY LenProperties
  <1>2. \A j \in 1..Len(s) : Len(s) - j + 1 \in 1..Len(s)
    BY <1>1
  <1>3. Reverse(s) \in [1..Len(s) -> S]
    BY <1>1, <1>2 DEF Reverse
  <1>4. Reverse(s) \in Seq(S)
    BY <1>1, <1>3, SeqDef
  <1> QED
    BY <1>1, <1>2, <1>4 DEF Reverse

\* A place is the index of a server and the index of a row in it.
LEMMA PlaceFacts ==
    ASSUME NEW f, NEW p
    PROVE  p \in Places(f) <=>
              \E s \in DOMAIN f : \E d \in DOMAIN f[s].rows : p = <<s, d>>
  BY DEF Places

\* The two indices of a place.
LEMMA PlaceOf ==
    ASSUME NEW f, NEW p \in Places(f)
    PROVE  /\ p[1] \in DOMAIN f /\ p[2] \in DOMAIN f[p[1]].rows
           /\ p = <<p[1], p[2]>>
  BY PlaceFacts

\* The types of the parts of a file.
LEMMA FileFacts ==
    ASSUME NEW f \in File
    PROVE  /\ f \in Seq(Server) /\ DOMAIN f = 1..Len(f) /\ Len(f) \in Nat
           /\ \A s \in DOMAIN f :
                 /\ f[s] \in Server /\ f[s].name \in ServerName
                 /\ f[s].rows \in Seq(Row) /\ DOMAIN f[s].rows = 1..Len(f[s].rows)
                 /\ Len(f[s].rows) \in Nat
           /\ \A p \in Places(f) : RowAt(f, p) \in Row
  <1>1. f \in Seq(Server) /\ DOMAIN f = 1..Len(f) /\ Len(f) \in Nat
    BY LenProperties DEF File
  <1>2. ASSUME NEW s \in DOMAIN f
        PROVE  /\ f[s] \in Server /\ f[s].name \in ServerName
               /\ f[s].rows \in Seq(Row) /\ DOMAIN f[s].rows = 1..Len(f[s].rows)
               /\ Len(f[s].rows) \in Nat
    <2>1. f[s] \in Server
      BY <1>1, ElementOfSeq
    <2> QED
      BY <2>1, LenProperties DEF Server
  <1>3. ASSUME NEW p \in Places(f)
        PROVE  RowAt(f, p) \in Row
    <2>1. p[1] \in DOMAIN f /\ p[2] \in DOMAIN f[p[1]].rows
      BY PlaceOf
    <2> QED
      BY <1>2, <2>1, ElementOfSeq DEF RowAt
  <1> QED
    BY <1>1, <1>2, <1>3

\* A server is given other rows.
LEMMA RowsFacts ==
    ASSUME NEW f \in File, NEW s \in DOMAIN f, NEW rows \in Seq(Row)
    PROVE  LET g == [f EXCEPT ![s].rows = rows]
           IN  /\ g \in File /\ DOMAIN g = DOMAIN f
               /\ \A x \in DOMAIN f : x # s => g[x] = f[x]
               /\ g[s].name = f[s].name /\ g[s].rows = rows
  <1> DEFINE srv == [f[s] EXCEPT !.rows = rows]
             g == [f EXCEPT ![s].rows = rows]
  <1>1. f[s] \in Server /\ f \in Seq(Server) /\ s \in 1..Len(f)
    BY FileFacts
  <1>2. srv \in Server /\ srv.name = f[s].name /\ srv.rows = rows
    BY <1>1 DEF Server
  <1>3. g = [f EXCEPT ![s] = srv]
    OBVIOUS
  <1> HIDE DEF srv, g
  <1>4. g \in File /\ DOMAIN g = DOMAIN f
    BY <1>1, <1>2, <1>3, ExceptSeq, LenProperties DEF File
  <1>5. g[s] = srv /\ \A x \in DOMAIN f : x # s => g[x] = f[x]
    BY <1>3
  <1> QED
    BY <1>2, <1>4, <1>5 DEF g

-----------------------------------------------------------------------------
(***************************************************************************)
(* Files that differ in a row, or in the places of rows                    *)
(***************************************************************************)
\* g is f with the row r at p0, in the place of another or added.
PutRow(f, g, p0, r) ==
    /\ Places(g) = Places(f) \cup {p0}
    /\ \A p \in Places(g) : RowAt(g, p) = IF p = p0 THEN r ELSE RowAt(f, p)

\* The rows of g are rows of f, at other places and under other names.
SameRow(r, x) == r.id = x.id /\ r.secret = x.secret /\ r.migrate = x.migrate
Origin(f, g, h) ==
    /\ \A p \in Places(g) : h[p] \in Places(f) /\ SameRow(RowAt(g, p), RowAt(f, h[p]))
    /\ \A p, q \in Places(g) : h[p] = h[q] => p = q
Moved(f, g) == \E h : Origin(f, g, h)

\* A row is put where another was.
LEMMA WithRowFacts ==
    ASSUME NEW f \in File, NEW s \in DOMAIN f, NEW d \in DOMAIN f[s].rows, NEW r \in Row
    PROVE  LET g == [f EXCEPT ![s].rows[d] = r]
           IN  g \in File /\ PutRow(f, g, <<s, d>>, r) /\ <<s, d>> \in Places(f)
  <1> DEFINE g == [f EXCEPT ![s].rows[d] = r]
             rows == [f[s].rows EXCEPT ![d] = r]
  <1>1. /\ f[s].rows \in Seq(Row) /\ d \in 1..Len(f[s].rows)
    BY FileFacts
  <1>2. rows \in Seq(Row) /\ DOMAIN rows = DOMAIN f[s].rows
    BY <1>1, ExceptSeq
  <1>3. \A x \in DOMAIN f[s].rows : rows[x] = IF x = d THEN r ELSE f[s].rows[x]
    OBVIOUS
  <1>4. g = [f EXCEPT ![s].rows = rows]
    OBVIOUS
  <1> HIDE DEF rows
  <1>a. /\ [f EXCEPT ![s].rows = rows] \in File
        /\ DOMAIN [f EXCEPT ![s].rows = rows] = DOMAIN f
        /\ \A x \in DOMAIN f : x # s => [f EXCEPT ![s].rows = rows][x] = f[x]
        /\ [f EXCEPT ![s].rows = rows][s].rows = rows
    BY <1>2, RowsFacts
  <1> HIDE DEF g
  <1>5. /\ g \in File /\ DOMAIN g = DOMAIN f
        /\ g[s].rows = rows /\ \A x \in DOMAIN f : x # s => g[x] = f[x]
    BY <1>4, <1>a
  <1>6. Places(g) = Places(f) /\ <<s, d>> \in Places(f)
    <2>1. ASSUME NEW x \in DOMAIN f
          PROVE  DOMAIN g[x].rows = DOMAIN f[x].rows
      <3>1. CASE x = s
        BY <1>2, <1>5, <3>1
      <3>2. CASE x # s
        BY <1>5, <3>2
      <3> QED
        BY <3>1, <3>2
    <2>2. \A p : p \in Places(g) <=> p \in Places(f)
      BY <1>5, <2>1, PlaceFacts
    <2>3. <<s, d>> \in Places(f)
      BY PlaceFacts
    <2> QED
      BY <2>2, <2>3
  <1>7. ASSUME NEW p \in Places(g)
        PROVE  RowAt(g, p) = IF p = <<s, d>> THEN r ELSE RowAt(f, p)
    <2>1. p[1] \in DOMAIN f /\ p[2] \in DOMAIN f[p[1]].rows /\ p = <<p[1], p[2]>>
      BY <1>6, PlaceOf
    <2>2. p = <<s, d>> <=> p[1] = s /\ p[2] = d
      BY <2>1
    <2> QED
      BY <1>3, <1>5, <2>1, <2>2 DEF RowAt
  <1>8. PutRow(f, g, <<s, d>>, r)
    BY <1>6, <1>7 DEF PutRow
  <1> QED
    BY <1>5, <1>6, <1>8 DEF g

\* A row is added after the rows of a server.
LEMMA AppendRowFacts ==
    ASSUME NEW f \in File, NEW s \in DOMAIN f, NEW r \in Row
    PROVE  LET g == [f EXCEPT ![s].rows = Append(f[s].rows, r)]
               p == <<s, Len(f[s].rows) + 1>>
           IN  g \in File /\ PutRow(f, g, p, r) /\ p \notin Places(f)
  <1> DEFINE g == [f EXCEPT ![s].rows = Append(f[s].rows, r)]
             rows == Append(f[s].rows, r)
             n == Len(f[s].rows) + 1
  <1>1. /\ f[s].rows \in Seq(Row) /\ Len(f[s].rows) \in Nat
        /\ DOMAIN f[s].rows = 1..(n - 1) /\ n \in Nat
    BY FileFacts
  <1>2. /\ rows \in Seq(Row) /\ DOMAIN rows = 1..n
        /\ rows[n] = r /\ \A x \in 1..(n - 1) : rows[x] = f[s].rows[x]
    BY <1>1, AppendProperties, LenProperties
  <1>3. /\ g \in File /\ DOMAIN g = DOMAIN f
        /\ g[s].rows = rows /\ \A x \in DOMAIN f : x # s => g[x] = f[x]
    BY <1>2, RowsFacts
  <1> HIDE DEF g, rows, n
  <1>4. <<s, n>> \notin Places(f)
    <2>1. n \notin 1..(n - 1)
      BY <1>1
    <2> QED
      BY <1>1, <2>1, PlaceOf
  <1>5. 1..n = (1..(n - 1)) \cup {n} /\ n # 0
    BY <1>1 DEF n
  <1>6. Places(g) = Places(f) \cup {<<s, n>>}
    <2>1. DOMAIN g[s].rows = DOMAIN f[s].rows \cup {n}
      BY <1>1, <1>2, <1>3, <1>5
    <2>2. ASSUME NEW x \in DOMAIN f, x # s
          PROVE  DOMAIN g[x].rows = DOMAIN f[x].rows
      BY <1>3, <2>2
    <2>3. \A p : p \in Places(g) <=> p \in Places(f) \/ p = <<s, n>>
      BY <1>3, <2>1, <2>2, PlaceFacts
    <2> QED
      BY <2>3
  <1>7. ASSUME NEW p \in Places(g)
        PROVE  RowAt(g, p) = IF p = <<s, n>> THEN r ELSE RowAt(f, p)
    <2>1. CASE p = <<s, n>>
      BY <1>2, <1>3, <2>1 DEF RowAt
    <2>2. CASE p # <<s, n>>
      <3>1. p[1] \in DOMAIN f /\ p[2] \in DOMAIN f[p[1]].rows
        BY <1>6, <2>2, PlaceOf
      <3> QED
        BY <1>1, <1>2, <1>3, <2>2, <3>1 DEF RowAt
    <2> QED
      BY <2>1, <2>2
  <1>8. PutRow(f, g, <<s, n>>, r)
    BY <1>6, <1>7 DEF PutRow
  <1> QED
    BY <1>3, <1>4, <1>8 DEF g, n

\* Servers with the same rows, but for their names.
LEMMA SameRowsFacts ==
    ASSUME NEW f, NEW g, DOMAIN g = DOMAIN f,
           \A s \in DOMAIN f : g[s].rows = f[s].rows
    PROVE  Places(g) = Places(f) /\ \A p \in Places(f) : RowAt(g, p) = RowAt(f, p)
  <1>1. \A p : p \in Places(g) <=> p \in Places(f)
    BY PlaceFacts
  <1>2. \A p \in Places(f) : p[1] \in DOMAIN f
    BY PlaceOf
  <1> QED
    BY <1>1, <1>2 DEF RowAt

\* A server that is renamed keeps its rows.
LEMMA RenameFacts ==
    ASSUME NEW f \in File, NEW s \in DOMAIN f, NEW n \in ServerName
    PROVE  LET g == [f EXCEPT ![s].name = n]
           IN  /\ g \in File /\ Places(g) = Places(f)
               /\ \A p \in Places(f) : RowAt(g, p) = RowAt(f, p)
  <1> DEFINE g == [f EXCEPT ![s].name = n]
             srv == [f[s] EXCEPT !.name = n]
  <1>1. f[s] \in Server /\ f \in Seq(Server) /\ s \in 1..Len(f)
    BY FileFacts
  <1>2. srv \in Server /\ srv.rows = f[s].rows
    BY <1>1 DEF Server
  <1>3. g = [f EXCEPT ![s] = srv]
    OBVIOUS
  <1> HIDE DEF g, srv
  <1>4. g \in File /\ DOMAIN g = DOMAIN f
    BY <1>1, <1>2, <1>3, ExceptSeq, LenProperties DEF File
  <1>5. \A x \in DOMAIN f : g[x].rows = f[x].rows
    BY <1>2, <1>3
  <1> QED
    BY <1>4, <1>5, SameRowsFacts DEF g

\* A new server has no rows.
LEMMA AddServerFacts ==
    ASSUME NEW f \in File, NEW n \in ServerName
    PROVE  LET g == Append(f, [name |-> n, rows |-> <<>>])
           IN  /\ g \in File /\ Places(g) = Places(f)
               /\ \A p \in Places(f) : RowAt(g, p) = RowAt(f, p)
  <1> DEFINE srv == [name |-> n, rows |-> <<>>]
             g == Append(f, srv)
             m == Len(f) + 1
  <1>1. f \in Seq(Server) /\ Len(f) \in Nat /\ DOMAIN f = 1..Len(f)
    BY FileFacts
  <1>2. srv \in Server /\ srv.rows = <<>>
    BY EmptySeq DEF Server
  <1>3. DOMAIN srv.rows = {}
    BY <1>2
  <1> HIDE DEF srv
  <1>4. /\ g \in File /\ DOMAIN g = 1..m
        /\ \A s \in DOMAIN f : g[s] = f[s]
        /\ g[m] = srv
    BY <1>1, <1>2, AppendProperties, LenProperties DEF File
  <1> HIDE DEF g
  <1>5. DOMAIN g = DOMAIN f \cup {m}
    BY <1>1, <1>4
  <1>6. \A p : p \in Places(g) <=> p \in Places(f)
    BY <1>3, <1>4, <1>5, PlaceFacts
  <1>7. \A p \in Places(f) : RowAt(g, p) = RowAt(f, p)
    BY <1>4, PlaceOf DEF RowAt
  <1>8. Places(g) = Places(f)
    BY <1>6
  <1> QED
    BY <1>4, <1>7, <1>8 DEF g, srv

\* A file is Moved when each of its rows has an origin of its own.
LEMMA OriginFacts ==
    ASSUME NEW f, NEW g, NEW h, DOMAIN h = Places(g),
           \A p \in Places(g) : h[p] \in Places(f) /\ SameRow(RowAt(g, p), RowAt(f, h[p])),
           \A p, q \in Places(g) : h[p] = h[q] => p = q
    PROVE  Moved(f, g)
  BY DEF Moved, Origin

\* Other rows in one server, each from a place of its own.
LEMMA MovedRows ==
    ASSUME NEW f \in File, NEW s \in DOMAIN f, NEW rows \in Seq(Row), NEW k,
           \A j \in DOMAIN rows : /\ k[j] \in DOMAIN f[s].rows
                                  /\ SameRow(rows[j], f[s].rows[k[j]]),
           \A i, j \in DOMAIN rows : k[i] = k[j] => i = j
    PROVE  LET g == [f EXCEPT ![s].rows = rows]
           IN  g \in File /\ Moved(f, g)
  <1> DEFINE g == [f EXCEPT ![s].rows = rows]
             h == [p \in Places(g) |-> IF p[1] = s THEN <<s, k[p[2]]>> ELSE p]
  <1>1. /\ g \in File /\ DOMAIN g = DOMAIN f
        /\ g[s].rows = rows /\ \A x \in DOMAIN f : x # s => g[x] = f[x]
    BY RowsFacts
  <1> HIDE DEF g
  <1>2. \A p \in Places(g) : /\ p[1] \in DOMAIN f /\ p[2] \in DOMAIN g[p[1]].rows
                             /\ p = <<p[1], p[2]>>
    BY <1>1, PlaceOf
  <1>3. ASSUME NEW p \in Places(g)
        PROVE  h[p] \in Places(f) /\ SameRow(RowAt(g, p), RowAt(f, h[p]))
    <2>1. CASE p[1] = s
      <3>1. p[2] \in DOMAIN rows /\ h[p] = <<s, k[p[2]]>>
        BY <1>1, <1>2, <2>1
      <3>2. <<s, k[p[2]]>> \in Places(f)
        BY <3>1, PlaceFacts
      <3>3. RowAt(g, p) = rows[p[2]] /\ RowAt(f, <<s, k[p[2]]>>) = f[s].rows[k[p[2]]]
        BY <1>1, <2>1 DEF RowAt
      <3> QED
        BY <3>1, <3>2, <3>3
    <2>2. CASE p[1] # s
      <3>1. h[p] = p /\ g[p[1]] = f[p[1]] /\ p[1] \in DOMAIN f
        BY <1>1, <1>2, <2>2
      <3>2. p \in Places(f)
        BY <1>2, <3>1, PlaceFacts
      <3> QED
        BY <3>1, <3>2 DEF RowAt, SameRow
    <2> QED
      BY <2>1, <2>2
  <1>4. ASSUME NEW p \in Places(g), NEW q \in Places(g), h[p] = h[q]
        PROVE  p = q
    <2>1. (p[1] = s <=> q[1] = s) /\ p[1] = q[1]
      BY <1>4, <1>2
    <2>2. CASE p[1] = s
      <3>1. p[2] \in DOMAIN rows /\ q[2] \in DOMAIN rows /\ k[p[2]] = k[q[2]]
        BY <1>1, <1>2, <1>4, <2>1, <2>2
      <3> QED
        BY <1>2, <2>1, <3>1
    <2>3. CASE p[1] # s
      BY <1>4, <2>1, <2>3
    <2> QED
      BY <2>2, <2>3
  <1> HIDE DEF h
  <1>5. DOMAIN h = Places(g)
    BY DEF h
  <1>6. Moved(f, g)
    BY <1>3, <1>4, <1>5, OriginFacts
  <1> QED
    BY <1>1, <1>6 DEF g

\* Other servers, each from a place of its own.
LEMMA MovedServers ==
    ASSUME NEW f \in File, NEW g \in File, NEW k,
           \A j \in DOMAIN g : k[j] \in DOMAIN f /\ g[j] = f[k[j]],
           \A i, j \in DOMAIN g : k[i] = k[j] => i = j
    PROVE  Moved(f, g)
  <1> DEFINE h == [p \in Places(g) |-> <<k[p[1]], p[2]>>]
  <1>1. \A p \in Places(g) : /\ p[1] \in DOMAIN g /\ p[2] \in DOMAIN g[p[1]].rows
                             /\ p = <<p[1], p[2]>>
    BY PlaceOf
  <1>2. ASSUME NEW p \in Places(g)
        PROVE  h[p] \in Places(f) /\ SameRow(RowAt(g, p), RowAt(f, h[p]))
    <2>1. /\ h[p] = <<k[p[1]], p[2]>> /\ k[p[1]] \in DOMAIN f
          /\ g[p[1]] = f[k[p[1]]] /\ p[2] \in DOMAIN f[k[p[1]]].rows
      BY <1>1
    <2>2. <<k[p[1]], p[2]>> \in Places(f)
      BY <2>1, PlaceFacts
    <2>3. RowAt(f, <<k[p[1]], p[2]>>) = RowAt(g, p)
      BY <2>1 DEF RowAt
    <2> QED
      BY <2>1, <2>2, <2>3 DEF SameRow
  <1>3. ASSUME NEW p \in Places(g), NEW q \in Places(g), h[p] = h[q]
        PROVE  p = q
    <2>1. k[p[1]] = k[q[1]] /\ p[2] = q[2]
      BY <1>3
    <2> QED
      BY <1>1, <2>1
  <1> HIDE DEF h
  <1>4. DOMAIN h = Places(g)
    BY DEF h
  <1> QED
    BY <1>2, <1>3, <1>4, OriginFacts

\* t is s without its element at i, and k says where each element comes from.
Removal(s, i, t, k) ==
    /\ \A j \in DOMAIN t : k[j] \in DOMAIN s \ {i} /\ t[j] = s[k[j]]
    /\ \A j, l \in DOMAIN t : k[j] = k[l] => j = l
    /\ \A j \in DOMAIN s \ {i} : \E l \in DOMAIN t : k[l] = j

\* Each element that stays has one place before and one after.
LEMMA RemovedFrom ==
    ASSUME NEW S, NEW s \in Seq(S), NEW i \in DOMAIN s
    PROVE  RemoveAt(s, i) \in Seq(S) /\ \E k : Removal(s, i, RemoveAt(s, i), k)
  <1> DEFINE t == RemoveAt(s, i)
             k == [j \in DOMAIN t |-> IF j < i THEN j ELSE j + 1]
  <1>1. Len(s) \in Nat /\ DOMAIN s = 1..Len(s)
    BY LenProperties
  <1>2. /\ t \in Seq(S) /\ DOMAIN t = 1..(Len(s) - 1)
        /\ \A j \in 1..(Len(s) - 1) : t[j] = IF j < i THEN s[j] ELSE s[j + 1]
    BY RemoveAtFacts
  <1> HIDE DEF t
  <1>3. ASSUME NEW j \in DOMAIN t
        PROVE  k[j] \in DOMAIN s \ {i} /\ t[j] = s[k[j]]
    BY <1>1, <1>2
  <1>4. \A j, l \in DOMAIN t : k[j] = k[l] => j = l
    BY <1>1, <1>2
  <1>5. ASSUME NEW j \in DOMAIN s \ {i}
        PROVE  \E l \in DOMAIN t : k[l] = j
    <2>1. CASE j < i
      <3>1. j \in DOMAIN t /\ k[j] = j
        BY <1>1, <1>2, <2>1
      <3> QED
        BY <3>1
    <2>2. CASE ~ (j < i)
      <3>1. j - 1 \in DOMAIN t /\ ~ (j - 1 < i) /\ j - 1 + 1 = j
        BY <1>1, <1>2, <2>2
      <3> QED
        BY <3>1
    <2> QED
      BY <2>1, <2>2
  <1> HIDE DEF k
  <1>6. Removal(s, i, t, k)
    BY <1>3, <1>4, <1>5 DEF Removal
  <1> QED
    BY <1>2, <1>6 DEF t

\* The servers in the opposite order have the same rows.
LEMMA ReversedServers ==
    ASSUME NEW f \in File
    PROVE  Reverse(f) \in File /\ Moved(f, Reverse(f))
  <1> DEFINE k == [j \in DOMAIN f |-> Len(f) - j + 1]
             g == Reverse(f)
  <1>f. f \in Seq(Server) /\ DOMAIN f = 1..Len(f) /\ Len(f) \in Nat
    BY FileFacts
  <1>1. /\ g \in Seq(Server) /\ DOMAIN g = DOMAIN f
        /\ \A j \in DOMAIN f : g[j] = f[Len(f) - j + 1] /\ Len(f) - j + 1 \in DOMAIN f
    BY <1>f, ReverseFacts
  <1> HIDE DEF g
  <1>2. \A j \in DOMAIN g : k[j] \in DOMAIN f /\ g[j] = f[k[j]]
    BY <1>1
  <1>3. \A i, j \in DOMAIN g : k[i] = k[j] => i = j
    BY <1>f, <1>1
  <1> HIDE DEF k
  <1>4. g \in File
    BY <1>1 DEF File
  <1>5. Moved(f, g)
    BY <1>2, <1>3, <1>4, MovedServers
  <1> QED
    BY <1>4, <1>5 DEF g

\* Whatever an edit by hand does, it brings no row and no Secret into the file.
LEMMA EditFacts ==
    ASSUME NEW f \in File, NEW g \in Edited(f), g # Unreadable
    PROVE  g \in File /\ Moved(f, g)
  <1>f. f \in Seq(Server) /\ DOMAIN f = 1..Len(f) /\ Len(f) \in Nat
    BY FileFacts
  <1>r. \A s \in DOMAIN f : f[s].rows \in Seq(Row)
    BY FileFacts
  <1>1. CASE g = Reverse(f)
    BY <1>1, ReversedServers
  <1>2. CASE \E s \in DOMAIN f : g = [f EXCEPT ![s].rows = Reverse(@)]
    <2> PICK s \in DOMAIN f : g = [f EXCEPT ![s].rows = Reverse(f[s].rows)]
      BY <1>2
    <2> DEFINE rows == Reverse(f[s].rows)
               n == Len(f[s].rows)
               k == [j \in DOMAIN f[s].rows |-> n - j + 1]
    <2>0. f[s].rows \in Seq(Row) /\ n \in Nat /\ DOMAIN f[s].rows = 1..n
      BY <1>r, LenProperties
    <2>1. rows \in Seq(Row) /\ DOMAIN rows = DOMAIN f[s].rows
          /\ \A j \in DOMAIN f[s].rows : /\ rows[j] = f[s].rows[n - j + 1]
                                         /\ n - j + 1 \in DOMAIN f[s].rows
      BY <2>0, ReverseFacts
    <2>2. g = [f EXCEPT ![s].rows = rows]
      OBVIOUS
    <2> HIDE DEF rows, n
    <2>3. \A j \in DOMAIN rows : /\ k[j] \in DOMAIN f[s].rows
                                /\ SameRow(rows[j], f[s].rows[k[j]])
      BY <2>1 DEF SameRow
    <2>4. \A i, j \in DOMAIN rows : k[i] = k[j] => i = j
      BY <2>0, <2>1
    <2> HIDE DEF k
    <2>5. /\ [f EXCEPT ![s].rows = rows] \in File
          /\ Moved(f, [f EXCEPT ![s].rows = rows])
      BY <2>1, <2>3, <2>4, MovedRows
    <2> QED
      BY <2>2, <2>5
  <1>3. CASE \E p \in Places(f) : g = [f EXCEPT ![p[1]].rows = RemoveAt(@, p[2])]
    <2> PICK p \in Places(f) : g = [f EXCEPT ![p[1]].rows = RemoveAt(f[p[1]].rows, p[2])]
      BY <1>3
    <2>0. p[1] \in DOMAIN f /\ p[2] \in DOMAIN f[p[1]].rows /\ f[p[1]].rows \in Seq(Row)
      BY <1>r, PlaceOf
    <2> DEFINE rows == RemoveAt(f[p[1]].rows, p[2])
    <2>1. rows \in Seq(Row)
      BY <2>0, RemovedFrom
    <2>k. PICK k : Removal(f[p[1]].rows, p[2], rows, k)
      BY <2>0, RemovedFrom
    <2>2. /\ \A j \in DOMAIN rows : /\ k[j] \in DOMAIN f[p[1]].rows
                                   /\ rows[j] = f[p[1]].rows[k[j]]
          /\ \A j, l \in DOMAIN rows : k[j] = k[l] => j = l
      BY <2>k DEF Removal
    <2>3. g = [f EXCEPT ![p[1]].rows = rows]
      OBVIOUS
    <2> HIDE DEF rows
    <2>4. \A j \in DOMAIN rows : /\ k[j] \in DOMAIN f[p[1]].rows
                                /\ SameRow(rows[j], f[p[1]].rows[k[j]])
      BY <2>2 DEF SameRow
    <2>5. /\ [f EXCEPT ![p[1]].rows = rows] \in File
          /\ Moved(f, [f EXCEPT ![p[1]].rows = rows])
      BY <2>0, <2>1, <2>2, <2>4, MovedRows
    <2> QED
      BY <2>3, <2>5
  <1>4. CASE \E p \in Places(f), n \in DbName : g = [f EXCEPT ![p[1]].rows[p[2]].db = n]
    <2> PICK p \in Places(f), n \in DbName : g = [f EXCEPT ![p[1]].rows[p[2]].db = n]
      BY <1>4
    <2>0. p[1] \in DOMAIN f /\ p[2] \in DOMAIN f[p[1]].rows
      BY PlaceOf
    <2> DEFINE old == f[p[1]].rows
               r == [old[p[2]] EXCEPT !.db = n]
               rows == [old EXCEPT ![p[2]] = r]
               k == [j \in DOMAIN old |-> j]
    <2>1. old \in Seq(Row) /\ DOMAIN old = 1..Len(old)
      BY <1>r, <2>0, LenProperties
    <2>2. old[p[2]] \in Row
      BY <2>0, <2>1, ElementOfSeq
    <2>3. r \in Row /\ SameRow(r, old[p[2]])
      BY <2>2 DEF Row, SameRow
    <2>4. g = [f EXCEPT ![p[1]].rows = rows]
      OBVIOUS
    <2> HIDE DEF r
    <2>5. rows \in Seq(Row) /\ DOMAIN rows = DOMAIN old
      BY <2>0, <2>1, <2>3, ExceptSeq
    <2>6. \A j \in DOMAIN rows : k[j] \in DOMAIN old /\ SameRow(rows[j], old[k[j]])
      BY <2>3, <2>5 DEF SameRow
    <2>7. \A i, j \in DOMAIN rows : k[i] = k[j] => i = j
      BY <2>5
    <2> HIDE DEF rows, k
    <2>8. /\ [f EXCEPT ![p[1]].rows = rows] \in File
          /\ Moved(f, [f EXCEPT ![p[1]].rows = rows])
      BY <2>0, <2>5, <2>6, <2>7, MovedRows
    <2> QED
      BY <2>4, <2>8
  <1> DEFINE A == {[f EXCEPT ![s].rows = Reverse(@)] : s \in DOMAIN f}
             B == {[f EXCEPT ![p[1]].rows = RemoveAt(@, p[2])] : p \in Places(f)}
             C == UNION {{[f EXCEPT ![p[1]].rows[p[2]].db = n] : n \in DbName} : p \in Places(f)}
  <1>5. Edited(f) = {Reverse(f), Unreadable} \cup A \cup B \cup C
    BY DEF Edited
  <1>6. g \in A => \E s \in DOMAIN f : g = [f EXCEPT ![s].rows = Reverse(@)]
    OBVIOUS
  <1>7. g \in B => \E p \in Places(f) : g = [f EXCEPT ![p[1]].rows = RemoveAt(@, p[2])]
    OBVIOUS
  <1>8. g \in C =>
           \E p \in Places(f), n \in DbName : g = [f EXCEPT ![p[1]].rows[p[2]].db = n]
    OBVIOUS
  <1> HIDE DEF A, B, C
  <1>9. g = Reverse(f) \/ g \in A \/ g \in B \/ g \in C
    BY <1>5
  <1> QED
    BY <1>1, <1>2, <1>3, <1>4, <1>6, <1>7, <1>8, <1>9

\* Two sets of rows, but for the ones with the id i.
SameButFor(f, g, i) ==
    /\ \A p \in Places(g) : RowAt(g, p).id # i =>
          \E q \in Places(f) : RowAt(f, q) = RowAt(g, p)
    /\ \A q \in Places(f) : RowAt(f, q).id # i =>
          \E p \in Places(g) : RowAt(f, q) = RowAt(g, p)

\* A row is deleted, and all others stay somewhere in the file.
LEMMA DeleteRowFacts ==
    ASSUME NEW f \in File, NEW s \in DOMAIN f, NEW d \in DOMAIN f[s].rows
    PROVE  LET g == [f EXCEPT ![s].rows = RemoveAt(f[s].rows, d)]
           IN  g \in File /\ Moved(f, g) /\ SameButFor(f, g, f[s].rows[d].id)
  <1> DEFINE old == f[s].rows
             rows == RemoveAt(old, d)
             g == [f EXCEPT ![s].rows = rows]
  <1>1. old \in Seq(Row)
    BY FileFacts
  <1>2. rows \in Seq(Row)
    BY <1>1, RemovedFrom
  <1>k. PICK k : Removal(old, d, rows, k)
    BY <1>1, RemovedFrom
  <1>3. /\ \A j \in DOMAIN rows : k[j] \in DOMAIN old \ {d} /\ rows[j] = old[k[j]]
        /\ \A j, l \in DOMAIN rows : k[j] = k[l] => j = l
        /\ \A j \in DOMAIN old \ {d} : \E l \in DOMAIN rows : k[l] = j
    BY <1>k DEF Removal
  <1> HIDE DEF rows
  <1>4. \A j \in DOMAIN rows : k[j] \in DOMAIN old /\ SameRow(rows[j], old[k[j]])
    BY <1>3 DEF SameRow
  <1>5. g \in File /\ Moved(f, g)
    BY <1>2, <1>3, <1>4, MovedRows
  <1>6. /\ DOMAIN g = DOMAIN f /\ g[s].rows = rows
        /\ \A x \in DOMAIN f : x # s => g[x] = f[x]
    BY <1>2, RowsFacts
  <1> HIDE DEF g
  <1>7. ASSUME NEW p \in Places(g)
        PROVE  \E q \in Places(f) : RowAt(f, q) = RowAt(g, p)
    <2>1. p[1] \in DOMAIN f /\ p[2] \in DOMAIN g[p[1]].rows
      BY <1>6, PlaceOf
    <2>2. CASE p[1] = s
      <3>1. <<s, k[p[2]]>> \in Places(f) /\ RowAt(f, <<s, k[p[2]]>>) = RowAt(g, p)
        BY <1>3, <1>6, <2>1, <2>2, PlaceFacts DEF RowAt
      <3> QED
        BY <3>1
    <2>3. CASE p[1] # s
      <3>1. g[p[1]] = f[p[1]] /\ <<p[1], p[2]>> \in Places(f)
        BY <1>6, <2>1, <2>3, PlaceFacts
      <3>2. RowAt(f, <<p[1], p[2]>>) = RowAt(g, p)
        BY <3>1 DEF RowAt
      <3> QED
        BY <3>1, <3>2
    <2> QED
      BY <2>2, <2>3
  <1>8. ASSUME NEW q \in Places(f), RowAt(f, q).id # f[s].rows[d].id
        PROVE  \E p \in Places(g) : RowAt(f, q) = RowAt(g, p)
    <2>1. q[1] \in DOMAIN f /\ q[2] \in DOMAIN f[q[1]].rows
      BY PlaceOf
    <2>2. CASE q[1] = s
      <3>1. q[2] # d
        BY <1>8, <2>2 DEF RowAt
      <3>2. PICK l \in DOMAIN rows : k[l] = q[2]
        BY <1>3, <2>1, <2>2, <3>1
      <3>3. <<s, l>> \in Places(g) /\ RowAt(f, q) = RowAt(g, <<s, l>>)
        BY <1>3, <1>6, <2>2, <3>2, PlaceFacts DEF RowAt
      <3> QED
        BY <3>3
    <2>3. CASE q[1] # s
      <3>1. g[q[1]] = f[q[1]] /\ <<q[1], q[2]>> \in Places(g)
        BY <1>6, <2>1, <2>3, PlaceFacts
      <3>2. RowAt(f, q) = RowAt(g, <<q[1], q[2]>>)
        BY <3>1 DEF RowAt
      <3> QED
        BY <3>1, <3>2
    <2> QED
      BY <2>2, <2>3
  <1>9. SameButFor(f, g, f[s].rows[d].id)
    BY <1>7, <1>8 DEF SameButFor
  <1> QED
    BY <1>5, <1>9 DEF g, rows

\* A server is deleted, with its rows.
LEMMA DeleteServerFacts ==
    ASSUME NEW f \in File, NEW s \in DOMAIN f
    PROVE  /\ RemoveAt(f, s) \in File /\ Moved(f, RemoveAt(f, s))
           /\ RowsOf(RemoveAt(f, s)) \subseteq RowsOf(f)
  <1>1. f \in Seq(Server)
    BY DEF File
  <1> DEFINE g == RemoveAt(f, s)
  <1>2. g \in Seq(Server) /\ \E k : Removal(f, s, g, k)
    BY <1>1, RemovedFrom
  <1> HIDE DEF g
  <1>3. PICK k : Removal(f, s, g, k)
    BY <1>2
  <1>4. /\ \A j \in DOMAIN g : k[j] \in DOMAIN f /\ g[j] = f[k[j]]
        /\ \A j, l \in DOMAIN g : k[j] = k[l] => j = l
    BY <1>3 DEF Removal
  <1>5. Moved(f, g)
    BY <1>2, <1>4, MovedServers DEF File
  <1>6. ASSUME NEW p \in Places(g)
        PROVE  RowAt(g, p) \in RowsOf(f)
    <2>1. p[1] \in DOMAIN g /\ p[2] \in DOMAIN g[p[1]].rows
      BY PlaceOf
    <2>2. <<k[p[1]], p[2]>> \in Places(f) /\ RowAt(f, <<k[p[1]], p[2]>>) = RowAt(g, p)
      BY <1>4, <2>1, PlaceFacts DEF RowAt
    <2> QED
      BY <2>2 DEF RowsOf
  <1>7. RowsOf(g) \subseteq RowsOf(f)
    BY <1>6 DEF RowsOf
  <1> QED
    BY <1>2, <1>5, <1>7 DEF g, File

\* A row that changes at its place is the only one that does.
LEMMA PutSame ==
    ASSUME NEW f, NEW g, NEW p0 \in Places(f), NEW r, PutRow(f, g, p0, r),
           r.id = RowAt(f, p0).id
    PROVE  SameButFor(f, g, r.id)
  BY DEF PutRow, SameButFor

\* OnlyRow, of two files that differ in one row.
LEMMA OnlyRowOf ==
    ASSUME NEW i, SameButFor(file, file', i)
    PROVE  OnlyRow(i)
  <1> SUFFICES ASSUME NEW j \in Id \ {i}
               PROVE  Occurrences(file', j) = Occurrences(file, j)
    BY DEF OnlyRow
  <1>1. \A r : r \in Occurrences(file', j) <=> r \in Occurrences(file, j)
    BY DEF SameButFor, Occurrences
  <1> QED
    BY <1>1

-----------------------------------------------------------------------------
(***************************************************************************)
(* Rows that share a Secret                                                *)
(***************************************************************************)
\* The row r at p0 names no Secret that another live row of f names, unless one of
\* the two is in T.
Fits(f, p0, r, T) ==
    Live(r) /\ r.secret # NoSecret =>
        \A q \in Places(f) \ {p0} :
            Live(RowAt(f, q)) /\ RowAt(f, q).secret = r.secret
            => r.id \in T \/ RowAt(f, q).id \in T

Shared(f, T) == \A p \in Places(f) : Fits(f, p, RowAt(f, p), T)

\* More tombstones excuse more.
LEMMA SharedGrows ==
    ASSUME NEW f, NEW T, NEW U, T \subseteq U, Shared(f, T)
    PROVE  Shared(f, U)
  BY DEF Shared, Fits

\* Rows that move do not come to share Secrets.
LEMMA SharedMoved ==
    ASSUME NEW f, NEW g, NEW T, Shared(f, T), Moved(f, g)
    PROVE  Shared(g, T)
  <1> PICK h : Origin(f, g, h)
    BY DEF Moved
  <1> SUFFICES ASSUME NEW p \in Places(g), NEW q \in Places(g) \ {p},
                      Live(RowAt(g, p)), RowAt(g, p).secret # NoSecret,
                      Live(RowAt(g, q)), RowAt(g, q).secret = RowAt(g, p).secret
               PROVE  RowAt(g, p).id \in T \/ RowAt(g, q).id \in T
    BY DEF Shared, Fits
  <1>1. /\ h[p] \in Places(f) /\ h[q] \in Places(f) /\ h[p] # h[q]
        /\ SameRow(RowAt(g, p), RowAt(f, h[p])) /\ SameRow(RowAt(g, q), RowAt(f, h[q]))
    BY DEF Origin
  <1> QED
    BY <1>1 DEF Shared, Fits, SameRow, Live

\* Neither do they when a row is put among them that fits.
LEMMA SharedPut ==
    ASSUME NEW f, NEW g, NEW p0, NEW r, NEW T, Shared(f, T), PutRow(f, g, p0, r),
           Fits(f, p0, r, T)
    PROVE  Shared(g, T)
  <1> SUFFICES ASSUME NEW p \in Places(g), NEW q \in Places(g) \ {p},
                      Live(RowAt(g, p)), RowAt(g, p).secret # NoSecret,
                      Live(RowAt(g, q)), RowAt(g, q).secret = RowAt(g, p).secret
               PROVE  RowAt(g, p).id \in T \/ RowAt(g, q).id \in T
    BY DEF Shared, Fits
  <1>1. CASE p = p0
    <2>1. RowAt(g, p) = r /\ q \in Places(f) \ {p0} /\ RowAt(g, q) = RowAt(f, q)
      BY <1>1 DEF PutRow
    <2> QED
      BY <2>1 DEF Fits
  <1>2. CASE q = p0
    <2>1. RowAt(g, q) = r /\ p \in Places(f) \ {p0} /\ RowAt(g, p) = RowAt(f, p)
      BY <1>2 DEF PutRow
    <2> QED
      BY <2>1 DEF Fits
  <1>3. CASE p # p0 /\ q # p0
    <2>1. /\ p \in Places(f) /\ q \in Places(f) \ {p}
          /\ RowAt(g, p) = RowAt(f, p) /\ RowAt(g, q) = RowAt(f, q)
      BY <1>3 DEF PutRow
    <2> QED
      BY <2>1 DEF Shared, Fits
  <1> QED
    BY <1>1, <1>2, <1>3

\* Neither do they when only names of servers change.
LEMMA SharedSame ==
    ASSUME NEW f, NEW g, NEW T, Shared(f, T), Places(g) = Places(f),
           \A p \in Places(f) : RowAt(g, p) = RowAt(f, p)
    PROVE  Shared(g, T)
  BY DEF Shared, Fits

-----------------------------------------------------------------------------
(***************************************************************************)
(* What a handler makes of the file that it read                           *)
(***************************************************************************)
\* Every row stays where it was.
Extends(f, g) ==
    \A p \in Places(f) : p \in Places(g) /\ RowAt(g, p).id = RowAt(f, p).id

\* What it makes of the rows, as Register has it.
Lands(f, q, g) ==
    /\ q.op \in RowOp \cup {"addDatabase"} => Reg!ChangesRow(RowsOf(f), RowsOf(g))
    /\ q.op \in {"addServer", "renameServer"} => RowsOf(g) = RowsOf(f)
    /\ q.op = "deleteServer" => RowsOf(g) \subseteq RowsOf(f)

\* What the request q, accepted, makes of the file f.
Effect(f, q, g) ==
    /\ g \in File
    /\ Lands(f, q, g)
    /\ \A T : Tombstones(f) \subseteq T /\ Shared(f, T) => Shared(g, T)
    /\ q.op \in RowOp => SameButFor(f, g, RowAt(f, <<q.si, q.di>>).id)

\* The arguments suit the operation.
Suits(q) ==
    /\ q \in Request
    /\ q.op \in {"addServer", "renameServer"} => q.name \in ServerName
    /\ q.op = "addDatabase" => q.name \in DbName /\ q.ticket > 0
    /\ q.shown # NoName => q.op \in RowOp

\* A row keeps its Secret, or has claimed the one it names.
LEMMA NamesFacts ==
    ASSUME NEW f, NEW r,
           \/ \E p \in Places(f) : RowAt(f, p).id = r.id /\ RowAt(f, p).secret = r.secret
           \/ r.secret # NoSecret => Claimable(f, r.secret)
    PROVE  Reg!MayName(r, RowsOf(f))
  BY DEF Reg!MayName, RowsOf, Claimable, Live

\* All rows but one are the same.
LEMMA SameButChanges ==
    ASSUME NEW f, NEW g, NEW i \in Id, SameButFor(f, g, i),
           \A r \in RowsOf(g) \ RowsOf(f) : Reg!MayName(r, RowsOf(f))
    PROVE  Reg!ChangesRow(RowsOf(f), RowsOf(g))
  <1>1. Reg!AllBut(RowsOf(g), i) = Reg!AllBut(RowsOf(f), i)
    BY DEF Reg!AllBut, RowsOf, SameButFor
  <1> QED
    BY <1>1 DEF Reg!ChangesRow

\* A row is put where another was, or where none was.
LEMMA PutChanges ==
    ASSUME NEW f, NEW g, NEW p0, NEW r, r.id \in Id, PutRow(f, g, p0, r),
           p0 \in Places(f) => RowAt(f, p0).id = r.id,
           Reg!MayName(r, RowsOf(f))
    PROVE  Reg!ChangesRow(RowsOf(f), RowsOf(g))
  <1>1. SameButFor(f, g, r.id)
    BY DEF SameButFor, PutRow
  <1>2. \A x \in RowsOf(g) \ RowsOf(f) : x = r
    BY DEF RowsOf, PutRow
  <1> QED
    BY <1>1, <1>2, SameButChanges

\* The place a request of a row is for, when it is accepted.
LEMMA TargetFacts ==
    ASSUME NEW f \in File, NEW q, Accepts(f, q), q.op \in RowOp
    PROVE  /\ <<q.si, q.di>> \in Places(f)
           /\ q.si \in DOMAIN f /\ q.di \in DOMAIN f[q.si].rows
           /\ RowAt(f, <<q.si, q.di>>) \in Row
           /\ RowAt(f, <<q.si, q.di>>) = f[q.si].rows[q.di]
  <1>1. <<q.si, q.di>> \in Places(f)
    BY DEF Accepts, InRange, RowOp
  <1>2. q.si \in DOMAIN f /\ q.di \in DOMAIN f[q.si].rows
    BY <1>1, PlaceOf
  <1> QED
    BY <1>1, <1>2, FileFacts DEF RowAt

\* A completed row is a tombstone.
LEMMA TombstoneFacts ==
    ASSUME NEW f, NEW p \in Places(f), ~ Live(RowAt(f, p))
    PROVE  RowAt(f, p).id \in Tombstones(f)
  BY DEF Tombstones

\* A row that keeps its Secret fits, if it was live or is a tombstone brought back.
LEMMA UpdateFits ==
    ASSUME NEW f, NEW p \in Places(f), NEW r, NEW T,
           Tombstones(f) \subseteq T, Shared(f, T),
           r.id = RowAt(f, p).id, r.secret = RowAt(f, p).secret
    PROVE  Fits(f, p, r, T)
  <1>1. CASE Live(RowAt(f, p))
    BY <1>1 DEF Shared, Fits
  <1>2. CASE ~ Live(RowAt(f, p))
    <2>1. r.id \in T
      BY <1>2, TombstoneFacts
    <2> QED
      BY <2>1 DEF Fits
  <1> QED
    BY <1>1, <1>2

\* A row whose Secret has been claimed.
LEMMA ClaimFits ==
    ASSUME NEW f, NEW p, NEW r, NEW T,
           r.secret # NoSecret => Claimable(f, r.secret)
    PROVE  Fits(f, p, r, T)
  BY DEF Fits, Claimable

\* A row that fits, with the id of the one whose place it takes.
LEMMA RowEffect ==
    ASSUME NEW f \in File, NEW q, Accepts(f, q), q.op \in RowOp, NEW r \in Row,
           r.id = RowAt(f, <<q.si, q.di>>).id, Reg!MayName(r, RowsOf(f)),
           \A T : Tombstones(f) \subseteq T /\ Shared(f, T) => Fits(f, <<q.si, q.di>>, r, T)
    PROVE  LET g == [f EXCEPT ![q.si].rows[q.di] = r]
           IN  Effect(f, q, g) /\ Extends(f, g)
  <1> DEFINE g == [f EXCEPT ![q.si].rows[q.di] = r]
             p == <<q.si, q.di>>
  <1>1. /\ p \in Places(f)
        /\ q.si \in DOMAIN f /\ q.di \in DOMAIN f[q.si].rows
    BY TargetFacts
  <1>2. g \in File /\ PutRow(f, g, p, r)
    BY <1>1, WithRowFacts
  <1> HIDE DEF g, p
  <1>3. \A T : Tombstones(f) \subseteq T /\ Shared(f, T) => Shared(g, T)
    BY <1>2, SharedPut DEF p
  <1>4. SameButFor(f, g, RowAt(f, p).id)
    BY <1>1, <1>2, PutSame DEF p
  <1>5. Extends(f, g)
    BY <1>1, <1>2 DEF PutRow, Extends, p
  <1>6. Reg!ChangesRow(RowsOf(f), RowsOf(g))
    BY <1>1, <1>2, PutChanges DEF Row, p
  <1>7. Lands(f, q, g)
    BY <1>6 DEF Lands, RowOp
  <1> QED
    BY <1>2, <1>3, <1>4, <1>5, <1>7 DEF g, p, Effect

\* Operations on servers that keep the rows.
LEMMA SameEffect ==
    ASSUME NEW f, NEW q, NEW g \in File, q.op \in {"addServer", "renameServer"},
           Places(g) = Places(f), \A p \in Places(f) : RowAt(g, p) = RowAt(f, p)
    PROVE  Effect(f, q, g) /\ Extends(f, g)
  <1>1. \A T : Shared(f, T) => Shared(g, T)
    BY SharedSame
  <1>2. RowsOf(g) = RowsOf(f)
    BY DEF RowsOf
  <1>3. Lands(f, q, g)
    BY <1>2 DEF Lands, RowOp
  <1> QED
    BY <1>1, <1>3 DEF Effect, Extends, RowOp

\* Deletions.
LEMMA MovedEffect ==
    ASSUME NEW f, NEW q, NEW g \in File, Moved(f, g),
           \/ /\ q.op \in RowOp /\ RowAt(f, <<q.si, q.di>>).id \in Id
              /\ SameButFor(f, g, RowAt(f, <<q.si, q.di>>).id)
           \/ q.op = "deleteServer" /\ RowsOf(g) \subseteq RowsOf(f)
    PROVE  Effect(f, q, g)
  <1>1. \A T : Shared(f, T) => Shared(g, T)
    BY SharedMoved
  <1>2. CASE q.op \in RowOp
    <2> DEFINE i == RowAt(f, <<q.si, q.di>>).id
    <2>1. i \in Id /\ SameButFor(f, g, i)
      BY <1>2 DEF RowOp
    <2> HIDE DEF i
    <2>2. PICK h : Origin(f, g, h)
      BY DEF Moved
    <2>3. ASSUME NEW r \in RowsOf(g)
          PROVE  Reg!MayName(r, RowsOf(f))
      <3>1. PICK p \in Places(g) : r = RowAt(g, p)
        BY DEF RowsOf
      <3>2. h[p] \in Places(f) /\ SameRow(r, RowAt(f, h[p]))
        BY <2>2, <3>1 DEF Origin
      <3> QED
        BY <3>2, NamesFacts DEF SameRow
    <2>4. Reg!ChangesRow(RowsOf(f), RowsOf(g))
      BY <2>1, <2>3, SameButChanges
    <2>5. Lands(f, q, g)
      BY <1>2, <2>4 DEF Lands, RowOp
    <2> QED
      BY <1>1, <1>2, <2>1, <2>5 DEF Effect, i
  <1>3. CASE q.op = "deleteServer"
    <2>1. Lands(f, q, g)
      BY <1>3 DEF Lands, RowOp
    <2> QED
      BY <1>1, <1>3, <2>1 DEF Effect, RowOp
  <1> QED
    BY <1>2, <1>3

\* What a handler, or a migration's outcome, writes.
LEMMA WriteEffects ==
    ASSUME NEW w \in Writer, at[w] = "inside", copy[w] \in File,
           Accepts(copy[w], req[w]), Suits(req[w]), Handler(w)
    PROVE  \/ WriteFails(w)
           \/ \E g : /\ Writes(w, g) /\ Effect(copy[w], req[w], g)
                     /\ (Keeps(w) /\ Extends(copy[w], g)) \/ Shifts(w)
  <1> DEFINE f == copy[w]
             q == req[w]
  <1>q. /\ q \in Request /\ q.ticket \in Ticket /\ q.secret \in Secrets
        /\ q.op \notin {"addServer"} => q.si \in DOMAIN f
        /\ q.secret # NoSecret => Claimable(f, q.secret)
    BY DEF Suits, Request, Accepts, InRange
  \* The operations on a row that stays.
  <1>r. ASSUME q.op \in RowOp, NEW r \in Row, r.id = Target(w).id,
               \/ r.secret = Target(w).secret
               \/ r.secret # NoSecret => Claimable(f, r.secret)
        PROVE  Effect(f, q, WithTarget(w, r)) /\ Extends(f, WithTarget(w, r))
    <2> DEFINE p == <<q.si, q.di>>
    <2>1. Target(w) = RowAt(f, p) /\ p \in Places(f)
      BY <1>r, TargetFacts DEF Target
    <2> HIDE DEF p
    <2>2. \A T : Tombstones(f) \subseteq T /\ Shared(f, T) => Fits(f, p, r, T)
      <3>1. CASE r.secret = Target(w).secret
        BY <1>r, <2>1, <3>1, UpdateFits
      <3>2. CASE r.secret # NoSecret => Claimable(f, r.secret)
        BY <3>2, ClaimFits
      <3> QED
        BY <1>r, <3>1, <3>2
    <2>m. Reg!MayName(r, RowsOf(f))
      BY <1>r, <2>1, NamesFacts
    <2> DEFINE g == [f EXCEPT ![q.si].rows[q.di] = r]
    <2>3. Effect(f, q, g) /\ Extends(f, g)
      BY <1>r, <2>1, <2>2, <2>m, RowEffect DEF p
    <2>4. WithTarget(w, r) = g
      BY DEF WithTarget
    <2> HIDE DEF g
    <2> QED
      BY <1>r, <2>3, <2>4
  <1>t. ASSUME q.op \in RowOp PROVE Target(w) \in Row
    BY <1>t, TargetFacts DEF Target
  <1>m. ASSUME NEW m \in {"none", "pending", "done"}, q.op \in RowOp
        PROVE  LET g == WithTarget(w, [Target(w) EXCEPT !.migrate = m])
               IN  Effect(f, q, g) /\ Extends(f, g)
    <2> DEFINE r == [Target(w) EXCEPT !.migrate = m]
    <2>1. r \in Row /\ r.id = Target(w).id /\ r.secret = Target(w).secret
      BY <1>m, <1>t DEF Row
    <2> HIDE DEF r
    <2>2. Effect(f, q, WithTarget(w, r)) /\ Extends(f, WithTarget(w, r))
      BY <1>m, <1>r, <2>1
    <2> QED
      BY <2>2 DEF r
  <1>1. CASE UpdateDatabase(w)
    <2> DEFINE r == [Target(w) EXCEPT !.settings = q.ticket]
               g == WithTarget(w, r)
    <2>1. q.op \in RowOp /\ Writes(w, g) /\ Keeps(w)
      BY <1>1 DEF UpdateDatabase, Holding, RowOp
    <2>2. r \in Row /\ r.id = Target(w).id /\ r.secret = Target(w).secret
      BY <1>q, <1>t, <2>1 DEF Row
    <2> HIDE DEF r
    <2>3. Effect(f, q, g) /\ Extends(f, g)
      BY <1>r, <2>1, <2>2
    <2> HIDE DEF g
    <2> QED
      BY <2>1, <2>3
  <1>2. CASE MoveToSecret(w)
    <2> DEFINE r == [Target(w) EXCEPT !.secret = q.secret, !.settings = q.ticket]
               g == WithTarget(w, r)
    <2>1. q.op \in RowOp /\ Writes(w, g) /\ Keeps(w)
      BY <1>2 DEF MoveToSecret, Holding, RowOp
    <2>2. r \in Row /\ r.id = Target(w).id /\ r.secret = q.secret
      BY <1>q, <1>t, <2>1 DEF Row
    <2> HIDE DEF r
    <2>3. Effect(f, q, g) /\ Extends(f, g)
      BY <1>q, <1>r, <2>1, <2>2
    <2> HIDE DEF g
    <2> QED
      BY <2>1, <2>3
  <1>3. CASE ScheduleMigration(w) \/ ClearMigration(w) \/ PersistMigrate(w)
    <2> PICK m \in {"none", "pending", "done"} :
           Writes(w, WithTarget(w, [Target(w) EXCEPT !.migrate = m]))
      BY <1>3 DEF ScheduleMigration, ClearMigration, PersistMigrate
    <2> DEFINE g == WithTarget(w, [Target(w) EXCEPT !.migrate = m])
    <2>1. q.op \in RowOp /\ Writes(w, g) /\ Keeps(w)
      BY <1>3 DEF ScheduleMigration, ClearMigration, PersistMigrate, Holding, RowOp
    <2>2. Effect(f, q, g) /\ Extends(f, g)
      BY <1>m, <2>1
    <2> HIDE DEF g
    <2> QED
      BY <2>1, <2>2
  <1>4. CASE AddDatabase(w)
    <2> DEFINE r == NewRow(q)
               g == [f EXCEPT ![q.si].rows = Append(f[q.si].rows, r)]
               p == <<q.si, Len(f[q.si].rows) + 1>>
    <2>1. /\ q.op = "addDatabase" /\ Keeps(w) /\ q.si \in DOMAIN f
          /\ Writes(w, WithRows(w, Append(f[q.si].rows, r)))
      BY <1>4, <1>q DEF AddDatabase, Holding
    <2>2. r \in Row /\ r.secret = q.secret
      <3>1. q.name \in DbName /\ q.ticket \in 1..MaxRequests
        BY <1>q, <2>1, BoundsAssumption DEF Suits, Ticket
      <3>2. NRows + q.ticket \in Id
        BY <3>1, BoundsAssumption, InitialAssumption DEF Id
      <3> QED
        BY <1>q, <3>1, <3>2 DEF NewRow, Row
    <2>3. WithRows(w, Append(f[q.si].rows, r)) = g
      BY DEF WithRows
    <2> HIDE DEF r
    <2>4. g \in File /\ PutRow(f, g, p, r) /\ p \notin Places(f)
      BY <2>1, <2>2, AppendRowFacts
    <2> HIDE DEF g, p
    <2>5. \A T : Fits(f, p, r, T)
      BY <1>q, <2>2, ClaimFits
    <2>6. \A T : Tombstones(f) \subseteq T /\ Shared(f, T) => Shared(g, T)
      BY <2>4, <2>5, SharedPut
    <2>7. Extends(f, g)
      BY <2>4 DEF PutRow, Extends
    <2>8. Reg!MayName(r, RowsOf(f)) /\ r.id \in Id
      BY <1>q, <2>2, NamesFacts DEF Row
    <2>9. Reg!ChangesRow(RowsOf(f), RowsOf(g))
      BY <2>4, <2>8, PutChanges
    <2>10. Lands(f, q, g)
      BY <2>1, <2>9 DEF Lands
    <2>11. Effect(f, q, g)
      BY <2>1, <2>4, <2>6, <2>10 DEF Effect, RowOp
    <2> QED
      BY <2>1, <2>3, <2>7, <2>11
  <1>5. CASE DeleteDatabase(w)
    <2> DEFINE g == [f EXCEPT ![q.si].rows = RemoveAt(f[q.si].rows, q.di)]
    <2>1. q.op \in RowOp /\ Shifts(w) /\ Writes(w, g)
      BY <1>5 DEF DeleteDatabase, Holding, RowOp, WithRows
    <2>2. /\ q.si \in DOMAIN f /\ q.di \in DOMAIN f[q.si].rows
          /\ RowAt(f, <<q.si, q.di>>) = f[q.si].rows[q.di]
          /\ RowAt(f, <<q.si, q.di>>).id \in Id
      BY <2>1, TargetFacts DEF Row
    <2>3. g \in File /\ Moved(f, g) /\ SameButFor(f, g, f[q.si].rows[q.di].id)
      BY <2>2, DeleteRowFacts
    <2> HIDE DEF g
    <2>4. Effect(f, q, g)
      BY <2>1, <2>2, <2>3, MovedEffect
    <2> QED
      BY <2>1, <2>4
  <1>6. CASE AddServer(w)
    <2> DEFINE g == Append(f, [name |-> q.name, rows |-> <<>>])
    <2>1. q.op = "addServer" /\ Keeps(w) /\ Writes(w, g)
      BY <1>6 DEF AddServer, Holding
    <2>2. q.name \in ServerName
      BY <2>1 DEF Suits
    <2>3. /\ g \in File /\ Places(g) = Places(f)
          /\ \A p \in Places(f) : RowAt(g, p) = RowAt(f, p)
      BY <2>2, AddServerFacts
    <2> HIDE DEF g
    <2>4. Effect(f, q, g) /\ Extends(f, g)
      BY <2>1, <2>3, SameEffect
    <2> QED
      BY <2>1, <2>4
  <1>7. CASE RenameServer(w)
    <2> DEFINE g == [f EXCEPT ![q.si].name = q.name]
    <2>1. q.op = "renameServer" /\ Keeps(w) /\ Writes(w, g)
      BY <1>7 DEF RenameServer, Holding
    <2>2. q.name \in ServerName /\ q.si \in DOMAIN f
      BY <1>q, <2>1 DEF Suits
    <2>3. /\ g \in File /\ Places(g) = Places(f)
          /\ \A p \in Places(f) : RowAt(g, p) = RowAt(f, p)
      BY <2>2, RenameFacts
    <2> HIDE DEF g
    <2>4. Effect(f, q, g) /\ Extends(f, g)
      BY <2>1, <2>3, SameEffect
    <2> QED
      BY <2>1, <2>4
  <1>8. CASE DeleteServer(w)
    <2> DEFINE g == RemoveAt(f, q.si)
    <2>1. q.op = "deleteServer" /\ Shifts(w) /\ Writes(w, g)
      BY <1>8 DEF DeleteServer, Holding
    <2>2. g \in File /\ Moved(f, g) /\ RowsOf(g) \subseteq RowsOf(f)
      BY <1>q, <2>1, DeleteServerFacts
    <2> HIDE DEF g
    <2>3. Effect(f, q, g)
      BY <2>1, <2>2, MovedEffect
    <2> QED
      BY <2>1, <2>3
  <1>9. CASE Enter(w) \/ Refuse(w)
    BY <1>9 DEF Enter, Refuse
  <1> QED
    BY <1>1, <1>2, <1>3, <1>4, <1>5, <1>6, <1>7, <1>8, <1>9 DEF Handler

=============================================================================
