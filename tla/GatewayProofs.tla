---------------------------- MODULE GatewayProofs ---------------------------
(***************************************************************************)
(* The path of a call for every tree of capabilities, every table of routes *)
(* and every set of options: the radix tree of the REST transport answers   *)
(* as the table it was compiled from, every answer over HTTP has its        *)
(* headers, a call runs what was chained, in order, whoever asks, and over  *)
(* every surface that carries it a typed call arrives and ends alike.       *)
(***************************************************************************)
EXTENDS Gateway, FilterProofs

Step == Segment \union {Param}

LEMMA ParamIsNoSegment == Param \notin Segment
BY DEF Param, Segment

(* The shape of a path, and of its beginning.                               *)
LEMMA ShapeIs ==
    ASSUME NEW p \in Seq(Segment), NEW n \in 0 .. Len(p)
    PROVE  /\ Shape(SubSeq(p, 1, n)) \in Seq(Step) /\ Len(Shape(SubSeq(p, 1, n))) = n
           /\ \A i \in 1 .. n : Shape(SubSeq(p, 1, n))[i] = IF IsParam(p[i]) THEN Param ELSE p[i]
<1> DEFINE q == SubSeq(p, 1, n)
<1>1. q \in Seq(Segment) /\ Len(q) = n /\ n \in Nat /\ \A i \in 1 .. n : q[i] = p[i] /\ p[i] \in Segment
    OBVIOUS
<1>2. DOMAIN q = 1 .. n
    BY <1>1
<1> HIDE DEF q
<1>3. \A i \in 1 .. n : (IF IsParam(q[i]) THEN Param ELSE q[i]) \in Step
    BY <1>1 DEF Step
<1>4. Shape(q) = [i \in 1 .. n |-> IF IsParam(q[i]) THEN Param ELSE q[i]]
    BY <1>2 DEF Shape
<1>5. Shape(q) \in Seq(Step) /\ Len(Shape(q)) = n
    BY <1>1, <1>3, <1>4
<1>6. \A i \in 1 .. n : Shape(q)[i] = IF IsParam(p[i]) THEN Param ELSE p[i]
    BY <1>1, <1>4
<1> QED BY <1>5, <1>6 DEF q

LEMMA WholeShape ==
    ASSUME NEW p \in Seq(Segment)
    PROVE  /\ Shape(p) \in Seq(Step) /\ Len(Shape(p)) = Len(p)
           /\ \A i \in 1 .. Len(p) : Shape(p)[i] = IF IsParam(p[i]) THEN Param ELSE p[i]
<1>1. SubSeq(p, 1, Len(p)) = p /\ Len(p) \in 0 .. Len(p)
    BY SubSeqFull
<1> QED BY <1>1, ShapeIs

-----------------------------------------------------------------------------
(* A table: its paths are sequences of segments.                            *)
Table(R) == \A r \in R : r.path \in Seq(Segment)

(* The routes through a node are those whose path begins with it.           *)
LEMMA ThroughIs ==
    ASSUME NEW R, Table(R), NEW node \in Seq(Step), NEW r \in R
    PROVE  r \in Through(R, node) <=>
             /\ Len(node) <= Len(r.path)
             /\ \A i \in 1 .. Len(node) : node[i] = IF IsParam(r.path[i]) THEN Param ELSE r.path[i]
<1> DEFINE k == Len(node)
           s == Shape(SubSeq(r.path, 1, k))
<1>1. r.path \in Seq(Segment) /\ k \in Nat /\ Len(r.path) \in Nat
    BY DEF Table
<1>2. ASSUME k <= Len(r.path)
      PROVE  s = node <=> \A i \in 1 .. k : node[i] = IF IsParam(r.path[i]) THEN Param ELSE r.path[i]
  <2>1. s \in Seq(Step) /\ Len(s) = k
        /\ \A i \in 1 .. k : s[i] = IF IsParam(r.path[i]) THEN Param ELSE r.path[i]
    BY <1>1, <1>2, ShapeIs
  <2> HIDE DEF s
  <2>2. s = node <=> \A i \in 1 .. k : s[i] = node[i]
    BY <2>1, SeqEqual
  <2> QED BY <2>1, <2>2
<1> QED BY <1>1, <1>2 DEF Through

LEMMA NodesAre ==
    ASSUME NEW R, Table(R)
    PROVE  /\ Nodes(R) \subseteq Seq(Step)
           /\ \A node \in Seq(Step) :
                node \in Nodes(R) <=> node = <<>> \/ Through(R, node) # {}
<1>1. ASSUME NEW r \in R, NEW i \in DOMAIN r.path
      PROVE  Shape(SubSeq(r.path, 1, i)) \in Seq(Step)
  <2>1. r.path \in Seq(Segment) /\ i \in 0 .. Len(r.path)
    BY DEF Table
  <2> QED BY <2>1, ShapeIs
<1>2. Nodes(R) \subseteq Seq(Step)
  <2>1. <<>> \in Seq(Step)
    OBVIOUS
  <2> SUFFICES ASSUME NEW node \in Nodes(R), node # <<>> PROVE node \in Seq(Step)
    BY <2>1
  <2>2. PICK r \in R : \E i \in DOMAIN r.path : Shape(SubSeq(r.path, 1, i)) = node
    BY DEF Nodes
  <2> QED BY <1>1, <2>2
<1>3. ASSUME NEW node \in Seq(Step), node # <<>>
      PROVE  node \in Nodes(R) <=> Through(R, node) # {}
  <2>1. Len(node) \in Nat /\ Len(node) > 0
    BY <1>3
  <2>2. ASSUME NEW r \in Through(R, node) PROVE node \in Nodes(R)
    <3>1. r \in R /\ Len(node) <= Len(r.path) /\ Shape(SubSeq(r.path, 1, Len(node))) = node
      BY DEF Through
    <3>2. r.path \in Seq(Segment)
      BY <3>1 DEF Table
    <3>3. Len(node) \in DOMAIN r.path
      BY <2>1, <3>1, <3>2
    <3> QED BY <3>1, <3>3 DEF Nodes
  <2>3. ASSUME node \in Nodes(R) PROVE Through(R, node) # {}
    <3>1. PICK r \in R : \E i \in DOMAIN r.path : Shape(SubSeq(r.path, 1, i)) = node
      BY <1>3, <2>3 DEF Nodes
    <3>2. PICK i \in DOMAIN r.path : Shape(SubSeq(r.path, 1, i)) = node
      BY <3>1
    <3>3. r.path \in Seq(Segment) /\ i \in 0 .. Len(r.path)
      BY DEF Table
    <3>4. Len(node) = i
      BY <3>2, <3>3, ShapeIs
    <3>5. r \in Through(R, node)
      BY <3>2, <3>3, <3>4 DEF Through
    <3> QED BY <3>5
  <2> QED BY <2>2, <2>3
<1>4. <<>> \in Nodes(R)
    BY DEF Nodes
<1> QED BY <1>2, <1>3, <1>4

-----------------------------------------------------------------------------
(* A node is on the way of a URL if its steps are the URL's segments, or    *)
(* parameters that can take them.                                           *)
OnWay(node, segments) ==
    \A i \in 1 .. Len(node) :
        node[i] = segments[i] \/ (node[i] = Param /\ ~Malformed(segments[i]))

Tried(R, segments, node) == {r \in Through(R, node) : Fits(r, segments) \/ Stuck(r, segments)}

(* What the routes through a node on the way have in common.                *)
LEMMA OnTheWay ==
    ASSUME NEW R, Table(R), NEW segments \in Seq(Segment), NEW node \in Seq(Step),
           OnWay(node, segments), Len(node) <= Len(segments), NEW r \in Through(R, node)
    PROVE  /\ r \in R /\ r.path \in Seq(Segment) /\ Len(node) <= Len(r.path)
           /\ \A i \in 1 .. Len(node) : /\ IsParam(r.path[i]) <=> node[i] = Param
                                        /\ ~Undecodable(r, segments, i)
                                        /\ ~IsParam(r.path[i]) => r.path[i] = segments[i]
<1>1. r \in R /\ r.path \in Seq(Segment)
    BY DEF Through, Table
<1>2. /\ Len(node) <= Len(r.path)
      /\ \A i \in 1 .. Len(node) : node[i] = IF IsParam(r.path[i]) THEN Param ELSE r.path[i]
    BY <1>1, ThroughIs
<1>3. ASSUME NEW i \in 1 .. Len(node)
      PROVE  /\ IsParam(r.path[i]) <=> node[i] = Param
             /\ ~Undecodable(r, segments, i)
             /\ ~IsParam(r.path[i]) => r.path[i] = segments[i]
  <2>1. r.path[i] \in Segment /\ segments[i] \in Segment
    BY <1>1, <1>2
  <2>2. r.path[i] # Param /\ segments[i] # Param
    BY <2>1, ParamIsNoSegment
  <2> QED BY <1>2, <2>2 DEF OnWay, Undecodable
<1> QED BY <1>1, <1>2, <1>3

(* Where the URL ends, the routes that end too are tried, and no other one; *)
(* none of them is better than another.                                     *)
LEMMA TriedAtEnd ==
    ASSUME NEW R, Table(R), NEW segments \in Seq(Segment), NEW node \in Seq(Step),
           OnWay(node, segments), Len(node) = Len(segments)
    PROVE  /\ Tried(R, segments, node) = Handlers(R, node)
           /\ Best(Tried(R, segments, node), segments) = Handlers(R, node)
           /\ \A r \in Handlers(R, node) : ~Stuck(r, segments)
<1> DEFINE n == Len(segments)
<1>1. n \in Nat /\ Len(node) = n
    OBVIOUS
<1>2. Handlers(R, node) \subseteq Through(R, node)
  <2> SUFFICES ASSUME NEW r \in Handlers(R, node) PROVE r \in Through(R, node)
    OBVIOUS
  <2>1. r \in R /\ r.path \in Seq(Segment) /\ Shape(r.path) = node
    BY DEF Handlers, Table
  <2>2. Len(node) = Len(r.path) /\ Len(r.path) \in Nat /\ SubSeq(r.path, 1, Len(r.path)) = r.path
    BY <2>1, WholeShape, SubSeqFull
  <2>3. SubSeq(r.path, 1, Len(node)) = r.path
    BY <2>2
  <2>4. Len(node) <= Len(r.path)
    BY <2>2
  <2>5. Shape(SubSeq(r.path, 1, Len(node))) = node
    BY <2>1, <2>3, Zenon
  <2> QED BY <2>1, <2>4, <2>5 DEF Through
<1>3. ASSUME NEW r \in Through(R, node) PROVE ~Stuck(r, segments)
  <2> SUFFICES ASSUME NEW i \in DOMAIN r.path, FitsUpTo(r, segments, i), Undecodable(r, segments, i)
               PROVE  FALSE
    BY DEF Stuck
  <2>1. r.path \in Seq(Segment)
    BY OnTheWay
  <2>2. i \in 1 .. n
    BY <2>1 DEF FitsUpTo
  <2> QED BY <2>2, OnTheWay
<1>4. ASSUME NEW r \in Through(R, node) PROVE r \in Handlers(R, node) <=> Fits(r, segments)
  <2>1. /\ r \in R /\ r.path \in Seq(Segment) /\ n <= Len(r.path) /\ Len(r.path) \in Nat
        /\ \A i \in 1 .. n : IsParam(r.path[i]) \/ r.path[i] = segments[i]
        /\ Shape(SubSeq(r.path, 1, n)) = node
    BY OnTheWay DEF Through
  <2>2. Fits(r, segments) <=> Len(r.path) = n
    BY <2>1 DEF Fits, FitsUpTo
  <2>3. Len(Shape(r.path)) = Len(r.path) /\ SubSeq(r.path, 1, Len(r.path)) = r.path
    BY <2>1, WholeShape, SubSeqFull
  <2> QED BY <2>1, <2>2, <2>3 DEF Handlers
<1>5. Tried(R, segments, node) = Handlers(R, node)
    BY <1>2, <1>3, <1>4 DEF Tried
<1>6. ASSUME NEW r \in Handlers(R, node), NEW s \in Handlers(R, node)
      PROVE  ~MoreStatic(s, r, segments)
  <2> SUFFICES ASSUME NEW i \in DOMAIN r.path, ~IsParam(s.path[i]), IsParam(r.path[i]) PROVE FALSE
    BY DEF MoreStatic
  <2>1. r.path \in Seq(Segment) /\ Len(r.path) = n
    BY <1>2, OnTheWay, WholeShape DEF Handlers
  <2> QED BY <1>2, <2>1, OnTheWay
<1> QED BY <1>2, <1>3, <1>5, <1>6 DEF Best

(* Below a node, the static child for the next segment and the parameter    *)
(* share the routes that are tried.                                         *)
LEMMA TriedBelow ==
    ASSUME NEW R, Table(R), NEW segments \in Seq(Segment), NEW node \in Seq(Step),
           OnWay(node, segments), Len(node) < Len(segments), NEW k, k = Len(node) + 1
    PROVE  /\ Append(node, segments[k]) \in Seq(Step) /\ Append(node, Param) \in Seq(Step)
           /\ OnWay(Append(node, segments[k]), segments)
           /\ ~Malformed(segments[k]) => OnWay(Append(node, Param), segments)
           /\ Tried(R, segments, node) = Tried(R, segments, Append(node, segments[k]))
                                         \union Tried(R, segments, Append(node, Param))
           /\ \A r \in Through(R, Append(node, segments[k])) :
                r \in Through(R, node) /\ k \in DOMAIN r.path /\ ~IsParam(r.path[k])
           /\ \A r \in Through(R, Append(node, Param)) :
                r \in Through(R, node) /\ k \in DOMAIN r.path /\ IsParam(r.path[k])
<1>1. Len(node) \in Nat /\ k \in Nat /\ k \in 1 .. Len(segments) /\ segments[k] \in Segment
    BY LenProperties, ElementOfSeq
<1>2. ASSUME NEW x \in Step
      PROVE  /\ Append(node, x) \in Seq(Step) /\ Len(Append(node, x)) = k /\ Append(node, x)[k] = x
             /\ \A i \in 1 .. Len(node) : Append(node, x)[i] = node[i]
    BY <1>1
<1>3. segments[k] \in Step /\ Param \in Step /\ segments[k] # Param
    BY <1>1, ParamIsNoSegment DEF Step
<1>4. OnWay(Append(node, segments[k]), segments)
  <2> DEFINE child == Append(node, segments[k])
  <2>1. /\ Len(child) = k /\ child[k] = segments[k]
        /\ \A i \in 1 .. Len(node) : child[i] = node[i]
    BY <1>2, <1>3
  <2> HIDE DEF child
  <2>2. \A i \in 1 .. Len(child) : i \in 1 .. Len(node) \/ i = k
    BY <1>1, <2>1
  <2> QED BY <2>1, <2>2 DEF OnWay
<1>5. ASSUME ~Malformed(segments[k]) PROVE OnWay(Append(node, Param), segments)
  <2> DEFINE child == Append(node, Param)
  <2>1. /\ Len(child) = k /\ child[k] = Param
        /\ \A i \in 1 .. Len(node) : child[i] = node[i]
    BY <1>2, <1>3
  <2> HIDE DEF child
  <2>2. \A i \in 1 .. Len(child) : i \in 1 .. Len(node) \/ i = k
    BY <1>1, <2>1
  <2> QED BY <1>5, <2>1, <2>2 DEF OnWay
<1>6. ASSUME NEW x \in Step, NEW r \in R
      PROVE  r \in Through(R, Append(node, x)) <=>
               /\ r \in Through(R, node) /\ k <= Len(r.path)
               /\ x = IF IsParam(r.path[k]) THEN Param ELSE r.path[k]
  <2> DEFINE child == Append(node, x)
  <2>1. /\ child \in Seq(Step) /\ Len(child) = k /\ child[k] = x
        /\ \A i \in 1 .. Len(node) : child[i] = node[i]
    BY <1>2
  <2> HIDE DEF child
  <2>2. r \in Through(R, child) <=>
          /\ Len(child) <= Len(r.path)
          /\ \A i \in 1 .. Len(child) : child[i] = IF IsParam(r.path[i]) THEN Param ELSE r.path[i]
    BY <2>1, ThroughIs
  <2>3. r \in Through(R, node) <=>
          /\ Len(node) <= Len(r.path)
          /\ \A i \in 1 .. Len(node) : node[i] = IF IsParam(r.path[i]) THEN Param ELSE r.path[i]
    BY ThroughIs
  <2>4. Len(r.path) \in Nat
    BY DEF Table
  <2>5. \A i \in 1 .. k : i \in 1 .. Len(node) \/ i = k
    BY <1>1
  <2>6. 1 .. Len(node) \subseteq 1 .. k /\ k \in 1 .. k
    BY <1>1
  <2>7. k <= Len(r.path) => Len(node) <= Len(r.path)
    BY <1>1, <2>4
  <2> QED BY <2>1, <2>2, <2>3, <2>5, <2>6, <2>7 DEF child
<1>7. ASSUME NEW r \in Tried(R, segments, node)
      PROVE  k <= Len(r.path) /\ (IsParam(r.path[k]) \/ r.path[k] = segments[k])
  <2>1. r \in Through(R, node) /\ r \in R /\ r.path \in Seq(Segment)
    BY OnTheWay DEF Tried
  <2>2. CASE Fits(r, segments)
    BY <1>1, <2>1, <2>2 DEF Fits, FitsUpTo
  <2>3. CASE Stuck(r, segments)
    <3>1. PICK i \in DOMAIN r.path : FitsUpTo(r, segments, i) /\ Undecodable(r, segments, i)
      BY <2>3 DEF Stuck
    <3>2. i \in Nat /\ i <= Len(r.path) /\ Len(r.path) \in Nat /\ i >= 1
      BY <2>1
    <3>3. i \notin 1 .. Len(node)
      BY <2>1, <3>1, OnTheWay
    <3>4. k \in 1 .. i /\ k <= Len(r.path)
      BY <1>1, <3>2, <3>3
    <3> QED BY <3>1, <3>4 DEF FitsUpTo
  <2> QED BY <2>2, <2>3 DEF Tried
<1>8. ASSUME NEW r \in Through(R, Append(node, segments[k]))
      PROVE  r \in Through(R, node) /\ k \in DOMAIN r.path /\ ~IsParam(r.path[k])
  <2>1. r \in R /\ r.path \in Seq(Segment)
    BY DEF Through, Table
  <2> QED BY <1>1, <1>3, <1>6, <2>1
<1>9. ASSUME NEW r \in Through(R, Append(node, Param))
      PROVE  r \in Through(R, node) /\ k \in DOMAIN r.path /\ IsParam(r.path[k])
  <2>1. r \in R /\ r.path \in Seq(Segment)
    BY DEF Through, Table
  <2>2. r \in Through(R, node) /\ k \in 1 .. Len(r.path)
    BY <1>1, <1>3, <1>6, <2>1
  <2>3. r.path[k] # Param
    BY <2>1, <2>2, ParamIsNoSegment
  <2> QED BY <1>3, <1>6, <2>1, <2>2, <2>3
<1>10. Tried(R, segments, node) = Tried(R, segments, Append(node, segments[k]))
                                  \union Tried(R, segments, Append(node, Param))
  <2>1. ASSUME NEW r \in Tried(R, segments, node)
        PROVE  r \in Through(R, Append(node, segments[k])) \union Through(R, Append(node, Param))
    <3>1. r \in R
      BY DEF Tried, Through
    <3> QED BY <1>3, <1>6, <1>7, <3>1 DEF Tried
  <2> QED BY <1>8, <1>9, <2>1 DEF Tried
<1> QED BY <1>2, <1>3, <1>4, <1>5, <1>8, <1>9, <1>10

(* Of those, the ones over the static child are better than the others, and *)
(* none of the others is better than one of them, or, where the segment     *)
(* cannot be decoded, than another of their own.                            *)
LEMMA RankedBelow ==
    ASSUME NEW R, Table(R), NEW segments \in Seq(Segment), NEW node \in Seq(Step),
           OnWay(node, segments), Len(node) < Len(segments), NEW k, k = Len(node) + 1,
           NEW s \in Through(R, Append(node, Param))
    PROVE  /\ \A r \in Through(R, Append(node, segments[k])) :
                MoreStatic(r, s, segments) /\ ~MoreStatic(s, r, segments)
           /\ Malformed(segments[k]) => /\ Stuck(s, segments)
                                        /\ \A r \in Through(R, Append(node, Param)) :
                                             ~MoreStatic(s, r, segments)
<1>1. Len(node) \in Nat /\ k \in Nat /\ k \in 1 .. Len(segments)
    BY LenProperties
<1>2. ASSUME NEW r \in Through(R, node)
      PROVE  /\ r \in R /\ r.path \in Seq(Segment)
             /\ \A i \in 1 .. k - 1 : /\ IsParam(r.path[i]) <=> node[i] = Param
                                      /\ ~Undecodable(r, segments, i)
                                      /\ ~IsParam(r.path[i]) => r.path[i] = segments[i]
  <2>1. 1 .. k - 1 = 1 .. Len(node)
    BY <1>1
  <2> QED BY <2>1, OnTheWay
<1>3. \A r \in Through(R, Append(node, segments[k])) :
        r \in Through(R, node) /\ k \in DOMAIN r.path /\ ~IsParam(r.path[k])
    BY TriedBelow
<1>4. \A r \in Through(R, Append(node, Param)) :
        r \in Through(R, node) /\ k \in DOMAIN r.path /\ IsParam(r.path[k])
    BY TriedBelow
<1>5. ASSUME NEW r \in Through(R, Append(node, segments[k])) PROVE MoreStatic(r, s, segments)
  <2>1. \A i \in 1 .. k - 1 : /\ IsParam(r.path[i]) <=> IsParam(s.path[i])
                              /\ ~Undecodable(r, segments, i)
    BY <1>2, <1>3, <1>4
  <2>2. /\ k \in DOMAIN r.path /\ k \in DOMAIN s.path
        /\ ~IsParam(r.path[k]) /\ IsParam(s.path[k])
    BY <1>3, <1>4
  <2> QED BY <2>1, <2>2 DEF MoreStatic
<1>6. ASSUME NEW r \in Through(R, node), k \in DOMAIN r.path,
             IsParam(r.path[k]) => Malformed(segments[k])
      PROVE  ~MoreStatic(s, r, segments)
  <2> SUFFICES ASSUME NEW i \in DOMAIN s.path \cap DOMAIN r.path,
                      ~IsParam(s.path[i]), IsParam(r.path[i]),
                      \A j \in 1 .. i - 1 : /\ IsParam(s.path[j]) <=> IsParam(r.path[j])
                                            /\ ~Undecodable(s, segments, j)
               PROVE  FALSE
    BY DEF MoreStatic
  <2>1. i \in Nat /\ i >= 1
    BY <1>2
  <2>2. CASE i < k
    <3>1. i \in 1 .. k - 1
      BY <1>1, <2>1, <2>2
    <3> QED BY <1>2, <1>4, <3>1
  <2>3. CASE i > k
    <3>1. k \in 1 .. i - 1
      BY <1>1, <2>1, <2>3
    <3> QED BY <1>4, <1>6, <3>1 DEF Undecodable
  <2> QED BY <1>1, <1>4, <1>6, <2>1, <2>2, <2>3
<1>7. ASSUME Malformed(segments[k]) PROVE Stuck(s, segments)
  <2>1. s \in Through(R, node) /\ k \in DOMAIN s.path /\ IsParam(s.path[k]) /\ s.path \in Seq(Segment)
    BY <1>2, <1>4
  <2>2. k <= Len(s.path) /\ k <= Len(segments)
    BY <1>1, <2>1
  <2>3. \A i \in 1 .. k : i \in 1 .. k - 1 \/ i = k
    BY <1>1
  <2>4. FitsUpTo(s, segments, k)
    BY <1>2, <2>1, <2>2, <2>3 DEF FitsUpTo
  <2> QED BY <1>7, <2>1, <2>4 DEF Stuck, Undecodable
<1>8. \A r \in Through(R, Append(node, segments[k])) : ~MoreStatic(s, r, segments)
    BY <1>3, <1>6
<1>9. Malformed(segments[k]) => \A r \in Through(R, Append(node, Param)) : ~MoreStatic(s, r, segments)
    BY <1>4, <1>6
<1> QED BY <1>5, <1>7, <1>8, <1>9

(* So the static child decides where one of its routes is tried,            *)
LEMMA StaticDecides ==
    ASSUME NEW R, Table(R), NEW segments \in Seq(Segment), NEW node \in Seq(Step),
           OnWay(node, segments), Len(node) < Len(segments), NEW k, k = Len(node) + 1,
           Tried(R, segments, Append(node, segments[k])) # {}
    PROVE  Best(Tried(R, segments, node), segments)
             = Best(Tried(R, segments, Append(node, segments[k])), segments)
<1> DEFINE S == Tried(R, segments, Append(node, segments[k]))
           P == Tried(R, segments, Append(node, Param))
<1>1. Tried(R, segments, node) = S \union P
    BY TriedBelow
<1>2. \A s \in P : \A r \in S : MoreStatic(r, s, segments) /\ ~MoreStatic(s, r, segments)
    BY RankedBelow DEF Tried
<1>3. S # {}
    OBVIOUS
<1> HIDE DEF S, P
<1>4. Best(S \union P, segments) = Best(S, segments)
    BY <1>2, <1>3 DEF Best
<1> QED BY <1>1, <1>4 DEF S

(* and the parameter where none is.                                         *)
LEMMA ParamDecides ==
    ASSUME NEW R, Table(R), NEW segments \in Seq(Segment), NEW node \in Seq(Step),
           OnWay(node, segments), Len(node) < Len(segments), NEW k, k = Len(node) + 1
    PROVE  LET S == Tried(R, segments, Append(node, segments[k]))
               P == Tried(R, segments, Append(node, Param))
           IN  /\ S = {} => Tried(R, segments, node) = P
               /\ Malformed(segments[k]) => /\ P = Through(R, Append(node, Param))
                                            /\ Best(P, segments) = P
                                            /\ \A r \in P : Stuck(r, segments)
<1> DEFINE S == Tried(R, segments, Append(node, segments[k]))
           P == Tried(R, segments, Append(node, Param))
           T == Through(R, Append(node, Param))
<1>1. Tried(R, segments, node) = S \union P
    BY TriedBelow
<1>2. P \subseteq T /\ \A r \in T : Stuck(r, segments) => r \in P
    BY DEF Tried
<1>3. Malformed(segments[k]) => \A s \in T : Stuck(s, segments) /\ \A r \in T : ~MoreStatic(s, r, segments)
    BY RankedBelow
<1> HIDE DEF S, P, T
<1>4. Malformed(segments[k]) => P = T /\ Best(P, segments) = P /\ \A r \in P : Stuck(r, segments)
    BY <1>2, <1>3 DEF Best
<1> QED BY <1>1, <1>4 DEF S, P, T

-----------------------------------------------------------------------------
(* In a table that the router takes, the routes of a method agree on what   *)
(* they call the parameters they share, so a route finds its own names.     *)
LEMMA OwnNames ==
    ASSUME NEW R, Table(R), ~RouterRefuses(R), NEW node \in Seq(Step),
           NEW r \in Handlers(R, node), NEW i \in 1 .. Len(node), node[i] = Param
    PROVE  NameFor(R, r.method, SubSeq(node, 1, i - 1)) = ParamName(r.path[i])
<1> DEFINE above == SubSeq(node, 1, i - 1)
           here == Append(above, Param)
<1>1. r \in R /\ r.path \in Seq(Segment) /\ Shape(r.path) = node
    BY DEF Handlers, Table
<1>2. /\ Len(node) = Len(r.path) /\ Len(node) \in Nat /\ i \in Nat /\ i \in 1 .. Len(r.path)
      /\ \A j \in 1 .. Len(r.path) : node[j] = IF IsParam(r.path[j]) THEN Param ELSE r.path[j]
    BY <1>1, WholeShape
<1>3. above \in Seq(Step) /\ Len(above) = i - 1 /\ \A j \in 1 .. i - 1 : above[j] = node[j]
    BY <1>2
<1>4. Param \in Step
    BY DEF Step
<1>5. /\ here \in Seq(Step) /\ Len(here) = i /\ here[i] = Param
      /\ \A j \in 1 .. i - 1 : here[j] = node[j]
    BY <1>2, <1>3, <1>4
<1> HIDE DEF above, here
<1>6. \A j \in 1 .. i : here[j] = node[j]
  <2>1. \A j \in 1 .. i : j \in 1 .. i - 1 \/ j = i
    BY <1>2
  <2> QED BY <1>5, <2>1
<1>7. r \in Through(R, here)
  <2>1. /\ Len(here) <= Len(r.path)
        /\ \A j \in 1 .. Len(here) : here[j] = IF IsParam(r.path[j]) THEN Param ELSE r.path[j]
    BY <1>2, <1>5, <1>6
  <2> QED BY <1>1, <1>5, <2>1, ThroughIs
<1>8. ASSUME NEW s \in Through(R, here), s.method = r.method
      PROVE  ParamName(s.path[i]) = ParamName(r.path[i])
  <2>1. s \in R /\ s.path \in Seq(Segment) /\ Shape(SubSeq(s.path, 1, i)) = here
    BY <1>5, <1>8 DEF Through, Table
  <2>2. i \in 1 .. Len(s.path) /\ s.path[i] \in Segment /\ r.path[i] \in Segment
    BY <1>1, <1>2, <1>5, <1>8, <2>1 DEF Through
  <2>3. Shape(SubSeq(r.path, 1, i)) = here
    BY <1>5, <1>7 DEF Through
  <2>4. IsParam(s.path[i])
    <3>1. here[i] = IF IsParam(s.path[i]) THEN Param ELSE s.path[i]
      BY <1>2, <1>5, <1>8, <2>1, ThroughIs
    <3> QED BY <1>5, <2>2, <3>1, ParamIsNoSegment
  <2>5. IsParam(r.path[i])
    BY <1>2, <2>2, ParamIsNoSegment
  <2>6. i \in DOMAIN r.path \cap DOMAIN s.path
    BY <1>1, <1>2, <2>1, <2>2
  <2>7. ~NameClash(r, s) \/ r = s
    BY <1>1, <1>8, <2>1 DEF RouterRefuses
  <2> QED BY <2>1, <2>3, <2>4, <2>5, <2>6, <2>7 DEF NameClash
<1>9. NameFor(R, r.method, above) = ParamName(r.path[i])
  <2> DEFINE own == {q \in Through(R, here) : q.method = r.method}
             route == CHOOSE q \in own : TRUE
  <2>1. r \in own
    BY <1>7
  <2>2. route \in own
    BY <2>1
  <2> HIDE DEF route
  <2>3. ParamName(route.path[i]) = ParamName(r.path[i])
    BY <1>8, <2>2
  <2>4. Len(above) + 1 = i
    BY <1>2, <1>3
  <2>5. NameFor(R, r.method, above) = ParamName((CHOOSE q \in own : TRUE).path[Len(above) + 1])
    BY <2>1 DEF NameFor, here
  <2> QED BY <2>3, <2>4, <2>5 DEF route
<1> QED BY <1>9 DEF above

(* The parameters on the way to where a route ends are the route's own.     *)
LEMMA ParamsAreValues ==
    ASSUME NEW R, Table(R), ~RouterRefuses(R), NEW node \in Seq(Step),
           NEW r \in Handlers(R, node), NEW segments
    PROVE  Params(R, r.method, node, segments) = Values(r, segments)
<1> DEFINE places == {j \in DOMAIN node : node[j] = Param}
           own == {j \in DOMAIN r.path : IsParam(r.path[j])}
<1>1. r.path \in Seq(Segment) /\ Shape(r.path) = node
    BY DEF Handlers, Table
<1>2. /\ Len(node) = Len(r.path) /\ DOMAIN node = 1 .. Len(node) /\ DOMAIN r.path = 1 .. Len(node)
      /\ \A j \in 1 .. Len(node) : node[j] = IF IsParam(r.path[j]) THEN Param ELSE r.path[j]
    BY <1>1, WholeShape
<1>3. \A j \in 1 .. Len(node) : r.path[j] # Param
    BY <1>1, <1>2, ParamIsNoSegment, ElementOfSeq
<1>4. places = own
    BY <1>2, <1>3
<1>5. \A i \in places : NameFor(R, r.method, SubSeq(node, 1, i - 1)) = ParamName(r.path[i])
    BY <1>2, OwnNames
<1>6. [i \in places |-> NameFor(R, r.method, SubSeq(node, 1, i - 1))] = [i \in own |-> ParamName(r.path[i])]
    BY <1>4, <1>5
<1> QED BY <1>6 DEF Params, Values

(* Where the URL ends, the tree answers as the routes that end there.       *)
LEMMA LeafAnswers ==
    ASSUME NEW R, Table(R), ~RouterRefuses(R), NEW segments \in Seq(Segment), NEW node \in Seq(Step),
           OnWay(node, segments), Len(node) = Len(segments), NEW method
    PROVE  EndsAt(R, method, node, segments)
             = Decision(Best(Tried(R, segments, node), segments), method, segments)
<1> DEFINE here == Handlers(R, node)
<1>1. Best(Tried(R, segments, node), segments) = here /\ \A r \in here : ~Stuck(r, segments)
    BY TriedAtEnd
<1>2. CASE here = {} \/ \A r \in here : r.method # method
    BY <1>1, <1>2 DEF EndsAt, Decision
<1>3. CASE here # {} /\ \E r \in here : r.method = method
  <2> DEFINE r == CHOOSE s \in here : s.method = method
  <2>1. r \in here /\ r.method = method
    BY <1>3
  <2>2. EndsAt(R, method, node, segments) = Found(r, Params(R, method, node, segments))
    BY <1>3 DEF EndsAt
  <2>3. Decision(here, method, segments) = Found(r, Values(r, segments))
    BY <1>1, <1>3 DEF Decision
  <2> HIDE DEF r
  <2>4. Params(R, method, node, segments) = Values(r, segments)
    BY <2>1, ParamsAreValues
  <2> QED BY <1>1, <2>2, <2>3, <2>4
<1> QED BY <1>2, <1>3

-----------------------------------------------------------------------------
(* The equation of matchRoute's recursion, down from the nodes of a depth.  *)
Reached(R, segments) == {node \in Nodes(R) : Len(node) <= Len(segments)}
Below(R, segments, m) == {node \in Reached(R, segments) : Len(segments) - Len(node) <= m}

AnswerAt(g, R, method, segments, node) ==
    LET seg == segments[Len(node) + 1]
        static == IF Append(node, seg) \in Reached(R, segments) THEN g[Append(node, seg)] ELSE NotFound
    IN  IF Len(node) = Len(segments) THEN EndsAt(R, method, node, segments)
        ELSE IF static # NotFound THEN static
        ELSE IF Append(node, Param) \notin Reached(R, segments) THEN NotFound
        ELSE IF Malformed(seg) THEN MalformedUrl ELSE g[Append(node, Param)]
Answers(g, R, method, segments, m) ==
    g = [node \in Below(R, segments, m) |-> AnswerAt(g, R, method, segments, node)]

(* An answer depends on those of the children alone.                        *)
LEMMA AnswersAgree ==
    ASSUME NEW R, NEW method, NEW segments, NEW node, NEW g, NEW h,
           Len(node) # Len(segments) =>
             \A x \in {segments[Len(node) + 1], Param} :
               Append(node, x) \in Reached(R, segments) => g[Append(node, x)] = h[Append(node, x)]
    PROVE  AnswerAt(g, R, method, segments, node) = AnswerAt(h, R, method, segments, node)
BY DEF AnswerAt

LEMMA AnswersExist ==
    ASSUME NEW R, Table(R), NEW method, NEW segments \in Seq(Segment)
    PROVE  \E g : Answers(g, R, method, segments, Len(segments))
<1> DEFINE n == Len(segments)
           D(m) == Below(R, segments, m)
           A(g, node) == AnswerAt(g, R, method, segments, node)
           Solved == {m \in Nat : \E g : Answers(g, R, method, segments, m)}
<1>1. n \in Nat
    OBVIOUS
<1>2. ASSUME NEW m \in Nat, NEW node \in D(m)
      PROVE  /\ node \in Reached(R, segments) /\ node \in Seq(Step) /\ Len(node) \in Nat /\ Len(node) <= n
             /\ \A x \in Step : Len(Append(node, x)) = Len(node) + 1
  <2>1. node \in Reached(R, segments) /\ node \in Seq(Step) /\ Len(node) <= n
    BY NodesAre DEF Below, Reached
  <2> QED BY <2>1
<1>3. ASSUME NEW m \in Nat, NEW node \in D(m), Len(node) # n
      PROVE  segments[Len(node) + 1] \in Step /\ Param \in Step
  <2>1. Len(node) + 1 \in 1 .. n
    BY <1>1, <1>2, <1>3
  <2>2. segments[Len(node) + 1] \in Segment
    BY <2>1, ElementOfSeq
  <2> QED BY <2>2 DEF Step
<1>4. 0 \in Solved
  <2> DEFINE h == [node \in D(0) |-> EndsAt(R, method, node, segments)]
  <2>1. ASSUME NEW node \in D(0) PROVE h[node] = A(h, node)
    <3>1. 0 \in Nat /\ n - Len(node) <= 0
      BY DEF Below
    <3>2. Len(node) \in Nat /\ Len(node) <= n
      BY <1>2, <3>1
    <3>3. Len(node) = n
      BY <1>1, <3>1, <3>2
    <3> QED BY <3>3 DEF AnswerAt
  <2>2. Answers(h, R, method, segments, 0)
    BY <2>1 DEF Answers
  <2> QED BY <2>2
<1>5. ASSUME NEW m \in Nat, m \in Solved PROVE m + 1 \in Solved
  <2>1. PICK g : Answers(g, R, method, segments, m)
    BY <1>5
  <2> DEFINE h == [node \in D(m + 1) |-> IF node \in D(m) THEN g[node] ELSE A(g, node)]
  <2>2. D(m) \subseteq D(m + 1)
    BY <1>1, <1>2 DEF Below
  <2>3. ASSUME NEW node \in D(m + 1) PROVE h[node] = A(g, node)
    BY <2>1 DEF Answers
  <2>4. ASSUME NEW node \in D(m + 1) PROVE A(g, node) = A(h, node)
    <3>1. ASSUME Len(node) # n, NEW x \in {segments[Len(node) + 1], Param},
                 Append(node, x) \in Reached(R, segments)
          PROVE  g[Append(node, x)] = h[Append(node, x)]
      <4>1. x \in Step
        BY <1>3, <3>1
      <4>2. Len(Append(node, x)) = Len(node) + 1 /\ n - Len(node) <= m + 1 /\ Len(node) \in Nat
        BY <1>2, <4>1 DEF Below
      <4>3. Append(node, x) \in D(m)
        BY <1>1, <3>1, <4>2 DEF Below
      <4> QED BY <2>2, <4>3
    <3> HIDE DEF h, D
    <3> QED BY <3>1, AnswersAgree
  <2>5. h = [node \in D(m + 1) |-> A(h, node)]
    BY <2>3, <2>4
  <2>6. Answers(h, R, method, segments, m + 1)
    BY <2>5 DEF Answers
  <2> QED BY <2>6
<1> HIDE DEF Solved
<1>6. n \in Solved
    BY <1>1, <1>4, <1>5, NatSetInduction
<1> QED BY <1>6 DEF Solved

LEMMA MatchIsAnswer ==
    ASSUME NEW R, Table(R), NEW method, NEW segments \in Seq(Segment)
    PROVE  \E g : /\ g = [node \in Reached(R, segments) |-> AnswerAt(g, R, method, segments, node)]
                  /\ MatchRoute(R, method, segments) = g[<<>>]
<1>1. Below(R, segments, Len(segments)) = Reached(R, segments)
  <2>1. \A node \in Reached(R, segments) : Len(node) \in Nat
    BY NodesAre DEF Reached
  <2> QED BY <2>1 DEF Below
<1> DEFINE g == CHOOSE f : f = [node \in Reached(R, segments) |-> AnswerAt(f, R, method, segments, node)]
<1>2. g = [node \in Reached(R, segments) |-> AnswerAt(g, R, method, segments, node)]
    BY <1>1, AnswersExist DEF Answers
<1>3. MatchRoute(R, method, segments) = g[<<>>]
    BY DEF MatchRoute, AnswerAt, Reached
<1> QED BY <1>2, <1>3

(* The root, from which every URL sets out.                                 *)
LEMMA RootIs ==
    /\ <<>> \in Seq(Step) /\ Len(<<>>) = 0 /\ 1 .. Len(<<>>) = {}
    /\ \A segments : OnWay(<<>>, segments)
<1>1. <<>> \in Seq(Step) /\ Len(<<>>) = 0
    OBVIOUS
<1>2. 1 .. Len(<<>>) = {}
    BY <1>1
<1> QED BY <1>1, <1>2 DEF OnWay

(* The tree answers as the best of the routes that are tried.               *)
LEMMA TreeAnswers ==
    ASSUME NEW R, Table(R), ~RouterRefuses(R), NEW method, NEW segments \in Seq(Segment)
    PROVE  MatchRoute(R, method, segments)
             = Decision(Best(Tried(R, segments, <<>>), segments), method, segments)
<1> DEFINE n == Len(segments)
           T(node) == Tried(R, segments, node)
           Decided(node) == Decision(Best(T(node), segments), method, segments)
<1>0. n \in Nat
    OBVIOUS
<1>1. PICK g : /\ g = [node \in Reached(R, segments) |-> AnswerAt(g, R, method, segments, node)]
               /\ MatchRoute(R, method, segments) = g[<<>>]
    BY MatchIsAnswer
<1> DEFINE Right(node) == g[node] = Decided(node) /\ (T(node) # {} => Best(T(node), segments) # {})
           Done == {m \in Nat : \A node \in Reached(R, segments) :
                      OnWay(node, segments) /\ Len(node) + m = n => Right(node)}
<1>2. \A node \in Reached(R, segments) : node \in Seq(Step) /\ Len(node) \in Nat
    BY NodesAre DEF Reached
<1>3. ASSUME NEW best, best # {} PROVE Decision(best, method, segments) # NotFound
    BY <1>3 DEF Decision, NotFound, MalformedUrl, NotAllowed, Found
<1>4. Decision({}, method, segments) = NotFound /\ Best({}, segments) = {}
    BY DEF Decision, Best
<1>5. 0 \in Done
  <2> SUFFICES ASSUME NEW node \in Reached(R, segments), OnWay(node, segments), Len(node) = n
               PROVE  Right(node)
    BY <1>2
  <2>1. g[node] = EndsAt(R, method, node, segments)
    BY <1>1 DEF AnswerAt
  <2>2. EndsAt(R, method, node, segments) = Decided(node)
    BY <1>2, LeafAnswers
  <2>3. Best(T(node), segments) = T(node)
    BY <1>2, TriedAtEnd
  <2> QED BY <2>1, <2>2, <2>3
<1>6. ASSUME NEW m \in Nat, m \in Done PROVE m + 1 \in Done
  <2> SUFFICES ASSUME NEW node \in Reached(R, segments), OnWay(node, segments), Len(node) + (m + 1) = n
               PROVE  Right(node)
    OBVIOUS
  <2> DEFINE k == Len(node) + 1
             seg == segments[k]
             child == Append(node, seg)
             param == Append(node, Param)
  <2>1. node \in Seq(Step) /\ Len(node) \in Nat /\ Len(node) < n /\ k \in 1 .. n
    BY <1>0, <1>2
  <2>2. /\ child \in Seq(Step) /\ param \in Seq(Step) /\ OnWay(child, segments)
        /\ ~Malformed(seg) => OnWay(param, segments)
    BY <2>1, TriedBelow
  <2>3. Len(child) = k /\ Len(param) = k /\ child # <<>> /\ param # <<>> /\ k + m = n /\ k <= n
    BY <1>0, <2>1, <2>2
  <2>4. /\ T(child) # {} => Best(T(node), segments) = Best(T(child), segments)
        /\ T(child) = {} => T(node) = T(param)
        /\ Malformed(seg) => /\ T(param) = Through(R, param) /\ Best(T(param), segments) = T(param)
                             /\ \A r \in T(param) : Stuck(r, segments)
    <3>1. /\ Table(R) /\ segments \in Seq(Segment) /\ node \in Seq(Step)
          /\ OnWay(node, segments) /\ Len(node) < Len(segments) /\ k = Len(node) + 1
      BY <2>1
    <3> HIDE DEF k
    <3>2. ASSUME T(child) # {} PROVE Best(T(node), segments) = Best(T(child), segments)
      BY <3>1, <3>2, StaticDecides
    <3>3. T(child) = {} => T(node) = T(param)
      BY <3>1, ParamDecides
    <3>4. Malformed(seg) => T(param) = Through(R, param) /\ Best(T(param), segments) = T(param)
      BY <3>1, ParamDecides
    <3>5. Malformed(seg) => \A r \in T(param) : Stuck(r, segments)
      BY <3>1, ParamDecides
    <3> QED BY <3>2, <3>3, <3>4, <3>5
  <2>5. /\ child \in Reached(R, segments) <=> Through(R, child) # {}
        /\ param \in Reached(R, segments) <=> Through(R, param) # {}
    BY <2>2, <2>3, NodesAre DEF Reached
  <2>6. T(child) \subseteq Through(R, child) /\ T(param) \subseteq Through(R, param)
    BY DEF Tried
  <2>7. ASSUME child \in Reached(R, segments) PROVE Right(child)
    BY <1>6, <2>2, <2>3, <2>7
  <2>8. ASSUME param \in Reached(R, segments), ~Malformed(seg) PROVE Right(param)
    BY <1>6, <2>2, <2>3, <2>8
  <2> DEFINE first == IF child \in Reached(R, segments) THEN g[child] ELSE NotFound
  <2>9. g[node] = IF first # NotFound THEN first
                  ELSE IF param \notin Reached(R, segments) THEN NotFound
                  ELSE IF Malformed(seg) THEN MalformedUrl ELSE g[param]
    <3>1. g[node] = AnswerAt(g, R, method, segments, node)
      BY <1>1
    <3> QED BY <2>1, <3>1 DEF AnswerAt
  <2> HIDE DEF k, child, param, T, Done
  <2>10. CASE T(child) # {}
    <3>1. child \in Reached(R, segments)
      BY <2>5, <2>6, <2>10
    <3>2. first = Decided(child) /\ Best(T(child), segments) # {}
      BY <2>7, <2>10, <3>1
    <3>3. first # NotFound
      BY <1>3, <3>2
    <3> QED BY <2>4, <2>9, <2>10, <3>2, <3>3
  <2>11. CASE T(child) = {}
    <3>1. first = NotFound
      BY <1>4, <2>7, <2>11
    <3>2. T(node) = T(param)
      BY <2>4, <2>11
    <3>3. CASE param \notin Reached(R, segments)
      <4>1. T(param) = {}
        BY <2>5, <2>6, <3>3
      <4> QED BY <1>4, <2>9, <3>1, <3>2, <3>3, <4>1
    <3>4. CASE param \in Reached(R, segments) /\ Malformed(seg)
      <4>1. T(param) # {} /\ Best(T(param), segments) = T(param) /\ \A r \in T(param) : Stuck(r, segments)
        BY <2>4, <2>5, <3>4
      <4>2. Decided(param) = MalformedUrl
        BY <4>1 DEF Decision
      <4> QED BY <2>9, <3>1, <3>2, <3>4, <4>1, <4>2
    <3>5. CASE param \in Reached(R, segments) /\ ~Malformed(seg)
      BY <2>8, <2>9, <3>1, <3>2, <3>5
    <3> QED BY <3>3, <3>4, <3>5
  <2> QED BY <2>10, <2>11
<1>7. n \in Done
  <2> HIDE DEF Done, n
  <2> QED BY <1>0, <1>5, <1>6, NatSetInduction
<1>8. <<>> \in Reached(R, segments) /\ Len(<<>>) = 0 /\ OnWay(<<>>, segments)
  <2>1. <<>> \in Nodes(R)
    BY DEF Nodes
  <2> QED BY <1>0, <2>1, RootIs DEF Reached
<1>9. Right(<<>>)
  <2>1. 0 + n = n
    BY <1>0
  <2> HIDE DEF Right
  <2> QED BY <1>7, <1>8, <2>1
<1> QED BY <1>1, <1>9

(* All routes lead through the root.                                        *)
LEMMA TriedAtRoot ==
    ASSUME NEW R, Table(R), NEW segments
    PROVE  Tried(R, segments, <<>>) = {r \in R : Fits(r, segments) \/ Stuck(r, segments)}
<1>1. ASSUME NEW r \in R PROVE r \in Through(R, <<>>)
  <2>1. Len(<<>>) <= Len(r.path)
    BY RootIs DEF Table
  <2>2. \A i \in 1 .. Len(<<>>) : <<>>[i] = IF IsParam(r.path[i]) THEN Param ELSE r.path[i]
    BY RootIs
  <2> QED BY <2>1, <2>2, RootIs, ThroughIs
<1> QED BY <1>1 DEF Tried, Through

-----------------------------------------------------------------------------
LEMMA LeastAbove ==
    ASSUME NEW S, S \subseteq Nat, NEW b \in Nat, NEW last \in S, b < last
    PROVE  \E j \in S : b < j /\ \A l \in S : b < l => j <= l
<1> DEFINE Least(j) == j \in S /\ b < j /\ \A l \in S : b < l => j <= l
           T == {n \in Nat : (\E i \in S : b < i /\ i <= n) => \E j \in S : Least(j)}
<1>1. 0 \in T
  <2>1. \A i \in S : i <= 0 => ~(b < i)
    OBVIOUS
  <2> QED BY <2>1
<1>2. ASSUME NEW n \in Nat, n \in T PROVE n + 1 \in T
  <2> SUFFICES ASSUME NEW i \in S, b < i, i <= n + 1 PROVE \E j \in S : Least(j)
    OBVIOUS
  <2>1. CASE \E l \in S : b < l /\ l <= n
    BY <1>2, <2>1
  <2>2. CASE ~\E l \in S : b < l /\ l <= n
    <3>1. \A l \in S : b < l => i <= l
      BY <2>2
    <3> QED BY <3>1
  <2> QED BY <2>1, <2>2
<1> HIDE DEF T
<1>3. last \in T
    BY <1>1, <1>2, NatSetInduction
<1>4. last <= last
    OBVIOUS
<1> QED BY <1>3, <1>4 DEF T

(* What splitPath returns are segments: none is empty.                      *)
LEMMA SplitPathType ==
    ASSUME NEW tokens \in Seq(Token)
    PROVE  SplitPath(tokens) \in Seq(Segment)
<1> DEFINE n == Len(tokens)
           slash == {i \in DOMAIN tokens : tokens[i] = "/"} \union {n + 1}
           first == {i \in DOMAIN tokens : i \notin slash /\ (i = 1 \/ i - 1 \in slash)}
           places == [i \in DOMAIN tokens |-> i]
           begin == Only(places, first)
           end == [i \in first |-> CHOOSE j \in slash : i < j /\ \A l \in slash : i < l => j <= l]
<1>1. n \in Nat /\ DOMAIN tokens = 1 .. n /\ slash \subseteq Nat /\ slash \subseteq 1 .. n + 1 /\ n + 1 \in slash
    OBVIOUS
<1>2. first \subseteq 1 .. n
    BY <1>1
<1>3. begin \in Seq(Nat) /\ ToSet(begin) \subseteq first
  <2>1. places \in Seq(Nat)
    BY <1>1
  <2> HIDE DEF places, first
  <2> QED BY <2>1, OnlyType
<1>4. ASSUME NEW i \in first PROVE end[i] \in slash /\ i < end[i]
  <2>1. \E j \in slash : i < j /\ \A l \in slash : i < l => j <= l
    <3>1. i \in Nat /\ i < n + 1
      BY <1>1, <1>2
    <3> HIDE DEF slash
    <3> QED BY <1>1, <3>1, LeastAbove
  <2> QED BY <2>1
<1>5. ASSUME NEW i \in first PROVE SubSeq(tokens, i, end[i] - 1) \in Segment
  <2> DEFINE e == end[i]
  <2>1. i \in 1 .. n /\ e \in 1 .. n + 1 /\ i < e
    BY <1>1, <1>2, <1>4
  <2> HIDE DEF e
  <2>2. SubSeq(tokens, i, e - 1) \in Seq(Token) /\ Len(SubSeq(tokens, i, e - 1)) = e - i /\ e - i > 0
    BY <1>1, <2>1
  <2>3. SubSeq(tokens, i, e - 1) # <<>>
    <3> DEFINE part == SubSeq(tokens, i, e - 1)
    <3>1. Len(part) > 0 /\ Len(<<>>) = 0
      BY <2>2
    <3> HIDE DEF part
    <3>2. part # <<>>
      BY <3>1
    <3> QED BY <3>2 DEF part
  <2> QED BY <2>2, <2>3 DEF e, Segment
<1>6. \A k \in DOMAIN begin : begin[k] \in first
    BY <1>3 DEF ToSet
<1>7. SplitPath(tokens) = [k \in DOMAIN begin |-> SubSeq(tokens, begin[k], end[begin[k]] - 1)]
    BY DEF SplitPath, Split
<1>8. DOMAIN begin = 1 .. Len(begin) /\ Len(begin) \in Nat
    BY <1>3
<1> HIDE DEF begin, first, end
<1>9. \A k \in 1 .. Len(begin) : SubSeq(tokens, begin[k], end[begin[k]] - 1) \in Segment
    BY <1>5, <1>6, <1>8
<1> QED BY <1>7, <1>8, <1>9

(* The radix tree and its backtracking are the table: for every table of    *)
(* routes that compileRouter takes, every method and every URL, the router  *)
(* finds, denies, misses or refuses to decode as the table itself decides,  *)
(* with the parameters under the names of the route found.                  *)
THEOREM RouterIsItsTable ==
    ASSUME NEW R, Table(R), ~RouterRefuses(R), NEW method, NEW tokens \in Seq(Token)
    PROVE  Match(R, method, tokens) = Reference(R, method, tokens)
<1> DEFINE segments == SplitPath(tokens)
<1>1. segments \in Seq(Segment)
    BY SplitPathType
<1> HIDE DEF segments
<1>2. MatchRoute(R, method, segments)
        = Decision(Best(Tried(R, segments, <<>>), segments), method, segments)
    BY <1>1, TreeAnswers
<1>3. Tried(R, segments, <<>>) = {r \in R : Fits(r, segments) \/ Stuck(r, segments)}
    BY TriedAtRoot
<1> QED BY <1>2, <1>3 DEF Match, Reference, segments

-----------------------------------------------------------------------------
(* The routes that a valid tree generates are such a table.                 *)
LEMMA RoutesTyped ==
    ASSUME NEW S \in SUBSET Caps, NEW o \in Options,
           \A c \in S : \A key \in ToSet(Name(c)) : ValidKey(key)
    PROVE  Table(GenerateRoutes(S, o.urlCase, o.overrides))
<1> DEFINE u == o.urlCase
<1>1. u \in Token
    BY GatewayAssumption
<1>2. ASSUME NEW humps \in Seq(Token) PROVE Slug(humps, u) \in Segment
  <2> DEFINE slug == <<u>> \o humps
  <2>1. slug \in Seq(Token) /\ Len(slug) > 0
    BY <1>1
  <2>2. slug # <<>>
    <3> HIDE DEF slug
    <3> QED BY <2>1, EmptySeq
  <2>3. Len(humps) = 1 => humps # <<>>
    BY EmptySeq
  <2> QED BY <2>1, <2>2, <2>3 DEF Slug, Segment
<1>3. ById \in Segment
  <2>1. ById \in Seq(Token) /\ Len(ById) = 2 /\ Len(<<>>) = 0
    BY DEF ById, Token
  <2>2. ById # <<>>
    BY <2>1
  <2> QED BY <2>1, <2>2 DEF Segment
<1>4. ASSUME NEW c \in S PROVE InferRoute(c, u).path \in Seq(Segment)
  <2> DEFINE group == [i \in DOMAIN Group(c) |-> Slug(Group(c)[i], u)]
             key == Key(c)
             n == Len(Name(c))
  <2>1. /\ Name(c) \in Seq(Seq(Token)) /\ Name(c) # <<>> /\ n \in Nat /\ n > 0
        /\ Def[c].intent \in Intents \union {"inferred"}
    BY GatewayAssumption DEF Name
  <2>2. n \in DOMAIN Name(c) /\ Last(Name(c)) = Name(c)[n]
    BY <2>1 DEF Last
  <2>3. key \in Seq(Token) /\ key # <<>>
    <3>1. key \in ToSet(Name(c)) /\ key \in Seq(Token)
      BY <2>1, <2>2 DEF Key, ToSet
    <3> QED BY <3>1 DEF ValidKey
  <2>4. Group(c) \in Seq(Seq(Token))
    BY <2>1 DEF Group, Front
  <2> HIDE DEF key, n
  <2>5. group \in Seq(Segment)
    <3> DEFINE g == Group(c)
    <3>1. \A i \in DOMAIN g : Slug(g[i], u) \in Segment
      BY <1>2, <2>4
    <3>2. g \in Seq(Seq(Token))
      BY <2>4
    <3> HIDE DEF g
    <3>3. [i \in DOMAIN g |-> Slug(g[i], u)] \in Seq(Segment)
      BY <3>1, <3>2, SMTT(30)
    <3> QED BY <3>3 DEF g
  <2> HIDE DEF group
  <2>6. Tail(key) \in Seq(Token)
    BY <2>3
  <2>7. QueryPath(c, group, u) \in Seq(Segment)
    <3>1. Slug(key, u) \in Segment /\ Slug(Tail(key), u) \in Segment
      BY <1>2, <2>3, <2>6
    <3>2. /\ Append(group, ById) \in Seq(Segment) /\ Append(group, Slug(key, u)) \in Seq(Segment)
          /\ Append(group, Slug(Tail(key), u)) \in Seq(Segment)
      BY <1>3, <2>5, <3>1
    <3>3. Slug(<<>>, u) \in Segment
      <4>1. <<>> \in Seq(Token)
        OBVIOUS
      <4> QED BY <1>2, <4>1, Zenon
    <3>4. Append(group, Slug(<<>>, u)) \in Seq(Segment)
      BY <2>5, <3>3
    <3> QED BY <2>5, <3>2, <3>4 DEF QueryPath, key
  <2>8. MutationRoute(c, group, u).path \in Seq(Segment)
    <3>1. Slug(key, u) \in Segment
      BY <1>2, <2>3
    <3>2. Append(group, Slug(key, u)) \in Seq(Segment)
      BY <2>5, <3>1
    <3>3. ASSUME Undoing(key)
          PROVE  group \o <<ById, Slug(Undone(key, u), u)>> \in Seq(Segment)
      <4> DEFINE undone == Undone(key, u)
      <4>1. undone \in Seq(Token)
        BY <2>6, <3>3, GatewayAssumption DEF Undone, Undoing
      <4> HIDE DEF undone
      <4>2. Slug(undone, u) \in Segment
        BY <1>2, <4>1
      <4> QED BY <1>3, <2>5, <4>2 DEF undone
    <3> QED BY <2>5, <3>2, <3>3 DEF MutationRoute, Route, key
  <2>9. Append(group, ById) \in Seq(Segment)
    BY <1>3, <2>5
  <2>10. ResolveIntent(c) \in Intents
    BY <2>1 DEF ResolveIntent, InferIntent, Intents
  <2> QED BY <2>7, <2>8, <2>9, <2>10 DEF InferRoute, Route, Intents, group
<1>5. ASSUME NEW c \in S, c \in DOMAIN o.overrides
      PROVE  Route(o.overrides[c].method, o.overrides[c].path, c).path \in Seq(Segment)
    BY <1>5, GatewayAssumption DEF Route
<1> QED BY <1>4, <1>5 DEF Table, GenerateRoutes

-----------------------------------------------------------------------------
(* Whatever way an answer took, it has the fields of an answer.             *)
LEMMA AnswersHaveFields ==
    /\ \A c, input, ctx, rejecting : DOMAIN Invoke(c, input, ctx, rejecting) = DOMAIN NoAnswer
    /\ \A request, match, headers, rejecting :
         DOMAIN Dispatch(request, match, headers, rejecting) = DOMAIN NoAnswer
<1>1. ASSUME NEW c, NEW input, NEW ctx, NEW rejecting
      PROVE  DOMAIN Invoke(c, input, ctx, rejecting) = DOMAIN NoAnswer
  <2>1. \A ran, err : DOMAIN Response(c, input, ran, err) = DOMAIN NoAnswer
    BY DEF Response
  <2>2. \A err : DOMAIN Refusal(err) = DOMAIN NoAnswer
    BY DEF Refusal, Failed
  <2> QED BY <2>1, <2>2 DEF Invoke, Pass, Ended
<1>2. \A status : DOMAIN Failed(status) = DOMAIN NoAnswer
    BY DEF Failed
<1>3. \A cap, answer : DOMAIN Respond(cap, answer) = DOMAIN answer
    BY DEF Respond
<1>4. ASSUME NEW request, NEW match, NEW body, NEW ctx, NEW rejecting
      PROVE  DOMAIN Finish(request, match, body, ctx, rejecting) = DOMAIN NoAnswer
    BY <1>1, <1>2, <1>3 DEF Finish
<1>5. ASSUME NEW request, NEW match, NEW headers, NEW rejecting
      PROVE  DOMAIN Dispatch(request, match, headers, rejecting) = DOMAIN NoAnswer
    BY <1>2, <1>4 DEF Dispatch
<1> QED BY <1>1, <1>5

(* What the REST transport sends has the match of the router and the        *)
(* headers of every answer.                                                 *)
LEMMA RestAnswers ==
    ASSUME NEW request, NEW origin, NEW headers, NEW rejecting
    PROVE  LET answer == Rest(request, origin, headers, rejecting)
           IN  /\ DOMAIN answer = DOMAIN NoAnswer
               /\ answer.match = Match(routes, request.method, request.path)
               /\ answer.headers = SetAtOnce(origin) \union Written(answer.status)
<1> DEFINE match == Match(routes, request.method, request.path)
           plain == Dispatch(request, match, headers, rejecting)
           answer == Rest(request, origin, headers, rejecting)
<1>1. DOMAIN plain = DOMAIN NoAnswer
    BY AnswersHaveFields
<1>2. "match" \in DOMAIN NoAnswer /\ "headers" \in DOMAIN NoAnswer /\ "status" \in DOMAIN NoAnswer
    BY DEF NoAnswer
<1>3. answer = [plain EXCEPT !.match = match, !.headers = SetAtOnce(origin) \union Written(plain.status)]
    BY DEF Rest, Handled, Sent
<1> HIDE DEF plain, match
<1>4. /\ DOMAIN answer = DOMAIN NoAnswer /\ answer.match = match /\ answer.status = plain.status
      /\ answer.headers = SetAtOnce(origin) \union Written(plain.status)
    BY <1>1, <1>2, <1>3
<1> QED BY <1>4 DEF match

-----------------------------------------------------------------------------
(* The inductive invariant: nothing is called before the server is mounted, *)
(* the table is what the tree and the options generate, and the latest call *)
(* holds what was computed from them.                                       *)
Origin == IF call.surface = "http" THEN call.args.origin ELSE "none"

Mounted ==
    /\ options \in Options
    /\ routes = GenerateRoutes(DOMAIN tree, options.urlCase, options.overrides)
    /\ phase = IF Collides(tree) \/ InvalidKeys(tree) \/ RouterRefuses(routes) THEN "refused" ELSE "up"

Matched == call.answer.match = Match(routes, call.args.method, call.args.path)
Headed == call.answer.headers = SetAtOnce(Origin) \union Written(call.answer.status)
Exits == call.exit = IF CheckFails(DOMAIN tree \ Plugins(tree)) THEN 1 ELSE 0

GatewayInv ==
    /\ DOMAIN tree \subseteq Caps
    /\ phase = "declaring" => call = NoCall
    /\ phase # "declaring" => Mounted
    /\ call.surface = "http" => phase = "up" /\ call.args \in Requests /\ Matched
    /\ OverHttp => phase = "up" /\ Headed
    /\ call.surface = "check" => phase # "declaring" /\ Exits

\* What a step that changes only the call leaves as it was.
Served == <<phase, tree, script, options, registry, routes>>

LEMMA CallKeeps ==
    ASSUME GatewayInv, phase = "up", NEW surface, NEW c, NEW args, NEW way, NEW answer,
           Called(surface, c, args, way, answer), surface # "check",
           surface = "http" => args \in Requests /\ answer.match = Match(routes, args.method, args.path),
           surface \in {"client", "openapi", "http"} =>
             answer.headers = SetAtOnce(IF surface = "http" THEN args.origin ELSE "none")
                              \union Written(answer.status)
    PROVE  GatewayInv'
<1>1. /\ call' = [surface |-> surface, cap |-> c, args |-> args, way |-> way, answer |-> answer]
      /\ phase' = phase /\ tree' = tree /\ options' = options /\ routes' = routes
    BY DEF Called
<1>2. call'.surface = surface /\ call'.args = args /\ call'.answer = answer
    BY <1>1
<1>3. (DOMAIN tree \subseteq Caps)' /\ (phase = "declaring" => call = NoCall)' /\ (phase # "declaring" => Mounted)'
    BY <1>1 DEF GatewayInv, Mounted
<1>4. (call.surface = "http" => phase = "up" /\ call.args \in Requests /\ Matched)'
    BY <1>1, <1>2 DEF Matched
<1>5. (OverHttp => phase = "up" /\ Headed)'
    BY <1>1, <1>2 DEF OverHttp, Headed, Origin, SetAtOnce, Written, Prepared, Dynamic, Merged
<1>6. (call.surface = "check" => phase # "declaring" /\ Exits)'
    BY <1>2
<1> QED BY <1>3, <1>4, <1>5, <1>6 DEF GatewayInv

LEMMA GatewayInit == Init => GatewayInv
BY DEF Init, GatewayInv, NoCall, OverHttp

(* A surface that is not HTTP, or that reaches the server over it.          *)
LEMMA OtherCallsKeep ==
    ASSUME GatewayInv, phase = "up", NEW c, NEW args, NEW way,
           CallGraphQL(c, args, way) \/ CallMcp(c, args, way) \/ CallWs(c, args, way) \/ CallDirect(c, args, way)
    PROVE  GatewayInv'
<1>1. CASE CallGraphQL(c, args, way)
    BY <1>1, CallKeeps DEF CallGraphQL
<1>2. CASE CallMcp(c, args, way)
    BY <1>2, CallKeeps DEF CallMcp
<1>3. CASE CallWs(c, args, way)
    BY <1>3, CallKeeps DEF CallWs
<1>4. CASE CallDirect(c, args, way)
    BY <1>4, CallKeeps DEF CallDirect
<1> QED BY <1>1, <1>2, <1>3, <1>4

LEMMA HttpCallsKeep ==
    ASSUME GatewayInv, phase = "up", NEW c, NEW args, NEW way, CallClient(c, args, way) \/ CallOpenApi(c, args, way)
    PROVE  GatewayInv'
<1>1. CASE CallClient(c, args, way)
  <2> DEFINE answer == Client(c, args, way.rejecting)
             sent == Rest(ClientRequest(ClientRoute(c), args), "none", <<>>, way.rejecting)
  <2>1. DOMAIN sent = DOMAIN NoAnswer /\ sent.headers = SetAtOnce("none") \union Written(sent.status)
    BY RestAnswers
  <2>2. answer = ReadAsJson(sent)
    BY DEF Client
  <2> HIDE DEF sent
  <2>3. answer.headers = sent.headers /\ answer.status = sent.status
    BY <2>1, <2>2 DEF ReadAsJson, NoAnswer
  <2>4. Called("client", c, args, way, answer)
    BY <1>1 DEF CallClient
  <2> HIDE DEF answer
  <2> QED BY <2>1, <2>3, <2>4, CallKeeps
<1>2. CASE CallOpenApi(c, args, way)
  <2> DEFINE answer == OpenApi(c, args, way.headers, way.rejecting)
  <2>1. answer.headers = SetAtOnce("none") \union Written(answer.status)
    BY RestAnswers DEF OpenApi
  <2>2. Called("openapi", c, args, way, answer)
    BY <1>2 DEF CallOpenApi
  <2> HIDE DEF answer
  <2> QED BY <2>1, <2>2, CallKeeps
<1> QED BY <1>1, <1>2

LEMMA RequestsKeep ==
    ASSUME GatewayInv, phase = "up", NEW request \in Requests, HandleRequest(request)
    PROVE  GatewayInv'
<1> DEFINE answer == Rest(request, request.origin, request.headers, RejectNothing)
           way == [Plain EXCEPT !.headers = request.headers]
<1>1. /\ answer.match = Match(routes, request.method, request.path)
      /\ answer.headers = SetAtOnce(request.origin) \union Written(answer.status)
    BY RestAnswers
<1>2. Called("http", "none", request, way, answer)
    BY DEF HandleRequest
<1> HIDE DEF answer, way
<1> QED BY <1>1, <1>2, CallKeeps

LEMMA GatewayNext == GatewayInv /\ [Next]_vars => GatewayInv'
<1> SUFFICES ASSUME GatewayInv, [Next]_vars PROVE GatewayInv'
    OBVIOUS
<1>1. ASSUME phase = "declaring", phase' = phase, call' = call, DOMAIN tree' \subseteq Caps PROVE GatewayInv'
    BY <1>1 DEF GatewayInv, NoCall, OverHttp
<1>2. ASSUME NEW c \in Caps, NEW guards, Declare(c, guards) PROVE GatewayInv'
  <2>1. DOMAIN tree' = DOMAIN tree \union {c}
    BY <1>2 DEF Declare, Added
  <2> QED BY <1>1, <1>2, <2>1 DEF Declare, GatewayInv
<1>3. ASSUME NEW c, NEW op, ChainOn(c, op) PROVE GatewayInv'
  <2>1. DOMAIN tree' = DOMAIN tree
    BY <1>3 DEF ChainOn
  <2> QED BY <1>1, <1>3, <2>1 DEF ChainOn, GatewayInv
<1>4. ASSUME NEW o \in Options, Mount(o) PROVE GatewayInv'
  <2>1. /\ call' = NoCall /\ tree' = tree /\ options' = o
        /\ routes' = GenerateRoutes(DOMAIN tree, o.urlCase, o.overrides)
        /\ phase' = IF Collides(tree) \/ InvalidKeys(tree) \/ RouterRefuses(routes') THEN "refused" ELSE "up"
    BY <1>4 DEF Mount, GatewayInv
  <2>2. Mounted'
    BY <2>1 DEF Mounted
  <2> QED BY <2>1, <2>2 DEF GatewayInv, NoCall, OverHttp
<1>5. ASSUME CapixCheck PROVE GatewayInv'
  <2>1. /\ UNCHANGED Served /\ phase # "declaring"
        /\ call' = [surface |-> "check", way |-> Plain,
                    exit |-> IF CheckFails(DOMAIN tree \ Plugins(tree)) THEN 1 ELSE 0]
    BY <1>5 DEF CapixCheck, Served
  <2>2. call'.surface = "check" /\ call'.exit = IF CheckFails(DOMAIN tree \ Plugins(tree)) THEN 1 ELSE 0
    BY <2>1
  <2>3. Mounted' /\ Exits'
    BY <2>1, <2>2 DEF GatewayInv, Mounted, Exits, Served, CheckFails
  <2> QED BY <2>1, <2>2, <2>3 DEF GatewayInv, Served, OverHttp
<1>6. ASSUME UNCHANGED Served, call' = NoCall PROVE GatewayInv'
    BY <1>6 DEF GatewayInv, Mounted, Served, NoCall, OverHttp
<1>7. ASSUME UNCHANGED vars PROVE GatewayInv'
  <2>1. UNCHANGED Served /\ call' = call
    BY <1>7 DEF vars, Served
  <2> QED BY <2>1 DEF GatewayInv, Mounted, Matched, Headed, Exits, Origin, Served, OverHttp,
                      SetAtOnce, Written, Prepared, Dynamic, Merged, CheckFails
<1>8. CASE Next
  <2>1. ASSUME NEW c \in DOMAIN ChainOps, NEW op \in ChainOps[c],
               ChainOn(c, op) \/ (op.chain = "guard" /\ Declare(c, <<op.step>>))
        PROVE  GatewayInv'
    <3>1. CASE ChainOn(c, op)
      BY <1>3, <3>1
    <3>2. CASE Declare(c, <<op.step>>)
      <4>1. c \in Caps
        BY GatewayAssumption
      <4> QED BY <1>2, <3>2, <4>1
    <3> QED BY <2>1, <3>1, <3>2
  <2>2. ASSUME Ready, NEW c, NEW args, NEW way,
               \/ CallClient(c, args, way) \/ CallOpenApi(c, args, way)
               \/ CallGraphQL(c, args, way) \/ CallMcp(c, args, way)
               \/ CallWs(c, args, way) \/ CallDirect(c, args, way)
        PROVE  GatewayInv'
    BY <2>2, HttpCallsKeep, OtherCallsKeep DEF Ready
  <2>3. ASSUME Ready, NEW c, CallUnknown(c) PROVE GatewayInv'
    BY <2>3, OtherCallsKeep DEF Ready, CallUnknown
  <2>4. ASSUME Ready, NEW request \in Requests, HandleRequest(request) PROVE GatewayInv'
    BY <2>4, RequestsKeep DEF Ready
  <2>5. ASSUME Answered PROVE GatewayInv'
    BY <1>6, <2>5 DEF Answered, Served
  <2> QED BY <1>2, <1>4, <1>5, <1>8, <2>1, <2>2, <2>3, <2>4, <2>5 DEF Next
<1> QED BY <1>7, <1>8

-----------------------------------------------------------------------------
(* A server that is up has a valid tree, and so a table.                    *)
LEMMA UpIsTable ==
    ASSUME GatewayInv, phase = "up"
    PROVE  /\ Table(routes) /\ ~RouterRefuses(routes)
           /\ options \in Options
<1>1. /\ Mounted /\ DOMAIN tree \in SUBSET Caps
    BY DEF GatewayInv
<1>2. ~InvalidKeys(tree) /\ ~RouterRefuses(routes) /\ options \in Options
    BY <1>1 DEF Mounted
<1>3. \A c \in DOMAIN tree : \A key \in ToSet(Name(c)) : ValidKey(key)
    BY <1>2 DEF InvalidKeys
<1>4. Table(GenerateRoutes(DOMAIN tree, options.urlCase, options.overrides))
    BY <1>1, <1>2, <1>3, RoutesTyped
<1> QED BY <1>1, <1>2, <1>4 DEF Mounted

(* What `capix check` knows is the whole server.                            *)
LEMMA CheckIsMount ==
    ASSUME GatewayInv, phase # "declaring", Plugins(tree) = {},
           options.urlCase = "kebab", DOMAIN options.overrides \cap DOMAIN tree = {}
    PROVE  CheckFails(DOMAIN tree) <=> phase # "up"
<1>1. Mounted
    BY DEF GatewayInv
<1>2. ~Collides(tree)
    BY DEF Collides
<1>3. InvalidKeys(Restrict(tree, DOMAIN tree)) <=> InvalidKeys(tree)
    BY DEF InvalidKeys, Restrict
<1>4. GenerateRoutes(DOMAIN tree, "kebab", <<>>) = routes
  <2>1. DOMAIN <<>> = {}
    OBVIOUS
  <2>2. \A c \in DOMAIN tree : c \notin DOMAIN options.overrides
    OBVIOUS
  <2> QED BY <1>1, <2>1, <2>2 DEF Mounted, GenerateRoutes
<1> QED BY <1>1, <1>2, <1>3, <1>4 DEF CheckFails, Mounted

(* The router answers every request as its table, and `capix check` passes  *)
(* exactly the trees that start, as far as it knows the server.             *)
LEMMA InvRoutesAgree == GatewayInv => RoutesAgree
<1> SUFFICES ASSUME GatewayInv PROVE RoutesAgree
    OBVIOUS
<1>1. ASSUME call.surface = "http"
      PROVE  call.answer.match = Reference(routes, call.args.method, call.args.path)
  <2>1. phase = "up" /\ call.args \in Requests /\ Matched
    BY <1>1 DEF GatewayInv
  <2>2. call.args.path \in Seq(Token)
    BY <2>1, GatewayAssumption
  <2>3. Table(routes) /\ ~RouterRefuses(routes)
    BY <2>1, UpIsTable
  <2> QED BY <2>1, <2>2, <2>3, RouterIsItsTable DEF Matched
<1>2. ASSUME call.surface = "check", Plugins(tree) = {},
             options.urlCase = "kebab", DOMAIN options.overrides \cap DOMAIN tree = {}
      PROVE  call.exit = 0 <=> phase = "up"
  <2>1. phase # "declaring" /\ Exits
    BY <1>2 DEF GatewayInv
  <2>2. DOMAIN tree \ Plugins(tree) = DOMAIN tree
    BY <1>2
  <2>3. CheckFails(DOMAIN tree) <=> phase # "up"
    BY <1>2, <2>1, CheckIsMount
  <2> QED BY <2>1, <2>2, <2>3 DEF Exits
<1> QED BY <1>1, <1>2 DEF RoutesAgree

(* Every answer over HTTP has the headers of the hooks and of CORS.         *)
LEMMA InvHeaders == GatewayInv => HeadersOnEveryAnswer
<1> SUFFICES ASSUME GatewayInv, OverHttp
             PROVE  /\ CorsHeaders \union UNION {options.sets[i].hook : i \in DOMAIN options.sets}
                         \subseteq call.answer.headers
                    /\ AllowOrigin \in call.answer.headers <=> (Dynamic => Origin \in Merged.origins)
    BY DEF HeadersOnEveryAnswer, Origin
<1>1. phase = "up" /\ Headed
    BY DEF GatewayInv
<1>2. options \in Options
    BY <1>1, UpIsTable
<1>3. Merged.hooks = UNION {options.sets[i].hook : i \in DOMAIN options.sets}
    BY DEF Merged, MergeHooks
<1>4. AllowOrigin \notin Merged.hooks
    BY <1>2, <1>3, GatewayAssumption DEF AllowOrigin
<1>5. AllowOrigin \notin CorsHeaders \union {"Content-Type"} \union {"Allow"}
    BY DEF AllowOrigin, CorsHeaders
<1> QED BY <1>1, <1>3, <1>4, <1>5 DEF Headed, SetAtOnce, Written, Prepared

(* The router agrees with its table, and the command with the server, in    *)
(* every state.                                                             *)
THEOREM RoutesAlwaysAgree == Spec => []RoutesAgree
<1> QED BY GatewayInit, GatewayNext, InvRoutesAgree, PTL DEF Spec

(* No answer over HTTP ever lacks a header of a hook or of CORS.            *)
THEOREM HeadersAreOnAll == Spec => []HeadersOnEveryAnswer
<1> QED BY GatewayInit, GatewayNext, InvHeaders, PTL DEF Spec

-----------------------------------------------------------------------------
(* What was chained of one kind, in order, and with one more.               *)
Picked(ops, chain) ==
    LET kept == Only(ops, {op \in Ops : op.chain = chain}) IN [i \in DOMAIN kept |-> kept[i].step]

Deed == Caps \union Token \union {"validate"}

LEMMA PickedAppend ==
    ASSUME NEW ops \in Seq(Ops), NEW op \in Ops, NEW chain
    PROVE  /\ Picked(ops, chain) \in Seq(Deed) /\ op.step \in Deed
           /\ Picked(Append(ops, op), chain) =
                IF op.chain = chain THEN Append(Picked(ops, chain), op.step) ELSE Picked(ops, chain)
<1> DEFINE kind == {o \in Ops : o.chain = chain}
           kept == Only(ops, kind)
<1>1. kept \in Seq(Ops) /\ \A o \in Ops : o.step \in Deed
    BY OnlyType, GatewayAssumption DEF Deed
<1>2. Only(Append(ops, op), kind) = IF op \in kind THEN Append(kept, op) ELSE kept
    BY OnlyAppend
<1>3. op \in kind <=> op.chain = chain
    OBVIOUS
<1>4. Picked(ops, chain) = [i \in DOMAIN kept |-> kept[i].step]
    BY DEF Picked
<1> HIDE DEF kept
<1>5. /\ [i \in DOMAIN kept |-> kept[i].step] \in Seq(Deed)
      /\ [i \in DOMAIN Append(kept, op) |-> Append(kept, op)[i].step]
           = Append([i \in DOMAIN kept |-> kept[i].step], op.step)
    BY <1>1
<1>6. Picked(Append(ops, op), chain) = IF op.chain = chain THEN Append(Picked(ops, chain), op.step)
                                       ELSE Picked(ops, chain)
  <2>1. CASE op.chain = chain
    <3>1. Only(Append(ops, op), kind) = Append(kept, op)
      BY <1>2, <1>3, <2>1
    <3>2. Picked(Append(ops, op), chain) = [i \in DOMAIN Append(kept, op) |-> Append(kept, op)[i].step]
      BY <3>1 DEF Picked
    <3> QED BY <1>4, <1>5, <2>1, <3>2
  <2>2. CASE op.chain # chain
    <3>1. Only(Append(ops, op), kind) = kept
      BY <1>2, <1>3, <2>2
    <3>2. Picked(Append(ops, op), chain) = [i \in DOMAIN kept |-> kept[i].step]
      BY <3>1 DEF Picked
    <3> QED BY <1>4, <2>2, <3>2
  <2> QED BY <2>1, <2>2
<1> QED BY <1>1, <1>4, <1>5, <1>6

(* Of nothing, nothing.                                                     *)
LEMMA PickedNone == ASSUME NEW chain PROVE Picked(<<>>, chain) = <<>>
BY OnlyEmpty DEF Picked

(* The latest enhancer comes first.                                         *)
LEMMA ReverseAppend ==
    ASSUME NEW T, NEW s \in Seq(T), NEW x \in T
    PROVE  Reverse(s) \in Seq(T) /\ Reverse(Append(s, x)) = <<x>> \o Reverse(s)
<1> DEFINE n == Len(s)
           t == Append(s, x)
           r == Reverse(s)
<1>1. n \in Nat /\ t \in Seq(T) /\ Len(t) = n + 1 /\ t[n + 1] = x /\ \A i \in 1 .. n : t[i] = s[i] /\ s[i] \in T
    OBVIOUS
<1>2. r = [i \in 1 .. n |-> s[(n - i) + 1]] /\ Reverse(t) = [i \in 1 .. n + 1 |-> t[((n + 1) - i) + 1]]
    BY <1>1 DEF Reverse
<1> HIDE DEF n, t, r
<1>3. \A i \in 1 .. n : (n - i) + 1 \in 1 .. n
    BY <1>1
<1>4. r \in Seq(T) /\ Len(r) = n /\ \A i \in 1 .. n : r[i] = s[(n - i) + 1]
    BY <1>1, <1>2, <1>3
<1>5. <<x>> \o r = [i \in 1 .. n + 1 |-> IF i = 1 THEN x ELSE r[i - 1]]
    BY <1>1, <1>4
<1>6. ASSUME NEW i \in 1 .. n + 1
      PROVE  t[((n + 1) - i) + 1] = IF i = 1 THEN x ELSE r[i - 1]
  <2>1. CASE i = 1
    <3>1. ((n + 1) - i) + 1 = n + 1
      BY <1>1, <2>1
    <3> QED BY <1>1, <2>1, <3>1
  <2>2. CASE i # 1
    <3>1. i - 1 \in 1 .. n /\ ((n + 1) - i) + 1 = (n - (i - 1)) + 1 /\ ((n + 1) - i) + 1 \in 1 .. n
      BY <1>1, <2>2
    <3> QED BY <1>1, <1>4, <2>2, <3>1
  <2> QED BY <2>1, <2>2
<1>7. Reverse(t) = <<x>> \o r
    BY <1>2, <1>5, <1>6, ZenonT(30)
<1> QED BY <1>4, <1>7 DEF t, r

-----------------------------------------------------------------------------
(* A capability that was built by a sequence of chained calls around a core. *)
BuiltAs(cap, ops, core) ==
    \E out : cap = [guards |-> Picked(ops, "guard"), inputGuards |-> Picked(ops, "inputGuard"),
                    fn |-> Reverse(Picked(ops, "enhance")) \o core, output |-> out]

(* One more call on the builder is one more operation of its history.       *)
LEMMA ChainBuilds ==
    ASSUME NEW cap, NEW ops \in Seq(Ops), NEW op \in Ops, NEW core \in Seq(Deed), BuiltAs(cap, ops, core)
    PROVE  BuiltAs(Chain(cap, op), Append(ops, op), core)
<1> DEFINE g == Picked(ops, "guard")
           i == Picked(ops, "inputGuard")
           e == Picked(ops, "enhance")
<1>1. op.chain \in {"guard", "inputGuard", "enhance", "output"}
    BY GatewayAssumption
<1>2. e \in Seq(Deed) /\ op.step \in Deed
    BY PickedAppend
<1>3. /\ Picked(Append(ops, op), "guard") = IF op.chain = "guard" THEN Append(g, op.step) ELSE g
      /\ Picked(Append(ops, op), "inputGuard") = IF op.chain = "inputGuard" THEN Append(i, op.step) ELSE i
      /\ Picked(Append(ops, op), "enhance") = IF op.chain = "enhance" THEN Append(e, op.step) ELSE e
    BY PickedAppend
<1>4. PICK out : cap = [guards |-> g, inputGuards |-> i, fn |-> Reverse(e) \o core, output |-> out]
    BY DEF BuiltAs
<1> DEFINE f == Reverse(e) \o core
           step == op.step
<1> HIDE DEF g, i, e, step
<1>5. Reverse(Append(e, step)) \o core = <<step>> \o f
  <2> DEFINE r == Reverse(e)
             one == <<step>>
  <2>1. step \in Deed /\ one \in Seq(Deed)
    BY <1>2 DEF step
  <2>2. r \in Seq(Deed) /\ Reverse(Append(e, step)) = one \o r
    BY <1>2, <2>1, ReverseAppend
  <2> HIDE DEF r, one
  <2>3. (one \o r) \o core = one \o (r \o core)
    BY <2>1, <2>2, ConcatAssociative
  <2> QED BY <2>2, <2>3 DEF r, one
<1> HIDE DEF f
<1>6. cap = [guards |-> g, inputGuards |-> i, fn |-> f, output |-> out]
    BY <1>4 DEF f
<1>7. CASE op.chain = "guard"
  <2>1. Chain(cap, op) = [guards |-> Append(g, step), inputGuards |-> i, fn |-> f, output |-> out]
    BY <1>6, <1>7 DEF Chain, step
  <2> QED BY <1>3, <1>7, <2>1 DEF BuiltAs, g, i, e, f, step
<1>8. CASE op.chain = "inputGuard"
  <2>1. Chain(cap, op) = [guards |-> g, inputGuards |-> Append(i, step), fn |-> f, output |-> out]
    BY <1>6, <1>8 DEF Chain, step
  <2> QED BY <1>3, <1>8, <2>1 DEF BuiltAs, g, i, e, f, step
<1>9. CASE op.chain = "enhance"
  <2>1. Chain(cap, op) = [guards |-> g, inputGuards |-> i, fn |-> <<step>> \o f, output |-> out]
    BY <1>6, <1>9 DEF Chain, step
  <2> QED BY <1>3, <1>5, <1>9, <2>1 DEF BuiltAs, g, i, e, step
<1>10. CASE op.chain = "output"
  <2>1. Chain(cap, op) = [guards |-> g, inputGuards |-> i, fn |-> f, output |-> step]
    BY <1>6, <1>10 DEF Chain, step
  <2> QED BY <1>3, <1>10, <2>1 DEF BuiltAs, g, i, e, f
<1> QED BY <1>1, <1>7, <1>8, <1>9, <1>10

(* capability(...), with and without a guard chained before it.             *)
LEMMA CapabilityBuilds ==
    ASSUME NEW core \in Seq(Deed)
    PROVE  /\ BuiltAs(Capability(<<>>, core), <<>>, core)
           /\ \A op \in Ops : op.chain = "guard" => BuiltAs(Capability(<<op.step>>, core), <<op>>, core)
<1> DEFINE cap == Capability(<<>>, core)
           none == <<>>
<1>1. none \in Seq(Ops)
    OBVIOUS
<1>2. Reverse(none) = none /\ none \o core = core
    BY DEF Reverse
<1>3. \A chain : Picked(none, chain) = none
    BY PickedNone
<1>4. BuiltAs(cap, none, core)
    BY <1>2, <1>3 DEF BuiltAs, Capability
<1>5. ASSUME NEW op \in Ops, op.chain = "guard" PROVE BuiltAs(Capability(<<op.step>>, core), <<op>>, core)
  <2>1. Chain(cap, op) = Capability(<<op.step>>, core)
    BY <1>5 DEF Chain, Capability
  <2>2. Append(none, op) = <<op>>
    OBVIOUS
  <2> HIDE DEF cap, none
  <2>3. BuiltAs(Chain(cap, op), Append(none, op), core)
    BY <1>1, <1>4, ChainBuilds
  <2> QED BY <2>1, <2>2, <2>3
<1> QED BY <1>4, <1>5

(* The parts of a capability that was built.                                *)
LEMMA BuiltParts ==
    ASSUME NEW cap, NEW ops, NEW core, BuiltAs(cap, ops, core)
    PROVE  /\ cap.guards = Picked(ops, "guard") /\ cap.inputGuards = Picked(ops, "inputGuard")
           /\ cap.fn = Reverse(Picked(ops, "enhance")) \o core
<1> DEFINE g == Picked(ops, "guard")
           i == Picked(ops, "inputGuard")
           f == Reverse(Picked(ops, "enhance")) \o core
<1>1. PICK out : cap = [guards |-> g, inputGuards |-> i, fn |-> f, output |-> out]
    BY DEF BuiltAs
<1> HIDE DEF g, i, f
<1>2. cap.guards = g /\ cap.inputGuards = i /\ cap.fn = f
    BY <1>1
<1> QED BY <1>2 DEF g, i, f

(***************************************************************************)
(* Composition unfolds to any depth.  Awaits is a recursive function, that   *)
(* is, some function that solves its equation: on a set of capabilities      *)
(* that is closed under composition there is exactly one, as no chain of     *)
(* them comes round.                                                        *)
(***************************************************************************)
Closed(S) == S \subseteq Caps /\ \A c \in S : Def[c].calls # "none" => Def[c].calls \in S

Follows(f, parts, S) ==
    \A c \in S : f[c] = IF Def[c].calls = "none" THEN <<>> ELSE parts[Def[c].calls] \o f[Def[c].calls] \o <<Def[c].resumes>>

Unfolds(f, parts, S) ==
    f = [c \in S |-> IF Def[c].calls = "none" THEN <<>> ELSE parts[Def[c].calls] \o f[Def[c].calls] \o <<Def[c].resumes>>]

LEMMA UnfoldsFollows == ASSUME NEW f, NEW p, NEW S, Unfolds(f, p, S) PROVE Follows(f, p, S)
BY DEF Unfolds, Follows

(* Induction: of the capabilities of which something is false, one awaits   *)
(* none of the others.                                                      *)
LEMMA NoLoop ==
    ASSUME NEW S \in SUBSET Caps, S # {}
    PROVE  \E c \in S : Def[c].calls \notin S
BY GatewayAssumption

(* Solutions agree where their parts do.                                    *)
LEMMA SolutionsAgree ==
    ASSUME NEW S, Closed(S), NEW f, NEW p, Follows(f, p, S), NEW g, NEW q, Follows(g, q, S),
           \A c \in S : Def[c].calls # "none" => p[Def[c].calls] = q[Def[c].calls]
    PROVE  \A c \in S : f[c] = g[c]
<1> DEFINE Bad == {c \in S : f[c] # g[c]}
<1> SUFFICES ASSUME Bad # {} PROVE FALSE
    OBVIOUS
<1>1. Bad \in SUBSET Caps
    BY DEF Closed
<1>2. PICK c \in Bad : Def[c].calls \notin Bad
  <2> HIDE DEF Bad
  <2> QED BY <1>1, NoLoop
<1> DEFINE d == Def[c].calls
<1>3. /\ f[c] = IF d = "none" THEN <<>> ELSE p[d] \o f[d] \o <<Def[c].resumes>>
      /\ g[c] = IF d = "none" THEN <<>> ELSE q[d] \o g[d] \o <<Def[c].resumes>>
    BY DEF Follows
<1>4. d # "none" => d \in S
    BY DEF Closed
<1>5. d # "none" => p[d] = q[d] /\ f[d] = g[d]
    BY <1>2, <1>4
<1> HIDE DEF d
<1> QED BY <1>3, <1>5

(* There is a solution on all of Caps: were a capability on no closed set   *)
(* with one, the first such one would extend the set of what it composes.   *)
LEMMA Solvable ==
    ASSUME NEW parts
    PROVE  \E f : Unfolds(f, parts, Caps)
<1> DEFINE On(c, S, g) == c \in S /\ Closed(S) /\ Unfolds(g, parts, S)
           Lost == {c \in Caps : \A S, g : ~On(c, S, g)}
<1>1. Lost = {}
  <2> SUFFICES ASSUME Lost # {} PROVE FALSE
    OBVIOUS
  <2>1. PICK c \in Lost : Def[c].calls \notin Lost
    <3>1. Lost \in SUBSET Caps
      OBVIOUS
    <3> HIDE DEF Lost
    <3> QED BY <3>1, NoLoop
  <2> DEFINE d == Def[c].calls
  <2>2. c \in Caps /\ d \in Caps \union {"none"}
    BY GatewayAssumption
  <2>3. CASE d = "none"
    <3> DEFINE g == [x \in {c} |-> <<>>]
    <3>1. Unfolds(g, parts, {c})
      BY <2>3 DEF Unfolds
    <3>2. On(c, {c}, g)
      BY <2>2, <2>3, <3>1 DEF Closed
    <3> QED BY <3>2
  <2>4. CASE d # "none"
    <3>1. PICK S, g : On(d, S, g)
      BY <2>1, <2>2, <2>4
    <3>2. c \notin S
      <4>1. c \in S => On(c, S, g)
        BY <3>1
      <4> QED BY <4>1
    <3> DEFINE S2 == S \union {c}
               h == [x \in S2 |-> IF x = c THEN parts[d] \o g[d] \o <<Def[c].resumes>> ELSE g[x]]
    <3>3. Closed(S2)
      BY <2>2, <3>1 DEF Closed
    <3>4. \A x \in S : h[x] = g[x]
      BY <3>2
    <3>5. ASSUME NEW x \in S2
          PROVE  h[x] = IF Def[x].calls = "none" THEN <<>> ELSE parts[Def[x].calls] \o h[Def[x].calls] \o <<Def[x].resumes>>
      <4>1. CASE x = c
        <5>1. h[x] = parts[d] \o g[d] \o <<Def[c].resumes>> /\ h[d] = g[d]
          BY <3>1, <3>4, <4>1
        <5> HIDE DEF h
        <5> QED BY <2>4, <4>1, <5>1
      <4>2. CASE x # c
        <5>1. x \in S /\ h[x] = g[x]
          BY <4>2
        <5>2. g[x] = IF Def[x].calls = "none" THEN <<>> ELSE parts[Def[x].calls] \o g[Def[x].calls] \o <<Def[x].resumes>>
          BY <3>1, <5>1 DEF Unfolds
        <5>3. Def[x].calls # "none" => h[Def[x].calls] = g[Def[x].calls]
          BY <3>1, <3>4, <5>1 DEF Closed
        <5> HIDE DEF h
        <5> QED BY <5>1, <5>2, <5>3
      <4> QED BY <4>1, <4>2
    <3>6. Unfolds(h, parts, S2)
      <4>1. h = [x \in S2 |-> h[x]]
        OBVIOUS
      <4> HIDE DEF h, S2
      <4> QED BY <3>5, <4>1 DEF Unfolds
    <3>7. On(c, S2, h)
      BY <3>3, <3>6
    <3> QED BY <3>7
  <2> QED BY <2>3, <2>4
<1>2. \A c \in Caps : \E S, g : On(c, S, g)
    BY <1>1
<1> DEFINE Solved(c) == CHOOSE y : \E S, g : On(c, S, g) /\ y = g[c]
           f == [c \in Caps |-> Solved(c)]
<1>3. ASSUME NEW c \in Caps, NEW S, NEW g, On(c, S, g) PROVE f[c] = g[c]
  <2>1. PICK T, h : On(c, T, h) /\ Solved(c) = h[c]
    BY <1>3
  <2> DEFINE both == S \intersect T
  <2>2. c \in both /\ Closed(both)
    BY <1>3, <2>1 DEF Closed
  <2>3. Follows(g, parts, both) /\ Follows(h, parts, both)
    BY <1>3, <2>1, UnfoldsFollows, SMTT(30) DEF Follows
  <2>4. h[c] = g[c]
    <3> HIDE DEF both
    <3> QED BY <2>2, <2>3, SolutionsAgree
  <2> QED BY <2>1, <2>4
<1>4. ASSUME NEW c \in Caps
      PROVE  f[c] = IF Def[c].calls = "none" THEN <<>> ELSE parts[Def[c].calls] \o f[Def[c].calls] \o <<Def[c].resumes>>
  <2>1. PICK S, g : On(c, S, g)
    BY <1>2
  <2>2. f[c] = g[c]
    BY <1>3, <2>1
  <2>3. g[c] = IF Def[c].calls = "none" THEN <<>> ELSE parts[Def[c].calls] \o g[Def[c].calls] \o <<Def[c].resumes>>
    BY <2>1 DEF Unfolds
  <2>4. ASSUME Def[c].calls # "none" PROVE f[Def[c].calls] = g[Def[c].calls]
    <3>1. Def[c].calls \in Caps /\ On(Def[c].calls, S, g)
      BY <2>1, <2>4 DEF Closed
    <3> HIDE DEF f, On
    <3> QED BY <1>3, <3>1
  <2> HIDE DEF f
  <2> QED BY <2>2, <2>3, <2>4
<1>5. f = [c \in Caps |-> f[c]]
    OBVIOUS
<1> HIDE DEF f
<1> QED BY <1>4, <1>5 DEF Unfolds

LEMMA AwaitsFollows ==
    ASSUME NEW parts, NEW S, S \subseteq Caps
    PROVE  Follows(Awaits(parts), parts, S)
<1>1. Awaits(parts) = CHOOSE f : Unfolds(f, parts, Caps)
    BY DEF Awaits, Unfolds
<1>2. Follows(Awaits(parts), parts, Caps)
    BY <1>1, Solvable, UnfoldsFollows
<1> QED BY <1>2 DEF Follows

(* What is awaited depends on the parts of what is composed only.           *)
LEMMA AwaitsAgree ==
    ASSUME NEW S, Closed(S), NEW p, NEW q,
           \A c \in S : Def[c].calls # "none" => p[Def[c].calls] = q[Def[c].calls]
    PROVE  \A c \in S : Awaits(p)[c] = Awaits(q)[c]
<1>1. Follows(Awaits(p), p, S) /\ Follows(Awaits(q), q, S)
    BY AwaitsFollows DEF Closed
<1> QED BY <1>1, SolutionsAgree

LEMMA AwaitsType ==
    ASSUME NEW S, Closed(S), NEW p, NEW U,
           \A c \in S : Def[c].calls # "none" => p[Def[c].calls] \in Seq(U) /\ Def[c].resumes \in U
    PROVE  \A c \in S : Awaits(p)[c] \in Seq(U)
<1> DEFINE Bad == {c \in S : Awaits(p)[c] \notin Seq(U)}
<1> SUFFICES ASSUME Bad # {} PROVE FALSE
    OBVIOUS
<1>1. Bad \in SUBSET Caps
    BY DEF Closed
<1>2. PICK c \in Bad : Def[c].calls \notin Bad
  <2> HIDE DEF Bad
  <2> QED BY <1>1, NoLoop
<1> DEFINE d == Def[c].calls
           f == Awaits(p)
<1>3. c \in Caps
    BY <1>1
<1>4. f[c] = IF d = "none" THEN <<>> ELSE p[d] \o f[d] \o <<Def[c].resumes>>
    BY <1>3, AwaitsFollows DEF Follows
<1>5. d # "none" => d \in S
    BY DEF Closed
<1>6. d # "none" => p[d] \in Seq(U) /\ f[d] \in Seq(U) /\ Def[c].resumes \in U
    BY <1>2, <1>5
<1>7. f[c] \notin Seq(U)
    OBVIOUS
<1> HIDE DEF d, f
<1>8. CASE d = "none"
    BY <1>4, <1>7, <1>8
<1>9. CASE d # "none"
  <2> DEFINE rest == f[d]
             part == p[d]
             end == <<Def[c].resumes>>
  <2>3. Def[c].resumes \in U
    BY <1>6, <1>9
  <2>4. end \in Seq(U)
    BY <2>3
  <2>5. f[c] = part \o rest \o end
    BY <1>4, <1>9, Zenon
  <2>1. part \in Seq(U) /\ rest \in Seq(U) /\ end \in Seq(U) /\ f[c] = part \o rest \o end
    <3> HIDE DEF end
    <3> QED BY <1>6, <1>9, <2>4, <2>5
  <2> HIDE DEF rest, part, end
  <2>2. part \o rest \o end \in Seq(U)
    BY <2>1
  <2> QED BY <1>7, <2>1, <2>2
<1> QED BY <1>8, <1>9

(* What a capability awaits once it ran, if anything: the resolve of another *)
(* and a step of its own.                                                   *)
Part(scr, d) == (Picked(scr[d], "guard") \o Picked(scr[d], "inputGuard")) \o (Reverse(Picked(scr[d], "enhance")) \o <<d>>)
Awaited(scr, c) == Awaits([d \in Caps |-> Part(scr, d)])[c]
Core(scr, c) == <<c>> \o Awaited(scr, c)

BuildInv ==
    /\ DOMAIN script = DOMAIN tree /\ DOMAIN tree \subseteq Caps
    /\ \A c \in DOMAIN tree :
          /\ Def[c].calls = "none" \/ Def[c].calls \in DOMAIN tree
          /\ script[c] \in Seq(Ops)
          /\ BuiltAs(tree[c], script[c], Core(script, c))

(* Types of the parts that a pipeline is made of.                           *)
LEMMA PickedType ==
    ASSUME NEW ops \in Seq(Ops), NEW chain
    PROVE  Picked(ops, chain) \in Seq(Deed)
<1> DEFINE kept == Only(ops, {op \in Ops : op.chain = chain})
<1>1. kept \in Seq(Ops) /\ \A o \in Ops : o.step \in Deed
    BY OnlyType, GatewayAssumption DEF Deed
<1> HIDE DEF kept
<1>2. [i \in DOMAIN kept |-> kept[i].step] \in Seq(Deed)
    BY <1>1
<1> QED BY <1>2 DEF Picked, kept

LEMMA ReverseType == ASSUME NEW T, NEW s \in Seq(T) PROVE Reverse(s) \in Seq(T)
<1> DEFINE n == Len(s)
<1>1. n \in Nat /\ \A i \in 1 .. n : s[i] \in T /\ (n - i) + 1 \in 1 .. n
    OBVIOUS
<1>2. Reverse(s) = [i \in 1 .. n |-> s[(n - i) + 1]]
    BY DEF Reverse
<1> HIDE DEF n
<1> QED BY <1>1, <1>2

LEMMA PartType ==
    ASSUME NEW scr, NEW d \in Caps, scr[d] \in Seq(Ops)
    PROVE  Part(scr, d) \in Seq(Deed)
<1> DEFINE g == Picked(scr[d], "guard")
           i == Picked(scr[d], "inputGuard")
           e == Reverse(Picked(scr[d], "enhance"))
           one == <<d>>
<1>1. g \in Seq(Deed) /\ i \in Seq(Deed) /\ e \in Seq(Deed) /\ one \in Seq(Deed)
    BY PickedType, ReverseType DEF Deed
<1> HIDE DEF g, i, e, one
<1>2. (g \o i) \o (e \o one) \in Seq(Deed)
    BY <1>1
<1> QED BY <1>2 DEF Part, g, i, e, one

(* The tree is closed: what a capability composes is declared before it.    *)
LEMMA TreeIsClosed ==
    ASSUME BuildInv
    PROVE  /\ Closed(DOMAIN tree)
           /\ \A c \in DOMAIN tree : Def[c].calls # "none" => Part(script, Def[c].calls) \in Seq(Deed)
BY PartType DEF BuildInv, Closed

LEMMA AwaitedIs ==
    ASSUME NEW scr, NEW c \in Caps
    PROVE  Awaited(scr, c) = IF Def[c].calls = "none" THEN <<>>
                             ELSE Part(scr, Def[c].calls) \o Awaited(scr, Def[c].calls) \o <<Def[c].resumes>>
<1> DEFINE parts == [d \in Caps |-> Part(scr, d)]
           f == Awaits(parts)
<1>1. f[c] = IF Def[c].calls = "none" THEN <<>> ELSE parts[Def[c].calls] \o f[Def[c].calls] \o <<Def[c].resumes>>
  <2> HIDE DEF parts
  <2> QED BY AwaitsFollows DEF Follows
<1>2. Def[c].calls # "none" => parts[Def[c].calls] = Part(scr, Def[c].calls)
    BY GatewayAssumption
<1> HIDE DEF parts
<1> QED BY <1>1, <1>2 DEF Awaited, parts

LEMMA AwaitedType ==
    ASSUME BuildInv, NEW c \in DOMAIN tree
    PROVE  Awaited(script, c) \in Seq(Deed)
<1> DEFINE parts == [d \in Caps |-> Part(script, d)]
<1>1. \A d \in DOMAIN tree : Def[d].calls # "none" => parts[Def[d].calls] \in Seq(Deed) /\ Def[d].resumes \in Deed
    BY TreeIsClosed, GatewayAssumption DEF BuildInv, Deed
<1>2. Closed(DOMAIN tree)
    BY TreeIsClosed
<1> HIDE DEF parts
<1>3. Awaits(parts)[c] \in Seq(Deed)
    BY <1>1, <1>2, AwaitsType
<1> QED BY <1>3 DEF Awaited, parts

(* A core, declared or about to be, is a sequence of steps, and stays what  *)
(* it is while the histories of what the tree composes do.                  *)
LEMMA CoreType ==
    ASSUME BuildInv, NEW c \in Caps, Def[c].calls = "none" \/ Def[c].calls \in DOMAIN tree
    PROVE  Awaited(script, c) \in Seq(Deed) /\ Core(script, c) \in Seq(Deed)
<1> DEFINE d == Def[c].calls
           own == <<c>>
<1>1. Awaited(script, c) \in Seq(Deed)
  <2>1. CASE d = "none"
    <3>1. Awaited(script, c) = <<>>
      BY <2>1, AwaitedIs, Zenon
    <3>2. <<>> \in Seq(Deed)
      OBVIOUS
    <3> QED BY <3>1, <3>2
  <2>2. CASE d # "none"
    <3> DEFINE part == Part(script, d)
               rest == Awaited(script, d)
               end == <<Def[c].resumes>>
    <3>1. part \in Seq(Deed) /\ rest \in Seq(Deed)
      BY <2>2, AwaitedType, PartType DEF BuildInv
    <3>2. Awaited(script, c) = part \o rest \o end
      BY <2>2, AwaitedIs
    <3>3. end \in Seq(Deed)
      BY GatewayAssumption DEF Deed
    <3> HIDE DEF part, rest, end
    <3>4. part \o rest \o end \in Seq(Deed)
      BY <3>1, <3>3
    <3> QED BY <3>2, <3>4
  <2> QED BY <2>1, <2>2
<1>2. own \in Seq(Deed)
    BY DEF Deed
<1> HIDE DEF own
<1>3. own \o Awaited(script, c) \in Seq(Deed)
    BY <1>1, <1>2
<1> QED BY <1>1, <1>3 DEF Core, own

LEMMA AwaitedStays ==
    ASSUME BuildInv, NEW scr, \A d \in DOMAIN tree : (\E b \in DOMAIN tree : Def[b].calls = d) => scr[d] = script[d]
    PROVE  \A c \in DOMAIN tree : Awaited(scr, c) = Awaited(script, c) /\ Core(scr, c) = Core(script, c)
<1> DEFINE p == [d \in Caps |-> Part(scr, d)]
           q == [d \in Caps |-> Part(script, d)]
<1>1. ASSUME NEW c \in DOMAIN tree, Def[c].calls # "none" PROVE p[Def[c].calls] = q[Def[c].calls]
  <2>1. Def[c].calls \in DOMAIN tree /\ Def[c].calls \in Caps
    BY <1>1 DEF BuildInv
  <2>2. scr[Def[c].calls] = script[Def[c].calls]
    BY <2>1
  <2> QED BY <2>1, <2>2 DEF Part
<1>2. Closed(DOMAIN tree)
    BY TreeIsClosed
<1> HIDE DEF p, q
<1>3. \A c \in DOMAIN tree : Awaits(p)[c] = Awaits(q)[c]
    BY <1>1, <1>2, AwaitsAgree
<1>4. \A c \in DOMAIN tree : Awaited(scr, c) = Awaited(script, c)
    BY <1>3 DEF Awaited, p, q
<1> QED BY <1>4 DEF Core

(* What composing a capability calls is what was chained on that one, and   *)
(* what that one composes.                                                  *)
LEMMA ResolverIsCore ==
    ASSUME BuildInv, NEW c \in Caps, Def[c].calls = "none" \/ Def[c].calls \in DOMAIN tree
    PROVE  Resolver(c, tree) = Core(script, c)
<1> DEFINE d == Def[c].calls
<1>1. CASE d = "none"
  <2>1. d \notin DOMAIN tree
    BY <1>1, GatewayAssumption DEF BuildInv
  <2>2. Awaited(script, c) = <<>>
    BY <1>1, AwaitedIs, Zenon
  <2>3. <<c>> \o <<>> = <<c>>
    OBVIOUS
  <2> QED BY <2>1, <2>2, <2>3 DEF Resolver, Core
<1>2. CASE d # "none"
  <2> DEFINE g == Picked(script[d], "guard")
             i == Picked(script[d], "inputGuard")
             e == Reverse(Picked(script[d], "enhance"))
             one == <<d>>
             rest == Awaited(script, d)
             both == g \o i
             end == <<Def[c].resumes>>
             own == <<c>>
  <2>1. d \in DOMAIN tree /\ d \in Caps /\ script[d] \in Seq(Ops)
    BY <1>2 DEF BuildInv
  <2>2. /\ tree[d].guards = g /\ tree[d].inputGuards = i
        /\ tree[d].fn = e \o (one \o rest)
    <3>1. BuiltAs(tree[d], script[d], Core(script, d))
      BY <2>1 DEF BuildInv
    <3> DEFINE cap == tree[d]
               ops == script[d]
               core == Core(script, d)
    <3>2. core = one \o rest
      BY DEF Core
    <3>3. BuiltAs(cap, ops, core)
      BY <3>1
    <3> HIDE DEF cap, ops, core, one, rest
    <3>4. /\ cap.guards = Picked(ops, "guard") /\ cap.inputGuards = Picked(ops, "inputGuard")
          /\ cap.fn = Reverse(Picked(ops, "enhance")) \o (one \o rest)
      BY <3>2, <3>3, BuiltParts
    <3> QED BY <3>4 DEF cap, ops
  <2>3. /\ g \in Seq(Deed) /\ i \in Seq(Deed) /\ e \in Seq(Deed) /\ one \in Seq(Deed)
        /\ rest \in Seq(Deed)
    BY <2>1, PickedType, ReverseType, AwaitedType DEF Deed
  <2>4. Awaited(script, c) = ((both \o (e \o one)) \o rest) \o end
    BY <1>2, AwaitedIs DEF Part
  <2>5. Resolve(tree[d]) = both \o (e \o (one \o rest))
    <3> DEFINE cap == tree[d]
    <3>1. cap.guards = g /\ cap.inputGuards = i /\ cap.fn = e \o (one \o rest)
      BY <2>2
    <3> HIDE DEF cap, g, i, e, one, rest
    <3>2. Resolve(cap) = (g \o i) \o (e \o (one \o rest))
      BY <3>1 DEF Resolve
    <3> QED BY <3>2 DEF cap
  <2>6. both \in Seq(Deed)
    <3> HIDE DEF g, i
    <3> QED BY <2>3
  <2>8. own \in Seq(Deed) /\ end \in Seq(Deed)
    BY GatewayAssumption DEF Deed
  <2>9. Resolver(c, tree) = (own \o Resolve(tree[d])) \o end
    BY <2>1 DEF Resolver
  <2>10. Core(script, c) = own \o Awaited(script, c)
    BY DEF Core
  <2> HIDE DEF g, i, e, one, rest, both, end, own
  <2>7. (both \o (e \o one)) \o rest = both \o (e \o (one \o rest))
    <3> DEFINE tail == e \o one
    <3>1. e \in Seq(Deed) /\ one \in Seq(Deed) /\ rest \in Seq(Deed)
      BY <2>3
    <3>2. tail \in Seq(Deed)
      BY <3>1
    <3>3. (e \o one) \o rest = e \o (one \o rest)
      BY <3>1, ConcatAssociative, SMTT(30)
    <3> HIDE DEF tail
    <3>4. (both \o tail) \o rest = both \o (tail \o rest)
      BY <2>6, <3>1, <3>2, ConcatAssociative, SMTT(30)
    <3> QED BY <3>3, <3>4 DEF tail
  <2> DEFINE middle == both \o (e \o (one \o rest))
  <2>11. middle \in Seq(Deed)
    BY <2>3, <2>6
  <2> HIDE DEF middle
  <2>12. (own \o middle) \o end = own \o (middle \o end)
    BY <2>8, <2>11, ConcatAssociative, SMTT(30)
  <2>13. Awaited(script, c) = middle \o end /\ Resolve(tree[d]) = middle
    BY <2>4, <2>5, <2>7 DEF middle
  <2> QED BY <2>9, <2>10, <2>12, <2>13
<1> QED BY <1>1, <1>2

(* The builder keeps every capability what its history makes of it.         *)
LEMMA DeclareBuilds ==
    ASSUME BuildInv, NEW c \in Caps, NEW guards, Declare(c, guards),
           guards = <<>> \/ \E op \in Ops : op.chain = "guard" /\ guards = <<op.step>>
    PROVE  BuildInv'
<1> DEFINE ops == [i \in DOMAIN guards |-> GuardOp(guards[i])]
<1>1. /\ c \notin DOMAIN tree /\ (Def[c].calls = "none" \/ Def[c].calls \in DOMAIN tree)
      /\ tree' = Added(tree, c, Capability(guards, Resolver(c, tree)))
      /\ script' = Added(script, c, ops)
    BY DEF Declare
<1>2. /\ DOMAIN tree' = DOMAIN tree \union {c} /\ DOMAIN script' = DOMAIN script \union {c}
      /\ tree'[c] = Capability(guards, Resolver(c, tree)) /\ script'[c] = ops
      /\ \A d \in DOMAIN tree : tree'[d] = tree[d] /\ script'[d] = script[d]
    BY <1>1 DEF Added, BuildInv
<1>3. Core(script', c) = Core(script, c) /\ \A d \in DOMAIN tree : Core(script', d) = Core(script, d)
  <2> DEFINE scr == script'
  <2>1. \A d \in DOMAIN tree : scr[d] = script[d]
    BY <1>2
  <2> HIDE DEF scr
  <2>2. \A d \in DOMAIN tree : Awaited(scr, d) = Awaited(script, d) /\ Core(scr, d) = Core(script, d)
    BY <2>1, AwaitedStays
  <2>3. ASSUME Def[c].calls \in DOMAIN tree PROVE Awaited(scr, c) = Awaited(script, c)
    <3> DEFINE d == Def[c].calls
    <3>1. Part(scr, d) = Part(script, d)
      BY <2>1, <2>3 DEF Part
    <3>2. Awaited(scr, d) = Awaited(script, d)
      BY <2>2, <2>3
    <3> QED BY <1>1, <2>3, <3>1, <3>2, AwaitedIs
  <2>4. Awaited(scr, c) = Awaited(script, c)
    BY <1>1, <2>3, AwaitedIs
  <2>5. Core(scr, c) = Core(script, c)
    BY <2>4 DEF Core
  <2> QED BY <2>2, <2>5 DEF scr
<1>4. Core(script, c) \in Seq(Deed)
    BY <1>1, CoreType
<1>5. ops \in Seq(Ops) /\ BuiltAs(tree'[c], ops, Core(script, c))
  <2>1. Resolver(c, tree) = Core(script, c)
    BY <1>1, ResolverIsCore
  <2>2. CASE guards = <<>>
    <3>1. ops = <<>> /\ <<>> \in Seq(Ops)
      BY <2>2
    <3> QED BY <1>2, <1>4, <2>1, <2>2, <3>1, CapabilityBuilds
  <2>3. CASE guards # <<>>
    <3>1. PICK op \in Ops : op.chain = "guard" /\ guards = <<op.step>>
      BY <2>3
    <3>2. op = GuardOp(op.step)
      BY <3>1, GatewayAssumption DEF GuardOp
    <3>3. ops = <<op>>
      BY <3>1, <3>2
    <3>4. <<op>> \in Seq(Ops)
      OBVIOUS
    <3> QED BY <1>2, <1>4, <2>1, <3>1, <3>3, <3>4, CapabilityBuilds
  <2> QED BY <2>2, <2>3
<1>6. ASSUME NEW d \in DOMAIN tree'
      PROVE  /\ Def[d].calls = "none" \/ Def[d].calls \in DOMAIN tree'
             /\ script'[d] \in Seq(Ops) /\ BuiltAs(tree'[d], script'[d], Core(script', d))
  <2>1. CASE d = c
    BY <1>1, <1>2, <1>3, <1>5, <2>1
  <2>2. CASE d # c
    BY <1>2, <1>3, <2>2 DEF BuildInv
  <2> QED BY <2>1, <2>2
<1>7. DOMAIN script' = DOMAIN tree' /\ DOMAIN tree' \subseteq Caps
    BY <1>2 DEF BuildInv
<1> QED BY <1>6, <1>7 DEF BuildInv

LEMMA ChainOnBuilds ==
    ASSUME BuildInv, NEW c, NEW op \in Ops, ChainOn(c, op)
    PROVE  BuildInv'
<1>1. /\ c \in DOMAIN tree /\ \A d \in DOMAIN tree : Def[d].calls # c
      /\ tree' = [tree EXCEPT ![c] = Chain(tree[c], op)]
      /\ script' = [script EXCEPT ![c] = Append(script[c], op)]
    BY DEF ChainOn
<1>2. /\ DOMAIN tree' = DOMAIN tree /\ DOMAIN script' = DOMAIN script
      /\ tree'[c] = Chain(tree[c], op) /\ script'[c] = Append(script[c], op)
      /\ \A d \in DOMAIN tree : d # c => tree'[d] = tree[d] /\ script'[d] = script[d]
    BY <1>1 DEF BuildInv
<1>3. \A d \in DOMAIN tree : Core(script', d) = Core(script, d)
  <2> DEFINE scr == script'
  <2>1. \A d \in DOMAIN tree : (\E b \in DOMAIN tree : Def[b].calls = d) => scr[d] = script[d]
    BY <1>1, <1>2
  <2> HIDE DEF scr
  <2>2. \A d \in DOMAIN tree : Core(scr, d) = Core(script, d)
    BY <2>1, AwaitedStays
  <2> QED BY <2>2 DEF scr
<1>4. script[c] \in Seq(Ops) /\ Core(script, c) \in Seq(Deed)
    BY <1>1, CoreType DEF BuildInv
<1>5. BuiltAs(tree'[c], script'[c], Core(script, c)) /\ script'[c] \in Seq(Ops)
  <2>1. BuiltAs(tree[c], script[c], Core(script, c))
    BY <1>1 DEF BuildInv
  <2> QED BY <1>2, <1>4, <2>1, ChainBuilds
<1>6. ASSUME NEW d \in DOMAIN tree'
      PROVE  /\ Def[d].calls = "none" \/ Def[d].calls \in DOMAIN tree'
             /\ script'[d] \in Seq(Ops) /\ BuiltAs(tree'[d], script'[d], Core(script', d))
  <2>1. CASE d = c
    BY <1>1, <1>2, <1>3, <1>5, <2>1 DEF BuildInv
  <2>2. CASE d # c
    BY <1>2, <1>3, <2>2 DEF BuildInv
  <2> QED BY <2>1, <2>2
<1> QED BY <1>2, <1>6 DEF BuildInv

(* Promised concatenates the same parts as the engine, from the left.        *)
LEMMA PipelineIsPromise ==
    ASSUME BuildInv, NEW c \in DOMAIN tree
    PROVE  Pipeline(tree[c]) = Promised(c) /\ Promised(c) \in Seq(Deed) /\ Promised(c) # <<>>
<1> DEFINE g == Picked(script[c], "guard")
           v == <<"validate">>
           i == Picked(script[c], "inputGuard")
           e == Reverse(Picked(script[c], "enhance"))
           own == <<c>>
           rest == Awaited(script, c)
           d == Def[c].calls
<1>1. /\ c \in Caps /\ script[c] \in Seq(Ops)
      /\ d # "none" => d \in DOMAIN tree /\ d \in Caps /\ script[d] \in Seq(Ops)
    BY DEF BuildInv
<1>2. /\ g \in Seq(Deed) /\ v \in Seq(Deed) /\ i \in Seq(Deed) /\ e \in Seq(Deed) /\ own \in Seq(Deed)
      /\ rest \in Seq(Deed)
  <2>1. g \in Seq(Deed) /\ i \in Seq(Deed) /\ Picked(script[c], "enhance") \in Seq(Deed)
    BY <1>1, PickedType
  <2>2. e \in Seq(Deed)
    BY <2>1, ReverseType
  <2>3. v \in Seq(Deed) /\ own \in Seq(Deed)
    BY <1>1 DEF Deed
  <2>4. rest \in Seq(Deed)
    BY <1>1, CoreType
  <2> QED BY <2>1, <2>2, <2>3, <2>4
<1>3. Pipeline(tree[c]) = ((g \o v) \o i) \o (e \o (own \o rest))
  <2>1. BuiltAs(tree[c], script[c], Core(script, c))
    BY DEF BuildInv
  <2> DEFINE cap == tree[c]
             f == e \o Core(script, c)
  <2>2. cap.guards = g /\ cap.inputGuards = i /\ cap.fn = f
    BY <2>1, BuiltParts
  <2>3. f = e \o (own \o rest)
    BY DEF Core
  <2> HIDE DEF cap, f, g, i, e, own, rest
  <2>4. Pipeline(cap) = ((g \o v) \o i) \o (e \o (own \o rest))
    BY <2>2, <2>3 DEF Pipeline
  <2> QED BY <2>4 DEF cap
<1>4. \A x, chain : Chosen(x, chain) = Picked(script[x], chain)
    BY DEF Chosen, Picked
<1>5. \A x, w : Composed(x, w) = (((Picked(script[x], "guard") \o w) \o Picked(script[x], "inputGuard"))
                                  \o Reverse(Picked(script[x], "enhance"))) \o <<x>>
    BY <1>4 DEF Composed
<1>6. Awaits([x \in DOMAIN script |-> Composed(x, <<>>)])[c] = rest
  <2> DEFINE p == [x \in DOMAIN script |-> Composed(x, <<>>)]
             q == [x \in Caps |-> Part(script, x)]
  <2>1. ASSUME NEW x \in DOMAIN tree PROVE Composed(x, <<>>) = Part(script, x)
    <3> DEFINE xg == Picked(script[x], "guard")
               xi == Picked(script[x], "inputGuard")
               xe == Reverse(Picked(script[x], "enhance"))
               one == <<x>>
    <3>1. xg \in Seq(Deed) /\ xi \in Seq(Deed) /\ xe \in Seq(Deed) /\ one \in Seq(Deed)
      BY PickedType, ReverseType DEF Deed, BuildInv
    <3>2. Composed(x, <<>>) = (((xg \o <<>>) \o xi) \o xe) \o one
      BY <1>5
    <3>3. Part(script, x) = (xg \o xi) \o (xe \o one)
      BY DEF Part
    <3> HIDE DEF xg, xi, xe, one
    <3> DEFINE both == xg \o xi
    <3>4. xg \o <<>> = xg /\ both \in Seq(Deed)
      BY <3>1
    <3> HIDE DEF both
    <3>5. (both \o xe) \o one = both \o (xe \o one)
      <4>1. both \in Seq(Deed)
        BY <3>4
      <4>2. xe \in Seq(Deed)
        BY <3>1
      <4>3. one \in Seq(Deed)
        BY <3>1
      <4> QED BY <4>1, <4>2, <4>3, ConcatAssociative, SMTT(30)
    <3> QED BY <3>2, <3>3, <3>4, <3>5 DEF both
  <2>2. Closed(DOMAIN tree)
    BY TreeIsClosed
  <2>3. \A x \in DOMAIN tree : Def[x].calls # "none" => Def[x].calls \in DOMAIN script /\ Def[x].calls \in Caps
    BY DEF BuildInv
  <2>4. \A x \in DOMAIN tree : Def[x].calls # "none" => p[Def[x].calls] = q[Def[x].calls]
    BY <2>1, <2>3 DEF BuildInv
  <2> HIDE DEF p, q, rest
  <2>5. Awaits(p)[c] = Awaits(q)[c]
    BY <2>2, <2>4, AwaitsAgree
  <2> QED BY <2>5 DEF Awaited, p, q, rest
<1>7. Promised(c) = ((((g \o v) \o i) \o e) \o own) \o rest
    BY <1>5, <1>6 DEF Promised
<1> DEFINE front == (g \o v) \o i
<1>8. front \in Seq(Deed)
  <2> HIDE DEF g, v, i
  <2> QED BY <1>2
<1>9. Len(g \o v) > 0 /\ Len(v) = 1
    BY <1>2
<1> HIDE DEF g, v, i, e, own, rest, d
<1>10. Len(front) > 0
    BY <1>2, <1>9
<1> HIDE DEF front
<1> DEFINE until == front \o e
           last == own \o rest
<1>11. until \in Seq(Deed) /\ last \in Seq(Deed)
    BY <1>2, <1>8
<1> HIDE DEF until, last
<1>12. (until \o own) \o rest = until \o last
  <2>1. until \in Seq(Deed)
    BY <1>11
  <2>2. own \in Seq(Deed)
    BY <1>2
  <2>3. rest \in Seq(Deed)
    BY <1>2
  <2> QED BY <2>1, <2>2, <2>3, ConcatAssociative DEF last
<1>13. until \o last = front \o (e \o last)
  <2>1. e \in Seq(Deed)
    BY <1>2
  <2>2. last \in Seq(Deed)
    BY <1>11
  <2> QED BY <1>8, <2>1, <2>2, ConcatAssociative DEF until
<1> DEFINE tail == e \o last
<1>14. tail \in Seq(Deed)
    BY <1>2, <1>11
<1> HIDE DEF tail
<1>15. front \o tail \in Seq(Deed) /\ Len(front \o tail) > 0
    BY <1>8, <1>10, <1>14
<1>16. front \o tail # <<>>
  <2>1. Len(<<>>) = 0
    OBVIOUS
  <2> QED BY <1>15, <2>1
<1> QED BY <1>3, <1>7, <1>12, <1>13, <1>15, <1>16 DEF front, tail, until, last

-----------------------------------------------------------------------------
(* A run is what comes up to the first step that rejects.                   *)
LEMMA RunIs ==
    ASSUME NEW T, NEW steps \in Seq(T), steps # <<>>, NEW S, NEW ran, ran = Run(steps, S)
    PROVE  /\ ran # <<>> /\ IsPrefix(ran, steps)
           /\ \A i \in DOMAIN ran : ran[i] \in S => i = Len(ran)
           /\ Last(ran) \notin S => ran = steps
<1> DEFINE n == Len(steps)
           stops == {i \in DOMAIN steps : steps[i] \in S}
<1>1. n \in Nat /\ DOMAIN steps = 1 .. n /\ n > 0
    OBVIOUS
<1>2. CASE stops = {}
  <2>1. ran = steps
    BY <1>2 DEF Run
  <2>2. \A i \in DOMAIN ran : ran[i] \notin S
    BY <1>2, <2>1
  <2>3. IsPrefix(ran, steps)
    BY <1>1, <2>1 DEF IsPrefix
  <2> QED BY <1>1, <2>1, <2>2, <2>3
<1>3. CASE stops # {}
  <2> DEFINE first == CHOOSE i \in stops : \A j \in stops : i <= j
  <2>1. first \in stops /\ \A j \in stops : first <= j
    <3>1. PICK last \in stops : TRUE
      BY <1>3
    <3>2. stops \subseteq 1 .. n /\ last \in 1 .. n
      BY <1>1, <3>1
    <3> HIDE DEF stops
    <3>3. stops \subseteq Nat /\ 0 < last
      BY <3>2
    <3>4. \E j \in stops : 0 < j /\ \A l \in stops : 0 < l => j <= l
      BY <3>1, <3>3, LeastAbove
    <3>5. \E j \in stops : \A l \in stops : j <= l
      BY <3>2, <3>4
    <3> QED BY <3>5
  <2>2. ran = SubSeq(steps, 1, first)
    BY <1>3 DEF Run
  <2>3. first \in 1 .. n /\ steps[first] \in S
    BY <1>1, <2>1
  <2>4. ASSUME NEW i \in 1 .. first, steps[i] \in S PROVE i = first
    <3>1. i \in stops
      BY <1>1, <2>3, <2>4
    <3> QED BY <1>1, <2>1, <2>3, <3>1
  <2> HIDE DEF stops, first
  <2>5. ran \in Seq(T) /\ Len(ran) = first /\ \A i \in 1 .. first : ran[i] = steps[i]
    BY <1>1, <2>2, <2>3
  <2>6. ran # <<>> /\ IsPrefix(ran, steps)
    BY <1>1, <2>2, <2>3, <2>5 DEF IsPrefix
  <2>7. \A i \in DOMAIN ran : ran[i] \in S => i = Len(ran)
    BY <2>3, <2>4, <2>5
  <2>8. Last(ran) \in S
    BY <2>3, <2>5 DEF Last
  <2> QED BY <2>6, <2>7, <2>8
<1> QED BY <1>2, <1>3

-----------------------------------------------------------------------------
(* The headers of a call that Clear speaks of: none, or one.                *)
Header == [name : Token, value : Seq(Token)]
Shows(h) == Len(h.value) >= 2 /\ LowerCase(h.value[1]) = "bearer" /\ h.value[2] \in LiveTokens

(* A header proves a user exactly by a live bearer token.                   *)
LEMMA OneToken ==
    ASSUME NEW h, NEW x, NEW headers, headers = [name \in {x} |-> h.value]
    PROVE  HasToken(headers) <=> Shows(h) /\ x \in {"authorization", "Authorization"}
<1>1. NoToken \notin LiveTokens
    BY GatewayAssumption
<1>2. DOMAIN headers = {x} /\ headers[x] = h.value
    OBVIOUS
<1>3. CASE x \notin {"authorization", "Authorization"}
    BY <1>2, <1>3 DEF HasToken, ExtractBearerToken
<1>4. CASE x \in {"authorization", "Authorization"}
  <2>1. ExtractBearerToken(headers)
          = IF Len(h.value) >= 2 /\ LowerCase(h.value[1]) = "bearer" THEN h.value[2] ELSE NoToken
    BY <1>2, <1>4 DEF ExtractBearerToken
  <2> QED BY <1>1, <1>4, <2>1 DEF HasToken, Shows
<1> QED BY <1>3, <1>4

LEMMA NoneHasToken ==
    /\ ~HasToken(NodeHeaders(<<>>)) /\ ~HasToken(UpgradeHeaders(<<>>)) /\ ~HasToken(GivenHeaders(<<>>))
<1>1. DOMAIN <<>> = {}
    OBVIOUS
<1>2. DOMAIN NodeHeaders(<<>>) = {} /\ DOMAIN UpgradeHeaders(<<>>) = {} /\ DOMAIN GivenHeaders(<<>>) = {}
    BY <1>1 DEF NodeHeaders, UpgradeHeaders, GivenHeaders, Names
<1> QED BY <1>2 DEF HasToken, ExtractBearerToken

LEMMA OneHeader ==
    ASSUME NEW h \in Header
    PROVE  /\ NodeHeaders(<<h>>) = [name \in {LowerCase(h.name)} |-> h.value]
           /\ UpgradeHeaders(<<h>>) = [name \in {LowerCase(h.name)} |-> h.value]
           /\ GivenHeaders(<<h>>) = [name \in {h.name} |-> h.value]
<1> DEFINE one == <<h>>
<1>1. one \in Seq(Header) /\ DOMAIN one = {1} /\ one[1] = h /\ Head(one) = h /\ Last(one) = h
    BY DEF Last
<1>2. ToSet(one) = {h}
    BY <1>1 DEF ToSet
<1> HIDE DEF one
<1>3. ASSUME NEW S, h \in S PROVE Only(one, S) = one
  <2>1. ToSet(one) \subseteq S
    BY <1>2, <1>3
  <2> QED BY <1>1, <2>1, OnlyType
<1>4. Names(one) = {LowerCase(h.name)} /\ {one[i].name : i \in DOMAIN one} = {h.name}
    BY <1>1 DEF Names
<1>5. Named(one, LowerCase(h.name)) = one
    BY <1>2, <1>3 DEF Named
<1>6. Only(one, {k \in ToSet(one) : k.name = h.name}) = one
    BY <1>2, <1>3
<1>7. NodeHeaders(one) = [name \in {LowerCase(h.name)} |-> h.value]
  <2>1. \A name \in {LowerCase(h.name)} : Head(Named(one, name)).value = h.value
    BY <1>1, <1>5
  <2> QED BY <1>4, <2>1 DEF NodeHeaders
<1>8. UpgradeHeaders(one) = [name \in {LowerCase(h.name)} |-> h.value]
  <2>1. \A name \in {LowerCase(h.name)} : Last(Named(one, name)).value = h.value
    BY <1>1, <1>5
  <2> QED BY <1>4, <2>1 DEF UpgradeHeaders
<1>9. GivenHeaders(one) = [name \in {h.name} |-> h.value]
  <2>1. \A name \in {h.name} : Last(Only(one, {k \in ToSet(one) : k.name = name})).value = h.value
    BY <1>1, <1>6
  <2> QED BY <1>4, <2>1 DEF GivenHeaders
<1> QED BY <1>7, <1>8, <1>9 DEF one

(* A user is one of the builder or of plugin auth, by a token.              *)
LEMMA UserHasToken ==
    ASSUME NEW builder, NEW plugins \in Seq(Token), NEW headers
    PROVE  /\ WrapContext(builder, plugins, headers).user
                 <=> HasToken(headers) /\ (builder = "jwt" \/ "auth" \in ToSet(plugins))
           /\ WrapContext(builder, plugins, headers) \in [user : BOOLEAN]
<1> DEFINE n == Len(plugins)
           Extended(f, i) == IF i = 0 THEN BuildContext(builder, headers) ELSE Extend(plugins[i], f[i - 1], headers)
           Solves(f) == f = [i \in 0 .. n |-> Extended(f, i)]
           ctx == CHOOSE f : Solves(f)
           first(i) == \E j \in 1 .. i : plugins[j] = "auth"
           known == [i \in 0 .. n |-> [user |-> (builder = "jwt" \/ first(i)) /\ HasToken(headers)]]
<1>1. n \in Nat /\ HasToken(headers) \in BOOLEAN
    BY DEF HasToken
<1>2. known[0] = Extended(known, 0)
    BY <1>1 DEF BuildContext
<1>3. ASSUME NEW i \in 1 .. n PROVE known[i] = Extended(known, i)
  <2>1. i - 1 \in 0 .. n /\ i # 0 /\ i \in 0 .. n
    BY <1>1
  <2>2. known[i - 1] = [user |-> (builder = "jwt" \/ first(i - 1)) /\ HasToken(headers)]
    BY <2>1
  <2>3. first(i) <=> first(i - 1) \/ plugins[i] = "auth"
    BY <1>1
  <2> QED BY <1>1, <2>1, <2>2, <2>3 DEF Extend
<1>4. Solves(known)
  <2> HIDE DEF known
  <2>1. \A i \in 0 .. n : known[i] = Extended(known, i)
    BY <1>1, <1>2, <1>3
  <2>2. known = [i \in 0 .. n |-> known[i]]
    BY DEF known
  <2> QED BY <2>1, <2>2
<1>5. Solves(ctx)
    BY <1>4
<1>6. WrapContext(builder, plugins, headers) = ctx[n]
    BY DEF WrapContext
<1> DEFINE Good == {i \in Nat : i <= n => ctx[i] = known[i]}
<1> HIDE DEF ctx, known
<1>7. 0 \in Good
    BY <1>1, <1>2, <1>5
<1>8. ASSUME NEW i \in Nat, i \in Good PROVE i + 1 \in Good
  <2> SUFFICES ASSUME i + 1 <= n PROVE ctx[i + 1] = known[i + 1]
    OBVIOUS
  <2>1. i + 1 \in 0 .. n /\ i + 1 \in 1 .. n /\ i + 1 # 0 /\ (i + 1) - 1 = i /\ i <= n
    BY <1>1
  <2>2. ctx[i + 1] = Extend(plugins[i + 1], ctx[i], headers)
    BY <1>5, <2>1
  <2>3. known[i + 1] = Extend(plugins[i + 1], known[i], headers)
    BY <1>3, <2>1
  <2> QED BY <1>8, <2>1, <2>2, <2>3
<1> HIDE DEF Good
<1>9. ctx[n] = known[n]
  <2>1. n \in Good
    BY <1>1, <1>7, <1>8, NatSetInduction
  <2> QED BY <1>1, <2>1 DEF Good
<1>10. known[n] = [user |-> (builder = "jwt" \/ first(n)) /\ HasToken(headers)]
    BY <1>1 DEF known
<1>11. first(n) <=> "auth" \in ToSet(plugins)
    BY <1>1 DEF ToSet
<1> HIDE DEF first
<1> DEFINE user == (builder = "jwt" \/ first(n)) /\ HasToken(headers)
<1>12. WrapContext(builder, plugins, headers) = [user |-> user]
    BY <1>6, <1>9, <1>10
<1>13. user <=> HasToken(headers) /\ (builder = "jwt" \/ "auth" \in ToSet(plugins))
    BY <1>11
<1>14. user \in BOOLEAN
    BY <1>1
<1> HIDE DEF user
<1> QED BY <1>12, <1>13, <1>14

-----------------------------------------------------------------------------
(* An answer of a capability holds a run that stopped at least where        *)
(* `rejected` says; one that ended at such a step is an error.              *)
RanTo(answer, S) ==
    answer.by \in DOMAIN registry /\ answer.ran = Run(Pipeline(registry[answer.by]), S)
IsError(status) == status \in Nat /\ status >= 300

RanFor(answer, rejected) ==
    answer.by # "none" =>
        \E S : /\ rejected \subseteq S /\ RanTo(answer, S)
               /\ Last(answer.ran) \in S => IsError(answer.status)

\* As the engine answers, before a transport makes something of it.
RanFirst(answer, rejected) ==
    answer.by # "none" =>
        \E S : /\ rejected \subseteq S /\ RanTo(answer, S)
               /\ Last(answer.ran) \in S => IsError(answer.status) /\ answer.status # 204 /\ answer.data = "none"

(* The engine.                                                              *)
LEMMA InvokeRuns ==
    ASSUME NEW c, NEW input, NEW ctx, NEW rejecting
    PROVE  RanFirst(Invoke(c, input, ctx, rejecting), rejecting \union RejectedBy(ctx))
<1> DEFINE answer == Invoke(c, input, ctx, rejecting)
           S == Stops(c, input, ctx, rejecting)
           ran == Run(Pipeline(registry[c]), S)
           err == Thrown(Last(ran))
<1>1. CASE c \notin DOMAIN registry
  <2>1. answer.by = "none"
    BY <1>1 DEF Invoke, Refusal, Failed, NoAnswer
  <2> QED BY <2>1 DEF RanFirst
<1>2. CASE c \in DOMAIN registry
  <2>1. answer = Response(c, input, ran, IF Last(ran) \in S THEN err ELSE NoError)
    BY <1>2 DEF Invoke, Pass, Ended
  <2>2. rejecting \union RejectedBy(ctx) \subseteq S
    BY DEF Stops
  <2>3. IsError(err.status) /\ err.status # 204 /\ err.status # NoError.status
    BY DEF IsError, Thrown, DefaultErrors, DefineError, Unexpected, NoError
  <2> HIDE DEF S, ran, err
  <2>4. answer.by = c /\ answer.ran = ran
    BY <2>1 DEF Response, NoAnswer
  <2>5. Last(ran) \in S => IsError(answer.status) /\ answer.status # 204 /\ answer.data = "none"
    <3> SUFFICES ASSUME Last(ran) \in S PROVE answer.status = err.status /\ answer.data = "none"
      BY <2>3
    <3>1. answer = Response(c, input, ran, err) /\ err # NoError
      BY <2>1, <2>3
    <3> QED BY <3>1 DEF Response, NoAnswer
  <2>6. RanTo(answer, S)
    BY <1>2, <2>4 DEF RanTo, ran
  <2> HIDE DEF answer
  <2>7. RanFirst(answer, rejecting \union RejectedBy(ctx))
    BY <2>2, <2>4, <2>5, <2>6 DEF RanFirst
  <2> QED BY <2>7 DEF answer
<1> QED BY <1>1, <1>2

(* What the transports make of an answer leaves its run alone.              *)
LEMMA RanLater ==
    ASSUME NEW answer, DOMAIN answer = DOMAIN NoAnswer, NEW rejected, RanFirst(answer, rejected)
    PROVE  /\ RanFor(answer, rejected)
           /\ \A cap : RanFor(Respond(cap, answer), rejected)
           /\ \A cap : RanFor(FieldValue(cap, answer), rejected)
           /\ RanFor(ErrorResult(answer), rejected)
           /\ \A cap : RanFor(ValidateOutput(cap, answer), rejected)
<1> USE DEF RanTo
<1>1. /\ "data" \in DOMAIN answer /\ "status" \in DOMAIN answer
      /\ DOMAIN answer = {"status", "by", "ran", "seen", "records", "data", "match", "headers"}
    BY DEF NoAnswer
<1>2. RanFor(answer, rejected)
    BY DEF RanFirst, RanFor
<1>3. ASSUME NEW later, later.by = answer.by, later.ran = answer.ran,
             answer.data = "none" /\ IsError(answer.status) /\ answer.status # 204 => IsError(later.status)
      PROVE  RanFor(later, rejected)
    BY <1>3 DEF RanFirst, RanFor
<1>4. ASSUME NEW cap PROVE RanFor(Respond(cap, answer), rejected)
  <2> DEFINE later == Respond(cap, answer)
  <2>1. later.by = answer.by /\ later.ran = answer.ran
    BY <1>1 DEF Respond
  <2>2. answer.data = "none" /\ IsError(answer.status) => IsError(later.status)
    BY <1>1 DEF Respond
  <2> HIDE DEF later
  <2> QED BY <1>3, <2>1, <2>2 DEF later
<1>5. ASSUME NEW cap PROVE RanFor(FieldValue(cap, answer), rejected)
  <2> DEFINE later == FieldValue(cap, answer)
  <2>1. later.by = answer.by /\ later.ran = answer.ran /\ later.status = answer.status
    BY <1>1 DEF FieldValue
  <2> HIDE DEF later
  <2> QED BY <1>3, <2>1 DEF later
<1>6. RanFor(ErrorResult(answer), rejected)
  <2> DEFINE later == ErrorResult(answer)
  <2>1. later.by = answer.by /\ later.ran = answer.ran /\ later.status = answer.status
    BY <1>1 DEF ErrorResult
  <2> HIDE DEF later
  <2> QED BY <1>3, <2>1 DEF later
<1>7. ASSUME NEW cap PROVE RanFor(ValidateOutput(cap, answer), rejected)
  <2> DEFINE later == ValidateOutput(cap, answer)
  <2>1. later.by = answer.by /\ later.ran = answer.ran
    BY <1>1 DEF ValidateOutput
  <2>2. later.status = answer.status \/ later.status = 500
    BY <1>1 DEF ValidateOutput, Unexpected
  <2> HIDE DEF later
  <2>3. IsError(answer.status) => IsError(later.status)
    BY <2>2 DEF IsError
  <2> QED BY <1>3, <2>1, <2>3 DEF later
<1> QED BY <1>2, <1>4, <1>5, <1>6, <1>7

(* An answer of no capability claims nothing.                               *)
LEMMA FailedRanNothing ==
    ASSUME NEW status, NEW rejected
    PROVE  RanFor(Failed(status), rejected) /\ RanFor([Failed(status) EXCEPT !.data = "page"], rejected)
BY DEF RanFor, Failed, NoAnswer

(* Over every surface.                                                      *)
LEMMA RestRuns ==
    ASSUME NEW request, NEW origin, NEW headers, NEW rejecting
    PROVE  LET rejected == rejecting \union RejectedBy(Context(NodeHeaders(headers)))
               answer == Rest(request, origin, headers, rejecting)
           IN  RanFor(answer, rejected) /\ RanFor(ReadAsJson(answer), rejected)
<1> DEFINE ctx == Context(NodeHeaders(headers))
           rejected == rejecting \union RejectedBy(ctx)
           match == Match(routes, request.method, request.path)
           body == ReadBody(request, match.cap, options.multipart)
           plain == Dispatch(request, match, headers, rejecting)
           answer == Rest(request, origin, headers, rejecting)
<1>1. ASSUME NEW cap, NEW input PROVE RanFor(Respond(cap, Invoke(cap, input, ctx, rejecting)), rejected)
  <2> DEFINE first == Invoke(cap, input, ctx, rejecting)
  <2>1. RanFirst(first, rejected) /\ DOMAIN first = DOMAIN NoAnswer
    BY InvokeRuns, AnswersHaveFields
  <2> HIDE DEF first, rejected
  <2>2. RanFor(Respond(cap, first), rejected)
    BY <2>1, RanLater
  <2> QED BY <2>2 DEF first
<1>2. RanFor(Finish(request, match, body, ctx, rejecting), rejected)
  <2> DEFINE done == Finish(request, match, body, ctx, rejecting)
  <2> HIDE DEF body, match, ctx, rejected
  <2>1. done = Failed(body.status)
        \/ \E cap, input : done = Respond(cap, Invoke(cap, input, ctx, rejecting))
    BY DEF Finish
  <2> HIDE DEF done
  <2>2. RanFor(done, rejected)
    BY <1>1, <2>1, FailedRanNothing
  <2> QED BY <2>2 DEF done
<1>3. RanFor(plain, rejected)
  <2>1. plain = Finish(request, match, body, ctx, rejecting) \/ \E status : plain = Failed(status)
    BY DEF Dispatch
  <2> HIDE DEF rejected, plain, match, body, ctx
  <2> QED BY <1>2, <2>1, FailedRanNothing
<1>4. DOMAIN plain = DOMAIN NoAnswer
    BY AnswersHaveFields
<1>5. answer = [plain EXCEPT !.match = match, !.headers = SetAtOnce(origin) \union Written(plain.status)]
    BY DEF Rest, Handled, Sent
<1> HIDE DEF plain, match, rejected
<1>6. DOMAIN plain = {"status", "by", "ran", "seen", "records", "data", "match", "headers"}
    BY <1>4 DEF NoAnswer
<1>7. /\ DOMAIN answer = DOMAIN plain
      /\ answer.by = plain.by /\ answer.ran = plain.ran /\ answer.status = plain.status
    BY <1>5, <1>6
<1> HIDE DEF answer
<1>8. /\ ReadAsJson(answer).by = plain.by /\ ReadAsJson(answer).ran = plain.ran
      /\ ReadAsJson(answer).status = plain.status
    BY <1>6, <1>7 DEF ReadAsJson
<1>9. RanFor(answer, rejected)
    BY <1>3, <1>7 DEF RanFor, RanTo
<1>10. RanFor(ReadAsJson(answer), rejected)
    BY <1>3, <1>8 DEF RanFor, RanTo
<1> QED BY <1>9, <1>10 DEF answer, rejected

LEMMA OthersRun ==
    ASSUME NEW c, NEW args, NEW headers, NEW rejecting, NEW path
    PROVE  LET node == rejecting \union RejectedBy(Context(NodeHeaders(headers)))
               upgrade == rejecting \union RejectedBy(Context(UpgradeHeaders(headers)))
               given == rejecting \union RejectedBy(BuildContext(options.builder, GivenHeaders(headers)))
           IN  /\ RanFor(GraphQLHandler(path, GraphQL(c, args, headers, rejecting)), node)
               /\ RanFor(McpHandler(path, Mcp(c, args, headers, rejecting)), node)
               /\ RanFor(Ws(c, args, headers, rejecting), upgrade)
               /\ RanFor(Direct(c, args, headers, rejecting), given)
<1> DEFINE ctx == Context(NodeHeaders(headers))
           node == rejecting \union RejectedBy(ctx)
<1>1. ASSUME NEW cap, NEW input, NEW context
      PROVE  LET first == Invoke(cap, input, context, rejecting)
                 rejected == rejecting \union RejectedBy(context)
             IN  /\ RanFor(first, rejected) /\ RanFor(ErrorResult(first), rejected)
                 /\ \A x : RanFor(FieldValue(x, first), rejected) /\ RanFor(ValidateOutput(x, first), rejected)
  <2> DEFINE first == Invoke(cap, input, context, rejecting)
             rejected == rejecting \union RejectedBy(context)
  <2>1. RanFirst(first, rejected) /\ DOMAIN first = DOMAIN NoAnswer
    BY InvokeRuns, AnswersHaveFields
  <2> HIDE DEF first, rejected
  <2>2. /\ RanFor(first, rejected) /\ RanFor(ErrorResult(first), rejected)
        /\ \A x : RanFor(FieldValue(x, first), rejected) /\ RanFor(ValidateOutput(x, first), rejected)
    BY <2>1, RanLater
  <2> QED BY <2>2 DEF first, rejected
<1>2. RanFor(GraphQL(c, args, headers, rejecting), node)
  <2>1. ASSUME NEW field PROVE RanFor(ResolveField(field, args, ctx, rejecting), node)
    <3> HIDE DEF ctx
    <3> QED BY <1>1, FailedRanNothing DEF ResolveField
  <2> QED BY <2>1, FailedRanNothing DEF GraphQL
<1>3. RanFor(Mcp(c, args, headers, rejecting), node)
  <2> DEFINE refused == Refusal(DefaultErrors.NotFound)
  <2>1. RanFor(ErrorResult(refused), node)
    BY DEF RanFor, ErrorResult, Refusal, Failed, NoAnswer
  <2>2. CallTool(c, args, ctx, rejecting) = refused
        \/ \E d : CallTool(c, args, ctx, rejecting) = Invoke(d, args, ctx, rejecting)
    BY DEF CallTool
  <2> HIDE DEF refused, ctx
  <2> QED BY <1>1, <2>1, <2>2 DEF Mcp, ctx
<1>4. RanFor(Ws(c, args, headers, rejecting), rejecting \union RejectedBy(Context(UpgradeHeaders(headers))))
    BY <1>1 DEF Ws
<1>5. RanFor(Direct(c, args, headers, rejecting),
             rejecting \union RejectedBy(BuildContext(options.builder, GivenHeaders(headers))))
    BY <1>1 DEF Direct
<1>6. RanFor(GraphQLHandler(path, GraphQL(c, args, headers, rejecting)), node)
  <2> HIDE DEF node
  <2> QED BY <1>2, FailedRanNothing DEF GraphQLHandler
<1>7. RanFor(McpHandler(path, Mcp(c, args, headers, rejecting)), node)
  <2> HIDE DEF node
  <2> QED BY <1>3, FailedRanNothing DEF McpHandler
<1> QED BY <1>4, <1>5, <1>6, <1>7

-----------------------------------------------------------------------------
(* IsUser and Rejected, of a call that is yet to come.                      *)
UserOf(surface, headers) ==
    /\ surface # "client" /\ headers # <<>>
    /\ LET header == Head(headers)
       IN  /\ options.builder = "jwt" \/ ("auth" \in ToSet(options.plugins) /\ surface # "direct")
           /\ Len(header.value) >= 2 /\ LowerCase(header.value[1]) = "bearer" /\ header.value[2] \in LiveTokens
           /\ IF surface = "direct" THEN header.name \in {"authorization", "Authorization"}
              ELSE LowerCase(header.name) = "authorization"
RejectedOf(surface, way) ==
    way.rejecting \union IF UserOf(surface, way.headers) THEN {} ELSE {"mustBeAuthenticated"}

(* No lower case is a capital.                                              *)
LEMMA LowerIsLower == \A word : LowerCase(word) # "Authorization"
BY GatewayAssumption DEF LowerCase

(* A surface takes a caller for a user exactly if a live token is shown.    *)
LEMMA UserIsUser ==
    ASSUME options \in Options, NEW headers \in Seq(Header), Len(headers) <= 1
    PROVE  /\ \A surface : surface # "client" /\ surface # "direct" =>
                 /\ Context(NodeHeaders(headers)).user <=> UserOf(surface, headers)
                 /\ Context(UpgradeHeaders(headers)).user <=> UserOf(surface, headers)
           /\ BuildContext(options.builder, GivenHeaders(headers)).user <=> UserOf("direct", headers)
           /\ ~Context(NodeHeaders(<<>>)).user
<1> DEFINE Known == options.builder = "jwt" \/ "auth" \in ToSet(options.plugins)
<1>1. options.plugins \in Seq(Token)
    BY GatewayAssumption
<1>2. \A h : Context(h).user <=> HasToken(h) /\ Known
    BY <1>1, UserHasToken DEF Context
<1>3. \A h : BuildContext(options.builder, h).user <=> HasToken(h) /\ options.builder = "jwt"
    BY DEF BuildContext, HasToken
<1> HIDE DEF Known
<1>4. CASE headers = <<>>
    BY <1>2, <1>3, <1>4, NoneHasToken DEF UserOf
<1>5. CASE headers # <<>>
  <2> DEFINE h == headers[1]
             asked == {"authorization", "Authorization"}
  <2>1. headers = <<h>> /\ h \in Header /\ Head(headers) = h
    <3>1. Len(headers) = 1
      <4>1. Len(headers) \in Nat \ {0}
        BY <1>5, EmptySeq
      <4>2. Len(headers) \in Nat /\ Len(headers) > 0
        BY <4>1
      <4> DEFINE n == Len(headers)
      <4>3. n <= 1 /\ n \in Nat /\ n > 0
        BY <4>2
      <4> HIDE DEF n
      <4>4. n = 1
        BY <4>3
      <4> QED BY <4>4 DEF n
    <3>2. h \in Header
      BY <3>1, ElementOfSeq
    <3>3. headers = <<h>>
      BY <3>1
    <3> QED BY <1>5, <3>2, <3>3
  <2> HIDE DEF h
  <2>2. LowerCase(h.name) \in asked <=> LowerCase(h.name) = "authorization"
    BY LowerIsLower
  <2>3. /\ HasToken(NodeHeaders(headers)) <=> Shows(h) /\ LowerCase(h.name) \in asked
        /\ HasToken(UpgradeHeaders(headers)) <=> Shows(h) /\ LowerCase(h.name) \in asked
    BY <2>1, OneHeader, OneToken
  <2>4. HasToken(GivenHeaders(headers)) <=> Shows(h) /\ h.name \in asked
    BY <2>1, OneHeader, OneToken
  <2> HIDE DEF asked
  <2>5. ASSUME NEW surface, surface # "client", surface # "direct"
        PROVE  UserOf(surface, headers) <=> Known /\ Shows(h) /\ LowerCase(h.name) = "authorization"
    BY <1>5, <2>1, <2>5 DEF UserOf, Shows, Known
  <2>6. UserOf("direct", headers) <=> options.builder = "jwt" /\ Shows(h) /\ h.name \in asked
    BY <1>5, <2>1 DEF UserOf, Shows, asked
  <2> QED BY <1>2, <1>3, <2>2, <2>3, <2>4, <2>5, <2>6, NoneHasToken
<1> QED BY <1>4, <1>5

(* The headers that are tried with a call.                                  *)
LEMMA WaysTyped ==
    ASSUME NEW c, NEW args, NEW way \in Ways(c, args)
    PROVE  way.headers \in Seq(Header)
<1>1. <<>> \in Seq(Header) /\ Headers \union Credentials \subseteq Seq(Header)
  <2>1. Headers \union Credentials \subseteq Seq(Header)
    BY GatewayAssumption DEF Header
  <2> QED BY <2>1
<1>2. Plain.headers = <<>> /\ DOMAIN Plain = {"headers", "rejecting", "path"}
    BY DEF Plain
<1>3. ASSUME NEW w \in Rejections(c) PROVE w.headers = <<>> /\ "headers" \in DOMAIN w
    BY <1>2 DEF Rejections
<1>4. ASSUME NEW H, NEW W, \A w \in W : "headers" \in DOMAIN w, NEW w \in With(H, W) PROVE w.headers \in H
    BY <1>4 DEF With
<1>5. ASSUME NEW W, W = Rejections(c) \/ W = {} \/ W = {Plain} PROVE \A w \in W : "headers" \in DOMAIN w
    BY <1>2, <1>3, <1>5
<1>6. \A path : [Plain EXCEPT !.path = path].headers = <<>>
    BY <1>2
<1>7. \/ way \in Rejections(c) \/ way = Plain \/ \E path : way = [Plain EXCEPT !.path = path]
      \/ way \in With(Headers, {Plain}) \/ way \in With(Credentials, Rejections(c)) \/ way \in With(Credentials, {})
    BY DEF Ways
<1> QED BY <1>1, <1>2, <1>3, <1>4, <1>5, <1>6, <1>7

-----------------------------------------------------------------------------
(* What is chained and how it was built, what the server compiled of it,    *)
(* and the run of the latest call.                                          *)
Ran == Calling /\ Clear => RanFor(call.answer, Rejected)

PipelineInv ==
    /\ GatewayInv /\ BuildInv
    /\ phase # "declaring" => registry = CompileRegistry(tree)
    /\ Ran

(* A step that calls, given the run of what it answers.                     *)
LEMMA CalledRuns ==
    ASSUME NEW surface, NEW c, NEW args, NEW way, NEW answer, Called(surface, c, args, way, answer), NEW S,
           Len(way.headers) <= 1 => RanFor(answer, S) /\ RejectedOf(surface, way) \subseteq S
    PROVE  Ran'
<1>1. /\ call' = [surface |-> surface, cap |-> c, args |-> args, way |-> way, answer |-> answer]
      /\ options' = options /\ registry' = registry
    BY DEF Called
<1>2. call'.surface = surface /\ call'.way = way /\ call'.answer = answer
    BY <1>1
<1>3. IsUser' <=> UserOf(surface, way.headers)
    BY <1>1, <1>2 DEF IsUser, UserOf
<1>4. Rejected' = RejectedOf(surface, way)
    BY <1>2, <1>3 DEF Rejected, RejectedOf
<1>5. ASSUME NEW R, R \subseteq S, RanFor(answer, S) PROVE RanFor(answer, R)'
    BY <1>1, <1>5 DEF RanFor, RanTo
<1>6. ASSUME Len(way.headers) <= 1 PROVE RanFor(call.answer, Rejected)'
    BY <1>2, <1>4, <1>5, <1>6 DEF RanFor, RanTo
<1> QED BY <1>2, <1>6 DEF Ran, Clear

(* The rejections of a context that takes only users for users.             *)
LEMMA ContextRejects ==
    ASSUME NEW surface, NEW way, NEW ctx, ctx.user => UserOf(surface, way.headers)
    PROVE  RejectedOf(surface, way) \subseteq way.rejecting \union RejectedBy(ctx)
BY DEF RejectedOf, RejectedBy

(* Each surface, with the context that it builds from its headers.          *)
LEMMA SurfacesRun ==
    ASSUME options \in Options, NEW c, NEW args, NEW way, way.headers \in Seq(Header),
           \/ CallClient(c, args, way) \/ CallOpenApi(c, args, way)
           \/ CallGraphQL(c, args, way) \/ CallMcp(c, args, way)
           \/ CallWs(c, args, way) \/ CallDirect(c, args, way)
    PROVE  Ran'
<1> DEFINE node == Context(NodeHeaders(way.headers))
           upgrade == Context(UpgradeHeaders(way.headers))
           given == BuildContext(options.builder, GivenHeaders(way.headers))
<1>1. ASSUME Len(way.headers) <= 1, NEW surface \in {"openapi", "graphql", "mcp", "ws"}
      PROVE  /\ RejectedOf(surface, way) \subseteq way.rejecting \union RejectedBy(node)
             /\ RejectedOf(surface, way) \subseteq way.rejecting \union RejectedBy(upgrade)
  <2>1. (node.user => UserOf(surface, way.headers)) /\ (upgrade.user => UserOf(surface, way.headers))
    BY <1>1, UserIsUser
  <2> HIDE DEF node, upgrade
  <2> QED BY <2>1, ContextRejects
<1>2. CASE CallClient(c, args, way)
  <2> DEFINE ctx == Context(NodeHeaders(<<>>))
             S == way.rejecting \union RejectedBy(ctx)
             answer == Client(c, args, way.rejecting)
  <2>1. RanFor(answer, S)
    BY RestRuns DEF Client
  <2>2. ~ctx.user
    <3>1. <<>> \in Seq(Header) /\ Len(<<>>) <= 1
      OBVIOUS
    <3> QED BY <3>1, UserIsUser
  <2>3. RejectedOf("client", way) \subseteq S
    BY <2>2 DEF RejectedOf, RejectedBy
  <2>4. Called("client", c, args, way, answer)
    BY <1>2 DEF CallClient
  <2> HIDE DEF answer, S
  <2> QED BY <2>1, <2>3, <2>4, CalledRuns
<1>3. CASE CallOpenApi(c, args, way)
  <2> DEFINE S == way.rejecting \union RejectedBy(node)
             answer == OpenApi(c, args, way.headers, way.rejecting)
  <2>1. RanFor(answer, S)
    BY RestRuns DEF OpenApi
  <2>2. Len(way.headers) <= 1 => RejectedOf("openapi", way) \subseteq S
    BY <1>1
  <2>3. Called("openapi", c, args, way, answer)
    BY <1>3 DEF CallOpenApi
  <2> HIDE DEF answer, S
  <2> QED BY <2>1, <2>2, <2>3, CalledRuns
<1>4. CASE CallGraphQL(c, args, way)
  <2> DEFINE S == way.rejecting \union RejectedBy(node)
             answer == GraphQLHandler(way.path, GraphQL(c, args, way.headers, way.rejecting))
  <2>1. RanFor(answer, S)
    BY OthersRun
  <2>2. Len(way.headers) <= 1 => RejectedOf("graphql", way) \subseteq S
    BY <1>1
  <2>3. Called("graphql", c, args, way, answer)
    BY <1>4 DEF CallGraphQL
  <2> HIDE DEF answer, S
  <2> QED BY <2>1, <2>2, <2>3, CalledRuns
<1>5. CASE CallMcp(c, args, way)
  <2> DEFINE S == way.rejecting \union RejectedBy(node)
             answer == McpHandler(way.path, Mcp(c, args, way.headers, way.rejecting))
  <2>1. RanFor(answer, S)
    BY OthersRun
  <2>2. Len(way.headers) <= 1 => RejectedOf("mcp", way) \subseteq S
    BY <1>1
  <2>3. Called("mcp", c, args, way, answer)
    BY <1>5 DEF CallMcp
  <2> HIDE DEF answer, S
  <2> QED BY <2>1, <2>2, <2>3, CalledRuns
<1>6. CASE CallWs(c, args, way)
  <2> DEFINE S == way.rejecting \union RejectedBy(upgrade)
             answer == Ws(c, args, way.headers, way.rejecting)
  <2>1. RanFor(answer, S)
    BY OthersRun
  <2>2. Len(way.headers) <= 1 => RejectedOf("ws", way) \subseteq S
    BY <1>1
  <2>3. Called("ws", c, args, way, answer)
    BY <1>6 DEF CallWs
  <2> HIDE DEF answer, S
  <2> QED BY <2>1, <2>2, <2>3, CalledRuns
<1>7. CASE CallDirect(c, args, way)
  <2> DEFINE S == way.rejecting \union RejectedBy(given)
             answer == Direct(c, args, way.headers, way.rejecting)
  <2>1. RanFor(answer, S)
    BY OthersRun
  <2>2. ASSUME Len(way.headers) <= 1 PROVE RejectedOf("direct", way) \subseteq S
    <3>1. given.user => UserOf("direct", way.headers)
      BY <2>2, UserIsUser
    <3> HIDE DEF given
    <3> QED BY <3>1, ContextRejects
  <2>3. Called("direct", c, args, way, answer)
    BY <1>7 DEF CallDirect
  <2> HIDE DEF answer, S
  <2> QED BY <2>1, <2>2, <2>3, CalledRuns
<1> QED BY <1>2, <1>3, <1>4, <1>5, <1>6, <1>7

LEMMA RequestRuns ==
    ASSUME options \in Options, NEW request \in Requests, HandleRequest(request)
    PROVE  Ran'
<1> DEFINE node == Context(NodeHeaders(request.headers))
           way == [Plain EXCEPT !.headers = request.headers]
           S == RejectNothing \union RejectedBy(node)
           answer == Rest(request, request.origin, request.headers, RejectNothing)
<1>1. RanFor(answer, S)
    BY RestRuns
<1>2. way.headers = request.headers /\ way.rejecting = RejectNothing
    BY DEF Plain
<1>3. ASSUME Len(way.headers) <= 1 PROVE RejectedOf("http", way) \subseteq S
  <2>1. request.headers \in Seq(Header)
    BY GatewayAssumption DEF Header
  <2>2. node.user => UserOf("http", way.headers)
    BY <1>2, <1>3, <2>1, UserIsUser
  <2> HIDE DEF node
  <2> QED BY <1>2, <2>2 DEF RejectedOf, RejectedBy
<1>4. Called("http", "none", request, way, answer)
    BY DEF HandleRequest
<1> HIDE DEF answer, S, way
<1> QED BY <1>1, <1>3, <1>4, CalledRuns

(* The invariant holds at first and is kept by every step.                  *)
LEMMA PipelineInit == Init => PipelineInv
<1> SUFFICES ASSUME Init PROVE PipelineInv
    OBVIOUS
<1>1. GatewayInv
    BY GatewayInit
<1>2. BuildInv
    BY DEF Init, BuildInv
<1>3. Ran
    BY DEF Init, Ran, Calling, NoCall
<1> QED BY <1>1, <1>2, <1>3 DEF PipelineInv, Init

LEMMA PipelineNext == PipelineInv /\ [Next]_vars => PipelineInv'
<1> SUFFICES ASSUME PipelineInv, [Next]_vars PROVE PipelineInv'
    OBVIOUS
<1>1. GatewayInv'
    BY GatewayNext DEF PipelineInv
<1> DEFINE Compiled == phase # "declaring" => registry = CompileRegistry(tree)
<1>2. ASSUME UNCHANGED Served PROVE BuildInv' /\ Compiled'
  <2>1. phase' = phase /\ tree' = tree /\ script' = script /\ registry' = registry
    BY <1>2 DEF Served
  <2>2. BuildInv /\ Compiled
    BY DEF PipelineInv
  <2>3. BuildInv'
    BY <2>1, <2>2 DEF BuildInv, Core, Awaited
  <2> QED BY <2>1, <2>2, <2>3
<1>3. ASSUME call' = NoCall PROVE Ran'
    BY <1>3 DEF Ran, Calling, NoCall
<1>4. ASSUME phase = "declaring", phase' = "declaring", call' = call PROVE Compiled' /\ Ran'
  <2>1. call' = NoCall
    BY <1>4 DEF PipelineInv, GatewayInv
  <2> QED BY <1>3, <1>4, <2>1
<1>5. ASSUME NEW c \in Caps, NEW guards, Declare(c, guards),
             guards = <<>> \/ \E op \in Ops : op.chain = "guard" /\ guards = <<op.step>>
      PROVE  BuildInv' /\ Compiled' /\ Ran'
  <2>1. BuildInv'
    BY <1>5, DeclareBuilds DEF PipelineInv
  <2>2. phase = "declaring" /\ phase' = "declaring" /\ call' = call
    BY <1>5 DEF Declare
  <2> QED BY <1>4, <2>1, <2>2
<1>6. ASSUME NEW c, NEW op \in Ops, ChainOn(c, op) PROVE BuildInv' /\ Compiled' /\ Ran'
  <2>1. BuildInv'
    BY <1>6, ChainOnBuilds DEF PipelineInv
  <2>2. phase = "declaring" /\ phase' = "declaring" /\ call' = call
    BY <1>6 DEF ChainOn
  <2> QED BY <1>4, <2>1, <2>2
<1>7. ASSUME NEW o, Mount(o) PROVE BuildInv' /\ Compiled' /\ Ran'
  <2>1. tree' = tree /\ script' = script /\ registry' = CompileRegistry(tree) /\ call' = NoCall
    BY <1>7 DEF Mount, PipelineInv, GatewayInv
  <2>2. BuildInv'
    BY <2>1 DEF PipelineInv, BuildInv, Core, Awaited
  <2> QED BY <1>3, <2>1, <2>2
<1>8. ASSUME NEW surface, NEW c, NEW args, NEW way, NEW answer, Called(surface, c, args, way, answer)
      PROVE  UNCHANGED Served
    BY <1>8 DEF Called, Served
<1>9. ASSUME Ready, NEW c, NEW args, NEW way, way.headers \in Seq(Header),
             \/ CallClient(c, args, way) \/ CallOpenApi(c, args, way)
             \/ CallGraphQL(c, args, way) \/ CallMcp(c, args, way)
             \/ CallWs(c, args, way) \/ CallDirect(c, args, way)
      PROVE  BuildInv' /\ Compiled' /\ Ran'
  <2>1. options \in Options
    BY <1>9, UpIsTable DEF Ready, PipelineInv
  <2>2. Ran'
    BY <1>9, <2>1, SurfacesRun
  <2>3. UNCHANGED Served
    BY <1>8, <1>9 DEF CallClient, CallOpenApi, CallGraphQL, CallMcp, CallWs, CallDirect
  <2> QED BY <1>2, <2>2, <2>3
<1>10. ASSUME Ready, NEW request \in Requests, HandleRequest(request) PROVE BuildInv' /\ Compiled' /\ Ran'
  <2>1. options \in Options
    BY <1>10, UpIsTable DEF Ready, PipelineInv
  <2>2. Ran'
    BY <1>10, <2>1, RequestRuns
  <2>3. UNCHANGED Served
    BY <1>8, <1>10 DEF HandleRequest
  <2> QED BY <1>2, <2>2, <2>3
<1>11. ASSUME CapixCheck PROVE BuildInv' /\ Compiled' /\ Ran'
  <2>1. UNCHANGED Served
    BY <1>11 DEF CapixCheck, Served
  <2>2. call'.surface = "check"
    BY <1>11 DEF CapixCheck
  <2>3. Ran'
    BY <2>2 DEF Ran, Calling
  <2> QED BY <1>2, <2>1, <2>3
<1>12. ASSUME Answered PROVE BuildInv' /\ Compiled' /\ Ran'
    BY <1>2, <1>3, <1>12 DEF Answered, Served
<1>13. ASSUME UNCHANGED vars PROVE BuildInv' /\ Compiled' /\ Ran'
  <2>1. UNCHANGED Served /\ call' = call /\ options' = options /\ registry' = registry
    BY <1>13 DEF vars, Served
  <2>2. Rejected' = Rejected /\ Calling' = Calling /\ Clear' = Clear
    BY <2>1 DEF Rejected, IsUser, Calling, Clear
  <2>3. Ran'
    BY <2>1, <2>2 DEF PipelineInv, Ran, RanFor, RanTo
  <2> QED BY <1>2, <2>1, <2>3
<1>14. ASSUME Next PROVE BuildInv' /\ Compiled' /\ Ran'
  <2>1. ASSUME NEW c \in Caps, Declare(c, <<>>) PROVE BuildInv' /\ Compiled' /\ Ran'
    BY <1>5, <2>1
  <2>2. ASSUME NEW c \in DOMAIN ChainOps, NEW op \in ChainOps[c],
               ChainOn(c, op) \/ (op.chain = "guard" /\ Declare(c, <<op.step>>))
        PROVE  BuildInv' /\ Compiled' /\ Ran'
    <3>1. c \in Caps /\ op \in Ops
      BY GatewayAssumption DEF Ops
    <3> QED BY <1>5, <1>6, <2>2, <3>1
  <2>3. ASSUME Ready, NEW c, NEW args, NEW way \in Ways(c, args),
               \/ CallClient(c, args, way) \/ CallOpenApi(c, args, way)
               \/ CallGraphQL(c, args, way) \/ CallMcp(c, args, way)
               \/ CallWs(c, args, way) \/ CallDirect(c, args, way)
        PROVE  BuildInv' /\ Compiled' /\ Ran'
    BY <1>9, <2>3, WaysTyped
  <2>4. ASSUME Ready, NEW c, CallUnknown(c) PROVE BuildInv' /\ Compiled' /\ Ran'
    <3>1. Plain.headers \in Seq(Header)
      <4>1. Plain.headers = <<>> /\ <<>> \in Seq(Header)
        BY DEF Plain
      <4> QED BY <4>1
    <3> QED BY <1>9, <2>4, <3>1 DEF CallUnknown
  <2> HIDE DEF Compiled
  <2> QED BY <1>7, <1>10, <1>11, <1>12, <1>14, <2>1, <2>2, <2>3, <2>4 DEF Next
<1>15. BuildInv' /\ Compiled' /\ Ran'
    BY <1>13, <1>14
<1> QED BY <1>1, <1>15 DEF PipelineInv

(* It says what GuardsRunOnce does, by way of RunIs and PipelineIsPromise.   *)
LEMMA InvGuardsRunOnce == PipelineInv => GuardsRunOnce
<1> SUFFICES ASSUME PipelineInv, Calling, call.answer.by # "none", Clear,
                    NEW ran, ran = call.answer.ran, NEW promised, promised = Promised(call.answer.by)
             PROVE  /\ ran # <<>> /\ IsPrefix(ran, promised)
                    /\ \A i \in DOMAIN ran : ran[i] \in Rejected => i = Len(ran)
                    /\ call.answer.data \in {"everything", "declared", "null", "thrown"}
                       /\ call.answer.status < 300 => ran = promised /\ Last(ran) \notin Rejected
    BY DEF GuardsRunOnce
<1>1. PICK S : /\ Rejected \subseteq S /\ RanTo(call.answer, S)
               /\ Last(ran) \in S => IsError(call.answer.status)
    BY DEF PipelineInv, Ran, RanFor
<1>2. phase # "declaring" /\ BuildInv
    BY DEF PipelineInv, GatewayInv, Calling, NoCall
<1>3. DOMAIN registry = DOMAIN tree /\ \A c \in DOMAIN tree : registry[c] = tree[c]
  <2>1. registry = [c \in DOMAIN tree |-> tree[c]]
    BY <1>2 DEF PipelineInv, CompileRegistry, NamedCopy
  <2> QED BY <2>1
<1>4. call.answer.by \in DOMAIN tree /\ ran = Run(Pipeline(tree[call.answer.by]), S)
    BY <1>1, <1>3 DEF RanTo
<1>5. ran = Run(promised, S) /\ promised \in Seq(Deed) /\ promised # <<>>
    BY <1>2, <1>4, PipelineIsPromise
<1>6. /\ ran # <<>> /\ IsPrefix(ran, promised)
      /\ \A i \in DOMAIN ran : ran[i] \in S => i = Len(ran)
      /\ Last(ran) \notin S => ran = promised
    BY <1>5, RunIs
<1>7. ASSUME call.answer.status < 300 PROVE Last(ran) \notin S
    BY <1>1, <1>7 DEF IsError
<1> QED BY <1>1, <1>6, <1>7

(* In whatever order a capability is built, and over whatever surface it is *)
(* called, a call runs what was chained once and in the promised order, up   *)
(* to the first step that rejects it, and data comes of a whole run only.   *)
THEOREM GuardsAlwaysRunOnce == Spec => []GuardsRunOnce
<1> QED BY PipelineInit, PipelineNext, InvGuardsRunOnce, PTL DEF Spec

-----------------------------------------------------------------------------
(* The parts of Split: where the separators are, where what is between them *)
(* starts, and where it ends.                                               *)
Cuts(tokens, sep) == {i \in DOMAIN tokens : tokens[i] = sep} \union {Len(tokens) + 1}
Starts(tokens, S) == {i \in DOMAIN tokens : i \notin S /\ (i = 1 \/ i - 1 \in S)}
IsNextCut(S, i, j) == j \in S /\ i < j /\ \A l \in S : i < l => j <= l
Firsts(tokens, sep) == Starts(tokens, Cuts(tokens, sep))
Identity(n) == [i \in 1 .. n |-> i]
Begins(tokens, sep) == Only(Identity(Len(tokens)), Firsts(tokens, sep))
CutBy(tokens, sep, cut) ==
    /\ \A i \in Firsts(tokens, sep) : IsNextCut(Cuts(tokens, sep), i, cut[i])
    /\ Split(tokens, sep) = [k \in DOMAIN Begins(tokens, sep) |->
           SubSeq(tokens, Begins(tokens, sep)[k], cut[Begins(tokens, sep)[k]] - 1)]
With1(tokens, sep, x) == tokens \o (<<sep>> \o x)

LEMMA SplitIs ==
    ASSUME NEW T, NEW tokens \in Seq(T), NEW sep
    PROVE  /\ Firsts(tokens, sep) \subseteq 1 .. Len(tokens)
           /\ Begins(tokens, sep) \in Seq(Firsts(tokens, sep))
           /\ \E cut : CutBy(tokens, sep, cut)
<1> DEFINE n == Len(tokens)
           S == Cuts(tokens, sep)
           first == Firsts(tokens, sep)
           begin == Begins(tokens, sep)
           cut == [i \in first |-> CHOOSE j \in S : i < j /\ \A l \in S : i < l => j <= l]
<1>1. /\ n \in Nat /\ DOMAIN tokens = 1 .. n /\ S \subseteq Nat /\ n + 1 \in S
      /\ first \subseteq 1 .. n
    BY DEF Cuts, Firsts, Starts
<1>2. begin \in Seq(first)
  <2>1. Identity(n) \in Seq(Nat)
    BY <1>1 DEF Identity
  <2> HIDE DEF first
  <2>2. begin \in Seq(Nat) /\ ToSet(begin) \subseteq first
    BY <2>1, OnlyType DEF first, Begins
  <2>3. \A k \in 1 .. Len(begin) : begin[k] \in first
    BY <2>2 DEF ToSet
  <2> QED BY <2>2, <2>3
<1>3. ASSUME NEW i \in first PROVE IsNextCut(S, i, cut[i])
  <2>1. i \in Nat /\ i < n + 1
    BY <1>1
  <2>2. \E j \in S : i < j /\ \A l \in S : i < l => j <= l
    BY <1>1, <2>1, LeastAbove
  <2> QED BY <2>2 DEF IsNextCut
<1>4. Split(tokens, sep) = [k \in DOMAIN begin |-> SubSeq(tokens, begin[k], cut[begin[k]] - 1)]
  <2>1. Identity(n) = [i \in DOMAIN tokens |-> i]
    BY <1>1 DEF Identity
  <2> QED BY <2>1 DEF Split, Cuts, Starts, Firsts, Begins
<1>5. CutBy(tokens, sep, cut)
    BY <1>3, <1>4 DEF CutBy
<1> QED BY <1>1, <1>2, <1>5

LEMMA NextCutIsOne ==
    ASSUME NEW S \in SUBSET Nat, NEW i, NEW j, NEW k, IsNextCut(S, i, j), IsNextCut(S, i, k)
    PROVE  j = k
<1>1. j \in Nat /\ k \in Nat /\ j <= k /\ k <= j
    BY DEF IsNextCut
<1> QED BY <1>1

(* Where things start when one more follows after a separator.              *)
LEMMA StartsAppend ==
    ASSUME NEW T, NEW tokens \in Seq(T), NEW sep \in T, NEW x \in Seq(T), Len(x) > 0, sep \notin ToSet(x)
    PROVE  /\ With1(tokens, sep, x) \in Seq(T) /\ Len(With1(tokens, sep, x)) = Len(tokens) + 1 + Len(x)
           /\ \A i \in 1 .. Len(tokens) : With1(tokens, sep, x)[i] = tokens[i]
           /\ \A i \in 1 .. Len(x) : With1(tokens, sep, x)[Len(tokens) + 1 + i] = x[i]
           /\ Cuts(With1(tokens, sep, x), sep) = Cuts(tokens, sep) \union {Len(tokens) + Len(x) + 2}
           /\ Firsts(With1(tokens, sep, x), sep) = Firsts(tokens, sep) \union {Len(tokens) + 2}
<1> DEFINE all == With1(tokens, sep, x)
           n == Len(tokens)
           m == Len(x)
           y == <<sep>> \o x
           S == Cuts(tokens, sep)
           R == Cuts(all, sep)
<1>1. /\ n \in Nat /\ m \in Nat /\ m > 0 /\ DOMAIN tokens = 1 .. n /\ DOMAIN x = 1 .. m
      /\ \A i \in 1 .. m : x[i] # sep
  <2>1. n \in Nat /\ m \in Nat /\ m > 0 /\ DOMAIN tokens = 1 .. n /\ DOMAIN x = 1 .. m
    OBVIOUS
  <2>2. \A i \in 1 .. m : x[i] # sep
    BY <2>1 DEF ToSet
  <2> QED BY <2>1, <2>2
<1>2. y \in Seq(T) /\ Len(y) = m + 1 /\ y[1] = sep /\ \A i \in 1 .. m : y[1 + i] = x[i]
    BY <1>1
<1> HIDE DEF y
<1>3. all = tokens \o y
    BY DEF y, With1
<1> HIDE DEF all
<1>4. /\ all \in Seq(T) /\ Len(all) = n + (m + 1) /\ \A i \in 1 .. n : all[i] = tokens[i]
      /\ \A i \in 1 .. m + 1 : all[n + i] = y[i]
  <2>0. all \in Seq(T) /\ Len(all) = Len(tokens) + Len(y)
    BY <1>2, <1>3, ConcatProperties
  <2>1. all \in Seq(T) /\ Len(all) = n + (m + 1)
    BY <1>2, <2>0
  <2>2. \A i \in 1 .. n + (m + 1) : all[i] = IF i <= n THEN tokens[i] ELSE y[i - n]
    BY <1>2, <1>3, ConcatProperties
  <2>3. ASSUME NEW i \in 1 .. m + 1 PROVE all[n + i] = y[i]
    <3>1. n + i \in 1 .. n + (m + 1) /\ ~(n + i <= n) /\ (n + i) - n = i
      BY <1>1
    <3> QED BY <2>2, <3>1
  <2>4. ASSUME NEW i \in 1 .. n PROVE all[i] = tokens[i]
    <3>1. i \in 1 .. n + (m + 1) /\ i <= n
      BY <1>1
    <3> QED BY <2>2, <3>1
  <2> QED BY <2>1, <2>3, <2>4
<1>5. all[n + 1] = sep /\ \A i \in 1 .. m : all[n + 1 + i] = x[i]
  <2>1. ASSUME NEW i \in 1 .. m PROVE all[n + 1 + i] = x[i]
    <3>1. 1 + i \in 1 .. m + 1 /\ n + 1 + i = n + (1 + i)
      BY <1>1
    <3> QED BY <1>2, <1>4, <3>1
  <2> QED BY <1>1, <1>2, <1>4, <2>1
<1>6. Len(all) = n + 1 + m /\ DOMAIN all = 1 .. n + 1 + m
    BY <1>1, <1>4
<1>7. R = S \union {n + m + 2}
  <2>1. ASSUME NEW i \in 1 .. n + 1 + m PROVE all[i] = sep <=> i \in S
    <3>1. CASE i <= n
      BY <1>1, <1>4, <3>1 DEF Cuts
    <3>2. CASE i = n + 1
      BY <1>1, <1>5, <3>2 DEF Cuts
    <3>3. CASE i > n + 1
      <4>1. i - (n + 1) \in 1 .. m /\ i = n + 1 + (i - (n + 1))
        BY <1>1, <3>3
      <4>2. all[i] # sep
        BY <1>1, <1>5, <4>1, ZenonT(40)
      <4>3. i \notin S
        BY <1>1, <3>3 DEF Cuts
      <4> QED BY <4>2, <4>3
    <3> QED BY <1>1, <3>1, <3>2, <3>3
  <2>2. S \subseteq 1 .. n + 1 + m
    BY <1>1 DEF Cuts
  <2>3. R = {i \in 1 .. n + 1 + m : all[i] = sep} \union {n + m + 2}
    BY <1>1, <1>6 DEF Cuts
  <2> HIDE DEF S, R
  <2> QED BY <2>1, <2>2, <2>3
<1>8. S \subseteq 1 .. n + 1 /\ n + 1 \in S
    BY <1>1 DEF Cuts
<1> HIDE DEF S, R
<1>9. ASSUME NEW i \in 1 .. n + 1 + m
      PROVE  i \notin R /\ (i = 1 \/ i - 1 \in R) <=> i \in Starts(tokens, S) \/ i = n + 2
  <2>1. i \in R <=> i \in S
    BY <1>1, <1>7
  <2>2. i - 1 \in R <=> i - 1 \in S
    BY <1>1, <1>7
  <2>3. CASE i <= n
    <3>1. i \in DOMAIN tokens
      BY <1>1, <2>3
    <3> QED BY <1>1, <2>1, <2>2, <2>3, <3>1 DEF Starts
  <2>4. CASE i = n + 1
    BY <1>1, <1>8, <2>1, <2>4 DEF Starts
  <2>5. CASE i = n + 2
    BY <1>1, <1>8, <2>1, <2>2, <2>5
  <2>6. CASE i > n + 2
    BY <1>1, <1>8, <2>1, <2>2, <2>6 DEF Starts
  <2> QED BY <1>1, <2>3, <2>4, <2>5, <2>6
<1>10. Starts(all, R) = Starts(tokens, S) \union {n + 2}
  <2>1. Starts(tokens, S) \subseteq 1 .. n + 1 + m /\ n + 2 \in 1 .. n + 1 + m
    BY <1>1 DEF Starts
  <2>2. Starts(all, R) = {i \in 1 .. n + 1 + m : i \notin R /\ (i = 1 \/ i - 1 \in R)}
    BY <1>6 DEF Starts
  <2> QED BY <1>9, <2>1, <2>2
<1> HIDE DEF n, m
<1> QED BY <1>4, <1>5, <1>6, <1>7, <1>10 DEF R, S, n, m, all, Firsts

LEMMA OnlyAppendIn ==
    ASSUME NEW T, NEW s \in Seq(T), NEW S, NEW x \in T, x \in S
    PROVE  Only(Append(s, x), S) = Append(Only(s, S), x)
BY OnlyAppend

(* So one more part starts.                                                 *)
LEMMA BeginsAppend ==
    ASSUME NEW n \in Nat, NEW m \in Nat, m > 0, NEW F, NEW G,
           \A i \in 1 .. n + 1 + m : i \in G <=> (i \in 1 .. n /\ i \in F) \/ i = n + 2
    PROVE  Only(Identity(n + 1 + m), G) = Append(Only(Identity(n), F), n + 2)
<1> DEFINE I == Identity(n)
           rest == [i \in 1 .. m - 1 |-> n + 2 + i]
           J == Append(Append(I, n + 1), n + 2)
<1>1. I \in Seq(Nat) /\ Len(I) = n /\ n + 1 \in Nat /\ n + 2 \in Nat /\ m - 1 \in Nat
    BY DEF Identity
<1>2. rest \in Seq(Nat) /\ Len(rest) = m - 1
    BY <1>1
<1>3. J \in Seq(Nat) /\ Len(J) = n + 2 /\ \A i \in 1 .. n + 2 : J[i] = i
  <2>1. J \in Seq(Nat) /\ Len(J) = n + 2
    BY <1>1
  <2>2. ASSUME NEW i \in 1 .. n + 2 PROVE J[i] = i
    <3>1. i \in 1 .. n => I[i] = i
      BY DEF Identity
    <3> HIDE DEF I
    <3> QED BY <1>1, <3>1
  <2> QED BY <2>1, <2>2
<1>4. Identity(n + 1 + m) = J \o rest
  <2>1. Identity(n + 1 + m) \in Seq(Nat) /\ Len(Identity(n + 1 + m)) = n + 1 + m
    BY DEF Identity
  <2> HIDE DEF J
  <2>2. \A i \in 1 .. m - 1 : rest[i] = n + 2 + i
    OBVIOUS
  <2> HIDE DEF rest
  <2> DEFINE a == Len(J)
             b == Len(rest)
             both == J \o rest
  <2>a. both \in Seq(Nat) /\ Len(both) = a + b
    BY <1>2, <1>3, ConcatProperties
  <2>b. \A i \in 1 .. a + b : both[i] = IF i <= a THEN J[i] ELSE rest[i - a]
    BY <1>2, <1>3, ConcatProperties
  <2>c. a = n + 2 /\ b = m - 1
    BY <1>2, <1>3
  <2> HIDE DEF a, b, both
  <2>3. /\ both \in Seq(Nat) /\ Len(both) = (n + 2) + (m - 1)
        /\ \A i \in 1 .. (n + 2) + (m - 1) : both[i] = IF i <= n + 2 THEN J[i] ELSE rest[i - (n + 2)]
    BY <2>a, <2>b, <2>c
  <2>4. (n + 2) + (m - 1) = n + 1 + m
    OBVIOUS
  <2>5. ASSUME NEW i \in 1 .. n + 1 + m PROVE both[i] = i
    <3>1. CASE i <= n + 2
      BY <1>3, <2>3, <2>4, <3>1
    <3>2. CASE ~(i <= n + 2)
      <4>1. i - (n + 2) \in 1 .. m - 1 /\ n + 2 + (i - (n + 2)) = i
        BY <3>2
      <4>2. both[i] = rest[i - (n + 2)]
        BY <2>3, <2>4, <3>2
      <4> QED BY <2>2, <4>1, <4>2
    <3> QED BY <3>1, <3>2
  <2>6. \A i \in 1 .. n + 1 + m : Identity(n + 1 + m)[i] = i
    BY DEF Identity
  <2> QED BY <2>1, <2>3, <2>4, <2>5, <2>6, SeqEqual DEF both
<1>5. Only(I, G) = Only(I, F)
  <2>1. I \in Seq(1 .. n) /\ \A i \in 1 .. n : i \in G <=> i \in F
    BY DEF Identity
  <2> HIDE DEF I
  <2> QED BY <2>1, OnlySame
<1>6. Only(J, G) = Append(Only(I, F), n + 2)
  <2>1. n + 1 \notin G /\ n + 2 \in G
    OBVIOUS
  <2>2. Only(Append(I, n + 1), G) = Only(I, G)
    <3> HIDE DEF I
    <3> QED BY <1>1, <2>1, OnlyAppend
  <2>3. Append(I, n + 1) \in Seq(Nat)
    BY <1>1
  <2> HIDE DEF I
  <2>4. Only(J, G) = Append(Only(Append(I, n + 1), G), n + 2)
    <3>1. ASSUME NEW T, NEW K \in Seq(T), NEW k \in T, k \in G PROVE Only(Append(K, k), G) = Append(Only(K, G), k)
      BY <3>1, OnlyAppendIn
    <3>2. n + 2 \in Nat /\ n + 2 \in G
      BY <1>1, <2>1
    <3> HIDE DEF J
    <3> QED BY <2>3, <3>1, <3>2, Zenon DEF J
  <2> QED BY <1>5, <2>2, <2>4
<1>7. Only(rest, G) = <<>>
  <2>1. \A i \in 1 .. m - 1 : rest[i] \notin G
    OBVIOUS
  <2> HIDE DEF rest
  <2>2. ToSet(rest) \cap G = {}
    BY <1>1, <1>2, <2>1 DEF ToSet
  <2>3. Only(rest, G) \in Seq(Nat) /\ ToSet(Only(rest, G)) = {}
    BY <1>2, <2>2, OnlyType
  <2> DEFINE none == Only(rest, G)
  <2> HIDE DEF none
  <2>4. none \in Seq(Nat) /\ ToSet(none) = {}
    BY <2>3 DEF none
  <2>5. Len(none) = 0
    <3>1. \A i \in 1 .. Len(none) : none[i] \in ToSet(none)
      BY <2>4 DEF ToSet
    <3> QED BY <2>4, <3>1
  <2> QED BY <2>4, <2>5, EmptySeq DEF none
<1> HIDE DEF rest, J, I
<1>8. Only(J \o rest, G) = Only(J, G) \o Only(rest, G)
    BY <1>2, <1>3, OnlyConcat
<1>9. Only(J, G) \in Seq(Nat)
    BY <1>3, OnlyType
<1>10. Only(J, G) \o <<>> = Only(J, G)
    BY <1>9, ConcatEmptySeq
<1> QED BY <1>4, <1>6, <1>7, <1>8, <1>10 DEF I

(* The parts there were stay as they were, and what was appended is one more. *)
Grown(tokens, sep, x, old, new) ==
    /\ \A i \in Firsts(tokens, sep) :
          SubSeq(With1(tokens, sep, x), i, new[i] - 1) = SubSeq(tokens, i, old[i] - 1)
    /\ SubSeq(With1(tokens, sep, x), Len(tokens) + 2, new[Len(tokens) + 2] - 1) = x

LEMMA PartsAppend ==
    ASSUME NEW T, NEW tokens \in Seq(T), NEW sep \in T, NEW x \in Seq(T), Len(x) > 0, sep \notin ToSet(x),
           NEW old, CutBy(tokens, sep, old), NEW new, CutBy(With1(tokens, sep, x), sep, new)
    PROVE  Grown(tokens, sep, x, old, new)
<1> DEFINE all == With1(tokens, sep, x)
           n == Len(tokens)
           m == Len(x)
           S == Cuts(tokens, sep)
           R == Cuts(all, sep)
           F == Firsts(tokens, sep)
           G == Firsts(all, sep)
<1>0. /\ all \in Seq(T) /\ Len(all) = n + 1 + m
      /\ \A i \in 1 .. n : all[i] = tokens[i]
      /\ \A i \in 1 .. m : all[n + 1 + i] = x[i]
      /\ R = S \union {n + m + 2}
      /\ G = F \union {n + 2}
    BY StartsAppend
<1>a. n \in Nat /\ m \in Nat /\ m > 0 /\ Len(tokens) = n /\ Len(x) = m /\ S \subseteq 1 .. n + 1
    BY DEF Cuts
<1>b. F \subseteq 1 .. n
    BY SplitIs
<1>c. \A i \in F : IsNextCut(S, i, old[i])
    BY DEF CutBy
<1>d. \A i \in G : IsNextCut(R, i, new[i])
    BY DEF CutBy
<1> HIDE DEF all, n, m, S, R, F, G
<1>e. n + 2 \in G /\ F \subseteq G
    BY <1>0
<1>1. R \in SUBSET Nat /\ \A i \in R : i \in 1 .. n + 1 \/ i = n + m + 2
    BY <1>0, <1>a
<1>f. \A i \in Nat : i \in R <=> i \in S \/ i = n + m + 2
    BY <1>0, <1>a
<1>2. ASSUME NEW i \in F PROVE SubSeq(all, i, new[i] - 1) = SubSeq(tokens, i, old[i] - 1)
  <2>1. old[i] \in S /\ i < old[i] /\ \A l \in S : i < l => old[i] <= l
    BY <1>c DEF IsNextCut
  <2>2. i \in 1 .. n /\ old[i] \in 1 .. n + 1
    BY <1>a, <1>b, <2>1
  <2>3. IsNextCut(R, i, old[i])
    <3>1. old[i] \in R /\ old[i] <= n + m + 2
      BY <1>a, <1>f, <2>1, <2>2
    <3>2. ASSUME NEW l \in R, i < l PROVE old[i] <= l
      BY <1>1, <1>a, <1>f, <2>1, <2>2, <3>1, <3>2
    <3> QED BY <2>1, <3>1, <3>2 DEF IsNextCut
  <2>4. new[i] = old[i]
    <3>1. IsNextCut(R, i, new[i])
      BY <1>d, <1>e
    <3> QED BY <1>1, <2>3, <3>1, NextCutIsOne
  <2> DEFINE e == old[i] - 1
  <2>5. e \in 1 .. n /\ i <= e
    BY <1>a, <2>1, <2>2
  <2> HIDE DEF e
  <2>6. \A k \in 1 .. e - i + 1 : i + k - 1 \in 1 .. n
    BY <1>a, <2>2, <2>5
  <2>7. SubSeq(all, i, e) = [k \in 1 .. e - i + 1 |-> all[i + k - 1]]
    BY <1>0, <1>a, <2>2, <2>5, SubSeqProperties
  <2>8. SubSeq(tokens, i, e) = [k \in 1 .. e - i + 1 |-> tokens[i + k - 1]]
    BY <1>a, <2>2, <2>5, SubSeqProperties
  <2>9. [k \in 1 .. e - i + 1 |-> all[i + k - 1]] = [k \in 1 .. e - i + 1 |-> tokens[i + k - 1]]
    BY <1>0, <2>6
  <2> QED BY <2>4, <2>7, <2>8, <2>9 DEF e
<1>3. SubSeq(all, n + 2, new[n + 2] - 1) = x
  <2>1. IsNextCut(R, n + 2, n + m + 2)
    <3>1. ASSUME NEW l \in R, n + 2 < l PROVE n + m + 2 <= l
      BY <1>1, <1>a, <3>1
    <3>2. n + m + 2 \in R /\ n + 2 < n + m + 2
      BY <1>0, <1>a
    <3> QED BY <3>1, <3>2 DEF IsNextCut
  <2>2. new[n + 2] = n + m + 2
    BY <1>1, <1>d, <1>e, <2>1, NextCutIsOne
  <2> DEFINE e == n + 1 + m
             a == n + 2
  <2>3. new[n + 2] - 1 = e /\ e \in 1 .. Len(all) /\ a \in 1 .. e /\ e - a + 1 = m /\ a <= e
    BY <1>0, <1>a, <2>2
  <2>4. \A k \in 1 .. m : a + k - 1 = n + 1 + k
    BY <1>a
  <2> HIDE DEF e, a
  <2>5. SubSeq(all, a, e) = [k \in 1 .. e - a + 1 |-> all[a + k - 1]]
    BY <1>0, <2>3, SubSeqProperties
  <2>6. x = [k \in 1 .. m |-> x[k]]
    BY <1>a
  <2>7. [k \in 1 .. m |-> all[a + k - 1]] = [k \in 1 .. m |-> x[k]]
    BY <1>0, <2>4
  <2>8. SubSeq(all, a, e) = x
    BY <2>3, <2>5, <2>6, <2>7
  <2> QED BY <2>3, <2>8 DEF a
<1> QED BY <1>2, <1>3 DEF Grown, all, n, F

LEMMA ImageAppend ==
    ASSUME NEW F, NEW b \in Seq(F), NEW a, NEW f, NEW g, \A i \in F : g[i] = f[i], NEW H, g[a] \in H, \A i \in F : g[i] \in H,
           NEW c, c = Append(b, a)
    PROVE  [k \in DOMAIN c |-> g[c[k]]] = Append([k \in DOMAIN b |-> f[b[k]]], g[a])
<1> DEFINE t == [k \in DOMAIN b |-> f[b[k]]]
           u == [k \in DOMAIN c |-> g[c[k]]]
           l == Len(b)
<1>1. /\ l \in Nat /\ DOMAIN b = 1 .. l /\ DOMAIN c = 1 .. l + 1 /\ c[l + 1] = a
      /\ \A k \in 1 .. l : c[k] = b[k] /\ b[k] \in F
  <2>1. l \in Nat /\ DOMAIN b = 1 .. l
    OBVIOUS
  <2>2. b \in Seq(F \union {a}) /\ a \in F \union {a}
    OBVIOUS
  <2> QED BY <2>1, <2>2
<1> HIDE DEF l
<1>2. t \in Seq(H) /\ Len(t) = l /\ \A k \in 1 .. l : t[k] = g[c[k]]
  <2>1. t = [k \in 1 .. l |-> f[b[k]]] /\ \A k \in 1 .. l : f[b[k]] = g[c[k]] /\ f[b[k]] \in H
    BY <1>1
  <2> HIDE DEF t
  <2> QED BY <1>1, <2>1
<1>3. u \in Seq(H) /\ Len(u) = l + 1 /\ \A k \in 1 .. l : u[k] = t[k]
  <2>1. u = [k \in 1 .. l + 1 |-> g[c[k]]] /\ \A k \in 1 .. l + 1 : g[c[k]] \in H
    <3>1. \A k \in 1 .. l + 1 : k \in 1 .. l \/ k = l + 1
      BY <1>1
    <3> QED BY <1>1, <3>1
  <2> HIDE DEF u, t
  <2>2. \A k \in 1 .. l : k \in 1 .. l + 1
    BY <1>1
  <2> QED BY <1>1, <1>2, <2>1, <2>2
<1>4. u[l + 1] = g[a]
    BY <1>1
<1> HIDE DEF t, u
<1>5. Append(t, g[a]) \in Seq(H) /\ Len(Append(t, g[a])) = l + 1 /\ Append(t, g[a])[l + 1] = g[a]
      /\ \A k \in 1 .. l : Append(t, g[a])[k] = t[k]
    BY <1>1, <1>2
<1> DEFINE v == Append(t, g[a])
<1> HIDE DEF v
<1>6. v \in Seq(H) /\ Len(v) = l + 1 /\ \A k \in 1 .. l + 1 : v[k] = u[k]
  <2>1. \A k \in 1 .. l + 1 : k \in 1 .. l \/ k = l + 1
    BY <1>1
  <2> QED BY <1>3, <1>4, <1>5, <2>1 DEF v
<1>7. u = v
    BY <1>3, <1>6, SeqEqual
<1> QED BY <1>7 DEF u, t, v

(* Split adds what is appended after a separator.                           *)
LEMMA SplitAppend ==
    ASSUME NEW T, NEW tokens \in Seq(T), NEW sep \in T, NEW x \in Seq(T), Len(x) > 0, sep \notin ToSet(x)
    PROVE  Split(tokens \o (<<sep>> \o x), sep) = Append(Split(tokens, sep), x)
<1> DEFINE all == With1(tokens, sep, x)
           n == Len(tokens)
           m == Len(x)
           S == Cuts(tokens, sep)
           R == Cuts(all, sep)
           F == Firsts(tokens, sep)
           G == Firsts(all, sep)
           b == Begins(tokens, sep)
           c == Begins(all, sep)
<1>1. /\ all \in Seq(T) /\ Len(all) = n + 1 + m
      /\ \A i \in 1 .. n : all[i] = tokens[i]
      /\ \A i \in 1 .. m : all[n + 1 + i] = x[i]
      /\ R = S \union {n + m + 2}
      /\ G = F \union {n + 2}
    BY StartsAppend
<1>2. n \in Nat /\ m \in Nat /\ m > 0 /\ S \subseteq 1 .. n + 1
    BY DEF Cuts
<1>3. all \in Seq(T)
    BY <1>1
<1>4. F \subseteq 1 .. n /\ b \in Seq(F) /\ \E cut : CutBy(tokens, sep, cut)
    BY SplitIs
<1>5. c \in Seq(G) /\ \E cut : CutBy(all, sep, cut)
    BY <1>3, SplitIs
<1> HIDE DEF F, G
<1>6. c = Append(b, n + 2)
  <2>1. \A i \in 1 .. n + 1 + m : i \in G <=> (i \in 1 .. n /\ i \in F) \/ i = n + 2
    BY <1>1, <1>2, <1>4
  <2>2. Only(Identity(n + 1 + m), G) = Append(Only(Identity(n), F), n + 2)
    <3> HIDE DEF n, m
    <3> QED BY <1>2, <2>1, BeginsAppend
  <2>3. b = Only(Identity(n), F) /\ c = Only(Identity(Len(all)), G)
    BY DEF Begins, F, G
  <2> HIDE DEF all, n, m, b, c
  <2>4. Len(all) = n + 1 + m
    BY <1>1
  <2> QED BY <2>2, <2>3, <2>4
<1>7. PICK old : CutBy(tokens, sep, old)
    BY <1>4
<1>8. PICK new : CutBy(all, sep, new)
    BY <1>5
<1>9. /\ \A i \in F : SubSeq(all, i, new[i] - 1) = SubSeq(tokens, i, old[i] - 1)
      /\ SubSeq(all, n + 2, new[n + 2] - 1) = x
  <2>1. Grown(tokens, sep, x, old, new)
    BY <1>7, <1>8, PartsAppend
  <2> QED BY <2>1 DEF F, Grown
<1>a. /\ Split(tokens, sep) = [k \in DOMAIN b |-> SubSeq(tokens, b[k], old[b[k]] - 1)]
      /\ Split(all, sep) = [k \in DOMAIN c |-> SubSeq(all, c[k], new[c[k]] - 1)]
    BY <1>7, <1>8 DEF CutBy
<1> HIDE DEF all, S, R, b, c
<1>10. Split(all, sep) = Append(Split(tokens, sep), x)
  <2> DEFINE f == [i \in F |-> SubSeq(tokens, i, old[i] - 1)]
             g == [i \in G |-> SubSeq(all, i, new[i] - 1)]
             a == n + 2
             H == {g[i] : i \in G}
  <2>1. a \in G /\ F \subseteq G
    BY <1>1
  <2>2. /\ \A i \in F : g[i] = f[i] /\ g[i] \in H
        /\ g[a] = x /\ g[a] \in H
    BY <1>9, <2>1
  <2>3. c = Append(b, a) /\ b \in Seq(F)
    BY <1>4, <1>6
  <2>4. Split(tokens, sep) = [k \in DOMAIN b |-> f[b[k]]]
    <3>1. \A k \in DOMAIN b : b[k] \in F
      BY <2>3
    <3> QED BY <1>a, <3>1
  <2>5. Split(all, sep) = [k \in DOMAIN c |-> g[c[k]]]
    <3>1. \A k \in DOMAIN c : c[k] \in G
      BY <1>5
    <3> QED BY <1>a, <3>1
  <2> HIDE DEF f, g, a, H
  <2>6. [k \in DOMAIN c |-> g[c[k]]] = Append([k \in DOMAIN b |-> f[b[k]]], g[a])
    BY <2>2, <2>3, ImageAppend
  <2> QED BY <2>2, <2>4, <2>5, <2>6
<1> QED BY <1>10 DEF all, With1

(* What is joined, one part more.                                           *)
LEMMA JoinedAppend ==
    ASSUME NEW T, NEW sep \in T, NEW parts \in Seq(Seq(T)), NEW x \in Seq(T)
    PROVE  /\ Joined(sep, parts) \in Seq(T)
           /\ Joined(sep, Append(parts, x)) = Joined(sep, parts) \o (<<sep>> \o x)
<1> DEFINE F == Seq(T)
           g == [p \in F |-> <<sep>> \o p]
           c == Append(parts, x)
           before == [k \in DOMAIN parts |-> <<sep>> \o parts[k]]
           after == [k \in DOMAIN c |-> <<sep>> \o c[k]]
<1>1. \A p \in F : <<sep>> \o p \in F
    OBVIOUS
<1>2. parts \in Seq(F) /\ x \in F /\ c \in Seq(F)
    OBVIOUS
<1> HIDE DEF c, F
<1>3. \A p \in F : g[p] \in F /\ g[p] = <<sep>> \o p
    BY <1>1
<1>4. before = [k \in DOMAIN parts |-> g[parts[k]]]
    BY <1>2
<1>5. after = [k \in DOMAIN c |-> g[c[k]]]
    BY <1>2
<1>6. before \in Seq(F)
  <2> HIDE DEF g
  <2>0. Len(parts) \in Nat /\ DOMAIN parts = 1 .. Len(parts) /\ \A k \in 1 .. Len(parts) : g[parts[k]] \in F
    BY <1>2, <1>3
  <2>1. [k \in DOMAIN parts |-> g[parts[k]]] \in Seq(F)
    BY <2>0
  <2> QED BY <1>4, <2>1
<1> HIDE DEF g, before, after
<1>7. after = Append(before, g[x])
    BY <1>2, <1>3, <1>4, <1>5, ImageAppend DEF c
<1>8. Joined(sep, parts) = FlattenSeq(before) /\ Joined(sep, c) = FlattenSeq(after)
    BY DEF Joined, before, after
<1>9. FlattenSeq(before) \in Seq(T)
    BY <1>6, FlattenType DEF F
<1>10. FlattenSeq(after) = FlattenSeq(before) \o (<<sep>> \o x)
  <2>1. g[x] \in Seq(T) /\ g[x] = <<sep>> \o x
    BY <1>2, <1>3 DEF F
  <2>2. before \in Seq(Seq(T))
    BY <1>6 DEF F
  <2>3. FlattenSeq(Append(before, g[x])) = FlattenSeq(before) \o g[x]
    BY <2>1, <2>2, FlattenAppend
  <2> QED BY <1>7, <2>1, <2>3
<1> QED BY <1>8, <1>9, <1>10 DEF c

LEMMA JoinedEmpty == ASSUME NEW sep PROVE Joined(sep, <<>>) = <<>>
<1>1. [k \in DOMAIN <<>> |-> <<sep>> \o <<>>[k]] = <<>>
    OBVIOUS
<1> QED BY <1>1, FlattenEmpty DEF Joined

LEMMA SplitEmpty == ASSUME NEW sep PROVE Split(<<>>, sep) = <<>>
<1>1. <<>> \in Seq({}) /\ Len(<<>>) = 0
    OBVIOUS
<1>2. Begins(<<>>, sep) \in Seq(Firsts(<<>>, sep)) /\ Firsts(<<>>, sep) \subseteq 1 .. 0
    BY <1>1, SplitIs
<1>3. PICK cut : CutBy(<<>>, sep, cut)
    BY <1>1, SplitIs
<1>4. Begins(<<>>, sep) \in Seq({})
  <2>1. Firsts(<<>>, sep) = {}
    BY <1>2
  <2> QED BY <1>2, <2>1
<1>5. DOMAIN Begins(<<>>, sep) = {}
    BY <1>4
<1>6. Split(<<>>, sep) = [k \in DOMAIN Begins(<<>>, sep) |->
           SubSeq(<<>>, Begins(<<>>, sep)[k], cut[Begins(<<>>, sep)[k]] - 1)]
    BY <1>3 DEF CutBy
<1>7. \A f : DOMAIN f = {} /\ f \in Seq({}) => f = <<>>
    BY EmptySeq
<1> QED BY <1>5, <1>6, <1>7

(* Parts that have no separator, and are not empty, come back.              *)
Parts(T, sep) == {p \in Seq(T) : Len(p) > 0 /\ sep \notin ToSet(p)}

LEMMA SplitJoined ==
    ASSUME NEW T, NEW sep \in T, NEW parts \in Seq(Parts(T, sep))
    PROVE  Split(Joined(sep, parts), sep) = parts
<1> DEFINE P == {s \in Seq(Parts(T, sep)) : Split(Joined(sep, s), sep) = s}
<1>1. <<>> \in P
  <2>1. Split(Joined(sep, <<>>), sep) = <<>>
    BY JoinedEmpty, SplitEmpty
  <2>2. <<>> \in Seq(Parts(T, sep))
    OBVIOUS
  <2> QED BY <2>1, <2>2
<1>2. ASSUME NEW s \in Seq(Parts(T, sep)), NEW x \in Parts(T, sep), s \in P PROVE Append(s, x) \in P
  <2>1. Parts(T, sep) \subseteq Seq(T)
    BY DEF Parts
  <2>2. s \in Seq(Seq(T)) /\ x \in Seq(T) /\ Len(x) > 0 /\ sep \notin ToSet(x)
    BY <2>1 DEF Parts
  <2>3. Joined(sep, s) \in Seq(T) /\ Joined(sep, Append(s, x)) = Joined(sep, s) \o (<<sep>> \o x)
    BY <2>2, JoinedAppend
  <2>4. Split(Joined(sep, s) \o (<<sep>> \o x), sep) = Append(Split(Joined(sep, s), sep), x)
    BY <2>2, <2>3, SplitAppend
  <2>5. Split(Joined(sep, s), sep) = s
    BY <1>2
  <2>6. Append(s, x) \in Seq(Parts(T, sep))
    OBVIOUS
  <2>7. Split(Joined(sep, Append(s, x)), sep) = Append(s, x)
    BY <2>3, <2>4, <2>5
  <2> QED BY <2>6, <2>7
<1> HIDE DEF P
<1>3. Seq(Parts(T, sep)) \subseteq P
    BY <1>1, <1>2, SeqSetInduction
<1> QED BY <1>3 DEF P

LEMMA NonEmpty ==
    ASSUME NEW T, NEW s \in Seq(T), s # <<>>
    PROVE  Len(s) \in Nat /\ Len(s) > 0 /\ Head(s) = s[1]
<1>1. Len(s) \in Nat /\ (Len(s) = 0 <=> s = <<>>)
    BY EmptySeq
<1> QED BY <1>1

LEMMA JoinedHead ==
    ASSUME NEW T, NEW sep \in T, NEW parts \in Seq(Seq(T)), parts # <<>>
    PROVE  Joined(sep, parts) \in Seq(T) /\ Joined(sep, parts) # <<>> /\ Head(Joined(sep, parts)) = sep
<1> DEFINE x == parts[Len(parts)]
           front == SubSeq(parts, 1, Len(parts) - 1)
<1>1. Len(parts) > 0 /\ Len(parts) \in Nat
    BY EmptySeq
<1>2. x \in Seq(T) /\ front \in Seq(Seq(T)) /\ parts = Append(front, x)
    BY <1>1
<1> HIDE DEF x, front
<1> DEFINE Starting == {s \in Seq(Seq(T)) : s = <<>> \/ (Joined(sep, s) # <<>> /\ Head(Joined(sep, s)) = sep)}
<1>3. ASSUME NEW s \in Seq(Seq(T)), NEW y \in Seq(T), s \in Starting PROVE Append(s, y) \in Starting
  <2> DEFINE j == Joined(sep, s)
             z == <<sep>> \o y
  <2>1. j \in Seq(T) /\ Joined(sep, Append(s, y)) = j \o z
    BY JoinedAppend
  <2>2. z \in Seq(T) /\ Len(z) > 0 /\ z[1] = sep
    OBVIOUS
  <2>3. s = <<>> => j = <<>>
    BY JoinedEmpty
  <2>4. s # <<>> => j # <<>> /\ Head(j) = sep
    BY <1>3
  <2> HIDE DEF j, z
  <2> SUFFICES Joined(sep, Append(s, y)) # <<>> /\ Head(Joined(sep, Append(s, y))) = sep
    <3>1. Append(s, y) \in Seq(Seq(T))
      OBVIOUS
    <3> QED BY <3>1
  <2>5. CASE j = <<>>
    <3>1. j \o z = z /\ Head(z) = sep /\ z # <<>>
      BY <2>2, <2>5, ConcatEmptySeq, EmptySeq
    <3> QED BY <2>1, <3>1
  <2>6. CASE j # <<>>
    <3>1. Len(j) > 0 /\ j[1] = sep
      BY <2>1, <2>3, <2>4, <2>6, EmptySeq
    <3>2. j \o z \in Seq(T) /\ Len(j \o z) > 0 /\ (j \o z)[1] = sep
      BY <2>1, <2>2, <3>1
    <3>3. j \o z # <<>> /\ Head(j \o z) = sep
      BY <3>2, EmptySeq
    <3> QED BY <2>1, <3>3
  <2> QED BY <2>5, <2>6
<1>4. <<>> \in Starting
    OBVIOUS
<1> HIDE DEF Starting
<1>5. Seq(Seq(T)) \subseteq Starting
    BY <1>3, <1>4, SeqSetInduction
<1>6. Joined(sep, parts) \in Seq(T)
    BY <1>2, JoinedAppend
<1> QED BY <1>5, <1>6 DEF Starting

(* Two names of valid keys are never one tool: the underscores between the   *)
(* keys of a tool name can be told from those within them, of which there   *)
(* are none.                                                                *)
ValidName(c) == \A key \in ToSet(Name(c)) : ValidKey(key)

THEOREM ToolNamesAreDistinct ==
    ASSUME NEW c \in Caps, NEW d \in Caps, ValidName(c), ValidName(d), ToolName[c] = ToolName[d]
    PROVE  c = d
<1> DEFINE T == Token \union {"_"}
           J(x) == Joined("_", Name(x))
<1>1. ASSUME NEW x \in Caps, ValidName(x) PROVE Name(x) \in Seq(Parts(T, "_")) /\ Name(x) # <<>>
  <2>1. Name(x) \in Seq(Seq(Token)) /\ Name(x) # <<>>
    BY GatewayAssumption DEF Name
  <2>2. \A k \in DOMAIN Name(x) : Name(x)[k] \in Parts(T, "_")
    <3> SUFFICES ASSUME NEW k \in DOMAIN Name(x) PROVE Name(x)[k] \in Parts(T, "_")
      OBVIOUS
    <3> DEFINE key == Name(x)[k]
    <3>1. key \in ToSet(Name(x)) /\ key \in Seq(Token)
      BY <2>1 DEF ToSet
    <3>2. key # <<>> /\ "_" \notin ToSet(key)
      BY <1>1, <3>1 DEF ValidName, ValidKey, BadHump
    <3> HIDE DEF key
    <3>3. Len(key) > 0
      BY <3>1, <3>2, NonEmpty
    <3>4. Token \subseteq T
      OBVIOUS
    <3> HIDE DEF T
    <3>5. key \in Seq(T)
      BY <3>1, <3>4
    <3> QED BY <3>2, <3>3, <3>5 DEF Parts, key
  <2> DEFINE name == Name(x)
             P == Parts(T, "_")
  <2> HIDE DEF name, P
  <2>3. name \in Seq(Seq(Token)) /\ \A k \in DOMAIN name : name[k] \in P
    BY <2>1, <2>2 DEF name, P
  <2>4. name \in Seq(P)
    BY <2>3
  <2> QED BY <2>1, <2>4 DEF name, P
<1>2. ASSUME NEW x \in Caps, ValidName(x)
      PROVE  J(x) = <<"_">> \o ToolName[x] /\ Split(J(x), "_") = Name(x)
  <2>1. Name(x) \in Seq(Parts(T, "_")) /\ Name(x) # <<>> /\ "_" \in T
    BY <1>1, <1>2
  <2>2. Name(x) \in Seq(Seq(T))
    <3>1. Parts(T, "_") \subseteq Seq(T)
      BY DEF Parts
    <3> DEFINE P == Parts(T, "_")
               Q == Seq(T)
    <3> HIDE DEF P, Q
    <3>2. P \subseteq Q /\ Name(x) \in Seq(P)
      BY <2>1, <3>1 DEF P, Q
    <3>3. Name(x) \in Seq(Q)
      BY <3>2
    <3> QED BY <3>3 DEF Q
  <2> HIDE DEF T
  <2>3. J(x) \in Seq(T) /\ J(x) # <<>> /\ Head(J(x)) = "_"
    BY <2>1, <2>2, JoinedHead
  <2>4. ToolName[x] = Tail(J(x))
    BY DEF ToolName
  <2> DEFINE j == J(x)
  <2> HIDE DEF j
  <2>5. j \in Seq(T) /\ j # <<>> /\ Head(j) = "_"
    BY <2>3 DEF j
  <2>6. j = <<Head(j)>> \o Tail(j)
    <3>1. Len(j) \in Nat /\ Len(j) > 0 /\ Head(j) = j[1]
      BY <2>5, NonEmpty
    <3>2. SubSeq(j, 1, Len(j)) = j /\ Tail(j) = SubSeq(j, 2, Len(j))
      BY <2>5, SubSeqFull, TailIsSubSeq
    <3>3. SubSeq(j, 1, Len(j)) = <<j[1]>> \o SubSeq(j, 1 + 1, Len(j))
      <4>1. 1 \in 1 .. Len(j) /\ Len(j) \in 1 .. Len(j)
        BY <3>1
      <4> QED BY <2>5, <4>1, SubSeqRecursiveFirst
    <3> QED BY <3>1, <3>2, <3>3
  <2>7. Split(J(x), "_") = Name(x)
    BY <2>1, SplitJoined
  <2> QED BY <2>4, <2>5, <2>6, <2>7 DEF j
<1>3. Name(c) = Name(d)
    BY <1>2
<1> QED BY <1>3, GatewayAssumption DEF Name

-----------------------------------------------------------------------------
(* What a call of c is to end in that S rejects, and that carries args: the *)
(* parts of CallsArrive and SameOutcome, with the status that a surface     *)
(* gives to null.                                                           *)
RunOf(c, S) == Run(Promised(c), S)
Free(c, S) == ToSet(Promised(c)) \intersect S = {}

\* Where the layers of a run are, and the resolvers that went on before it ended.
Places(run) == Only([i \in DOMAIN run |-> i], {i \in DOMAIN run : run[i] \in Layers})
Resumed(run) == {i \in DOMAIN run : run[i] \in Caps /\ Def[run[i]].resumes = Last(run)}
Waits(place, run) == \A resolver \in Resumed(run) : place < resolver

RecordedAs(records, run, status) ==
    /\ Len(records) = Len(Places(run))
    /\ \A i \in DOMAIN records :
          LET place == Reverse(Places(run))[i]
          IN  /\ records[i].by = run[place]
              /\ records[i].level = "error" <=>
                    /\ Waits(place, run)
                    /\ IF records[i].by = "loggingEnhancer" THEN status = 500 ELSE status >= 300

StatusOf(step) ==
    CASE step = "mustBeAuthenticated" -> 401 [] step \in Caps \union Resumptions -> 500 [] OTHER -> 403

SeenAs(c, seen, args) ==
    Def[c].input.given => Restricted(seen, DOMAIN Def[c].input.shape) = Parsed(Def[c].input.shape, args)

Arrived(answer, c, args, nullStatus) ==
    /\ answer.status = IF answer.data = "null" THEN nullStatus ELSE 200
    /\ SeenAs(c, answer.seen, args)
    /\ answer.data = "null" <=> Def[c].returns = "null"

Lands(answer, c, args, S, nullStatus) ==
    /\ DOMAIN answer = DOMAIN NoAnswer /\ answer.by = c
    /\ RecordedAs(answer.records, RunOf(c, S), answer.status)
    /\ IF Free(c, S) THEN Arrived(answer, c, args, nullStatus)
       ELSE answer.status = StatusOf(Last(RunOf(c, S))) /\ answer.data # "null"

\* Of the input that a surface makes of args, what the schema looks at.
Agree(shape, input, args) ==
    \A f \in DOMAIN shape : /\ f \in DOMAIN input <=> f \in DOMAIN args
                            /\ f \in DOMAIN args => input[f] = args[f]

(* A run takes its steps from the pipeline, and ends at a rejecting one     *)
(* exactly if there is one.                                                 *)
LEMMA RunStops ==
    ASSUME NEW T, NEW steps \in Seq(T), NEW S, NEW stops, stops = {i \in DOMAIN steps : steps[i] \in S}, stops # {}
    PROVE  \E first \in stops : /\ \A j \in stops : first <= j
                               /\ Run(steps, S) = SubSeq(steps, 1, first)
<1> DEFINE first == CHOOSE i \in stops : \A j \in stops : i <= j
<1>1. PICK last \in stops : TRUE
    OBVIOUS
<1>2. stops \subseteq Nat /\ \A l \in stops : 0 < l
    OBVIOUS
<1>3. \E j \in stops : \A l \in stops : j <= l
    BY <1>1, <1>2, LeastAbove
<1>4. first \in stops /\ \A j \in stops : first <= j
    BY <1>3
<1>5. Run(steps, S) = SubSeq(steps, 1, first)
    BY DEF Run
<1> QED BY <1>4, <1>5

LEMMA RunType ==
    ASSUME NEW T, NEW steps \in Seq(T), steps # <<>>, NEW S
    PROVE  /\ Run(steps, S) \in Seq(T) /\ Run(steps, S) # <<>>
           /\ Last(Run(steps, S)) \in T
           /\ Last(Run(steps, S)) \in S <=> ToSet(steps) \intersect S # {}
<1> DEFINE ran == Run(steps, S)
           stops == {i \in DOMAIN steps : steps[i] \in S}
           n == Len(steps)
<1>1. n \in Nat /\ DOMAIN steps = 1 .. n /\ n > 0
    BY EmptySeq
<1>2. ran # <<>> /\ IsPrefix(ran, steps) /\ (Last(ran) \notin S => ran = steps)
    BY RunIs
<1>3. CASE stops = {}
  <2>1. ran = steps
    BY <1>3 DEF Run
  <2>2. Last(steps) \in T /\ Last(steps) \notin S /\ ToSet(steps) \intersect S = {}
    BY <1>1, <1>3 DEF Last, ToSet
  <2> QED BY <1>2, <2>1, <2>2
<1>4. CASE stops # {}
  <2>1. PICK first \in stops : ran = SubSeq(steps, 1, first)
    BY <1>4, RunStops
  <2>2. first \in 1 .. n /\ steps[first] \in S
    BY <1>1, <2>1
  <2>3. ran \in Seq(T) /\ Len(ran) = first /\ ran[first] = steps[first]
    BY <1>1, <2>1, <2>2
  <2>4. Last(ran) = steps[first] /\ steps[first] \in ToSet(steps) /\ steps[first] \in T
    BY <1>1, <2>2, <2>3 DEF Last, ToSet
  <2> QED BY <1>2, <2>2, <2>3, <2>4
<1> QED BY <1>3, <1>4

(* The places of the layers, in the order in which the run enters them; the *)
(* ones that still wait when it ends come first.                            *)
LEMMA PlacesAre ==
    ASSUME NEW T, NEW ran \in Seq(T)
    PROVE  /\ Places(ran) \in Seq(1 .. Len(ran)) /\ Len(Only(ran, Layers)) = Len(Places(ran))
           /\ \A k \in 1 .. Len(Places(ran)) : /\ Only(ran, Layers)[k] = ran[Places(ran)[k]]
                                              /\ ran[Places(ran)[k]] \in Layers
<1> DEFINE D == 1 .. Len(ran)
           G == {i \in DOMAIN ran : ran[i] \in Layers}
           indices == [i \in D |-> i]
<1>1. DOMAIN ran = D /\ indices \in Seq(D) /\ Len(indices) = Len(ran) /\ DOMAIN indices = D
    OBVIOUS
<1>2. Places(ran) = Only(indices, G)
    BY <1>1 DEF Places
<1>3. Mapped(ran, indices) = ran
  <2>1. Mapped(ran, indices) = [i \in D |-> ran[i]]
    BY <1>1 DEF Mapped
  <2> QED BY <1>1, <2>1
<1>4. \A i \in D : i \in G <=> ran[i] \in Layers
    BY <1>1
<1> HIDE DEF D, G, indices
<1>5. Only(ran, Layers) = Mapped(ran, Only(indices, G))
  <2>1. Only(Mapped(ran, indices), Layers) = Mapped(ran, Only(indices, G))
    BY <1>1, <1>4, OnlyImage, SMTT(30)
  <2> QED BY <1>3, <2>1
<1>6. Only(indices, G) \in Seq(D) /\ ToSet(Only(indices, G)) \subseteq G
    BY <1>1, OnlyType
<1> DEFINE places == Places(ran)
<1>7. places \in Seq(D) /\ ToSet(places) \subseteq G /\ Only(ran, Layers) = [k \in DOMAIN places |-> ran[places[k]]]
    BY <1>2, <1>5, <1>6 DEF Mapped
<1> HIDE DEF places
<1>8. DOMAIN places = 1 .. Len(places) /\ \A k \in 1 .. Len(places) : places[k] \in D
    BY <1>7
<1>9. \A k \in 1 .. Len(places) : ran[places[k]] \in Layers
    BY <1>4, <1>7, <1>8 DEF ToSet
<1>10. Only(ran, Layers) = [k \in 1 .. Len(places) |-> ran[places[k]]] /\ Len(places) \in Nat
    BY <1>7, <1>8
<1>11. Len(Only(ran, Layers)) = Len(places) /\ \A k \in 1 .. Len(places) : Only(ran, Layers)[k] = ran[places[k]]
    BY <1>10
<1> QED BY <1>7, <1>9, <1>11 DEF places, D

LEMMA WaitingAre ==
    ASSUME NEW T, NEW ran \in Seq(T)
    PROVE  LET m == Len(Only(Waiting(ran), Layers))
           IN  /\ m \in Nat /\ m <= Len(Places(ran))
               /\ \A k \in 1 .. Len(Places(ran)) : k <= m <=> Waits(Places(ran)[k], ran)
<1> DEFINE n == Len(ran)
           D == 1 .. n
           G == {i \in DOMAIN ran : ran[i] \in Layers}
           S == {c \in Caps : Def[c].resumes = Last(ran)}
           indices == [i \in D |-> i]
           stops == Resumed(ran)
           places == Places(ran)
           m == Len(Only(Waiting(ran), Layers))
<1>1. n \in Nat /\ DOMAIN ran = D /\ indices \in Seq(D) /\ Len(indices) = n
    OBVIOUS
<1>2. stops = {i \in DOMAIN ran : ran[i] \in S} /\ Waiting(ran) = Run(ran, S)
    BY DEF Resumed, Waiting
<1>3. places \in Seq(D) /\ Len(places) \in Nat /\ Len(Only(ran, Layers)) = Len(places)
    BY PlacesAre
<1>4. CASE stops = {}
  <2>1. Waiting(ran) = ran
    BY <1>2, <1>4 DEF Run
  <2> QED BY <1>3, <1>4, <2>1 DEF Waits
<1>5. CASE stops # {}
  <2>1. PICK cut \in stops : (\A j \in stops : cut <= j) /\ Run(ran, S) = SubSeq(ran, 1, cut)
    <3> HIDE DEF stops, S
    <3> QED BY <1>2, <1>5, RunStops
  <2>2. cut \in D /\ ran[cut] \in Caps
    BY <1>1 DEF Resumed
  <2> DEFINE a == SubSeq(indices, 1, cut)
             b == SubSeq(indices, cut + 1, n)
  <2>3. /\ a \in Seq(D) /\ Len(a) = cut /\ \A i \in 1 .. cut : a[i] = i
        /\ b \in Seq(D) /\ Len(b) = n - cut /\ \A i \in 1 .. n - cut : b[i] = cut + i
    <3>1. cut \in Int /\ n \in Int /\ cut + 1 \in Int /\ 1 \in Int /\ cut <= n /\ 1 <= cut
      BY <1>1, <2>2
    <3>2. \A i \in 1 .. n : i \in D /\ indices[i] = i
      OBVIOUS
    <3> HIDE DEF indices, D
    <3>3. a \in Seq(D) /\ Len(a) = cut /\ \A i \in 1 .. cut : a[i] = indices[i]
      <4>1. \A i \in 1 .. cut : indices[i] \in D
        BY <3>1, <3>2
      <4>2. /\ a \in Seq(D) /\ Len(a) = IF 1 <= cut THEN cut - 1 + 1 ELSE 0
            /\ \A i \in 1 .. cut - 1 + 1 : a[i] = indices[1 + i - 1]
        BY <3>1, <4>1, SubSeqProperties
      <4>3. \A i \in 1 .. cut : i \in 1 .. cut - 1 + 1 /\ 1 + i - 1 = i
        BY <3>1
      <4> QED BY <3>1, <4>2, <4>3
    <3>4. b \in Seq(D) /\ Len(b) = n - cut /\ \A i \in 1 .. n - cut : b[i] = indices[cut + i]
      <4>1. \A i \in cut + 1 .. n : indices[i] \in D
        BY <3>1, <3>2
      <4>2. /\ b \in Seq(D) /\ Len(b) = IF cut + 1 <= n THEN n - (cut + 1) + 1 ELSE 0
            /\ \A i \in 1 .. n - (cut + 1) + 1 : b[i] = indices[(cut + 1) + i - 1]
        BY <3>1, <4>1, SubSeqProperties
      <4>3. \A i \in 1 .. n - cut : i \in 1 .. n - (cut + 1) + 1 /\ (cut + 1) + i - 1 = cut + i
        BY <3>1
      <4> QED BY <3>1, <4>2, <4>3
    <3>5. \A i \in 1 .. cut : i \in 1 .. n
      BY <3>1
    <3>6. \A i \in 1 .. n - cut : cut + i \in 1 .. n
      BY <3>1
    <3> QED BY <3>2, <3>3, <3>4, <3>5, <3>6
  <2>4. cut \in Nat /\ 0 < cut /\ cut <= n
    BY <1>1, <2>2
  <2> HIDE DEF a, b
  <2>5. indices = a \o b
    <3> DEFINE ab == a \o b
    <3>1. ab \in Seq(D) /\ Len(ab) = n /\ \A i \in 1 .. n : ab[i] = IF i <= cut THEN a[i] ELSE b[i - cut]
      <4>1. /\ ab \in Seq(D) /\ Len(ab) = Len(a) + Len(b)
            /\ \A i \in 1 .. Len(a) + Len(b) : ab[i] = IF i <= Len(a) THEN a[i] ELSE b[i - Len(a)]
        BY <2>3, ConcatProperties
      <4>2. Len(a) + Len(b) = n /\ Len(a) = cut
        BY <1>1, <2>3, <2>4
      <4> QED BY <4>1, <4>2
    <3> HIDE DEF ab
    <3>2. ASSUME NEW i \in 1 .. n PROVE ab[i] = i
      <4>1. CASE i <= cut
        <5>1. i \in 1 .. cut
          BY <2>4, <4>1
        <5> QED BY <2>3, <3>1, <4>1, <5>1
      <4>2. CASE ~(i <= cut)
        <5>1. i - cut \in 1 .. n - cut /\ cut + (i - cut) = i
          BY <1>1, <2>4, <4>2
        <5> QED BY <2>3, <3>1, <4>2, <5>1
      <4> QED BY <4>1, <4>2
    <3>3. ab = [i \in 1 .. n |-> ab[i]]
      BY <1>1, <3>1
    <3>4. ab = indices
      BY <3>2, <3>3
    <3> QED BY <3>4 DEF ab
  <2> DEFINE oa == Only(a, G)
             ob == Only(b, G)
  <2>6. places = oa \o ob
    <3>1. places = Only(indices, G)
      BY <1>1 DEF Places
    <3> HIDE DEF indices, D, G
    <3> QED BY <2>3, <2>5, <3>1, OnlyConcat, SMTT(30)
  <2>7. Mapped(ran, a) = SubSeq(ran, 1, cut)
    <3> DEFINE w == SubSeq(ran, 1, cut)
    <3>1. w \in Seq(T) /\ Len(w) = cut /\ \A i \in 1 .. cut : w[i] = ran[i]
      BY <1>1, <2>4
    <3>2. DOMAIN a = 1 .. cut
      BY <2>3, <2>4
    <3> HIDE DEF w
    <3>3. Mapped(ran, a) = [i \in 1 .. cut |-> w[i]]
      BY <2>3, <3>1, <3>2 DEF Mapped
    <3>4. w = [i \in 1 .. cut |-> w[i]]
      BY <3>1
    <3> QED BY <3>3, <3>4 DEF w
  <2>8. oa \in Seq(D) /\ ToSet(oa) = ToSet(a) \cap G /\ ob \in Seq(D) /\ ToSet(ob) = ToSet(b) \cap G
    <3> HIDE DEF D, G
    <3> QED BY <2>3, OnlyType
  <2>9. Only(Waiting(ran), Layers) = Mapped(ran, oa)
    <3>1. \A i \in D : i \in G <=> ran[i] \in Layers
      BY <1>1
    <3> HIDE DEF D, G, S
    <3>2. Only(Mapped(ran, a), Layers) = Mapped(ran, oa)
      BY <2>3, <3>1, OnlyImage
    <3> QED BY <1>2, <2>1, <2>7, <3>2
  <2> HIDE DEF oa, ob
  <2>10. Len(oa) \in Nat /\ DOMAIN oa = 1 .. Len(oa) /\ Len(ob) \in Nat /\ DOMAIN ob = 1 .. Len(ob)
    BY <2>8
  <2>11. m = Len(oa)
    <3>1. Mapped(ran, oa) = [k \in 1 .. Len(oa) |-> ran[oa[k]]]
      BY <2>10 DEF Mapped
    <3> QED BY <2>9, <2>10, <3>1
  <2>12. ASSUME NEW k \in 1 .. Len(oa) PROVE oa[k] \in D /\ \A resolver \in stops : oa[k] < resolver
    <3>1. oa[k] \in ToSet(a) /\ oa[k] \in G
      BY <2>8, <2>10 DEF ToSet
    <3>2. oa[k] \in 1 .. cut
      BY <2>3, <2>4, <3>1 DEF ToSet
    <3>3. oa[k] # cut
      <4>1. Layers \intersect Caps = {}
        BY GatewayAssumption
      <4> QED BY <2>2, <3>1, <4>1
    <3>4. oa[k] < cut
      BY <2>4, <3>2, <3>3
    <3>5. \A resolver \in stops : resolver \in Nat /\ cut <= resolver
      BY <1>1, <2>1 DEF Resumed
    <3> QED BY <1>1, <2>4, <3>2, <3>4, <3>5
  <2>13. ASSUME NEW k \in 1 .. Len(ob) PROVE ob[k] \in D /\ ~(ob[k] < cut)
    <3>1. ob[k] \in ToSet(b)
      BY <2>8, <2>10 DEF ToSet
    <3>2. PICK i \in 1 .. n - cut : ob[k] = b[i]
      <4>1. DOMAIN b = 1 .. n - cut
        BY <2>3
      <4> QED BY <3>1, <4>1 DEF ToSet
    <3>3. ob[k] = cut + i
      BY <2>3, <3>2
    <3> QED BY <1>1, <2>4, <3>3
  <2>14. /\ Len(places) = Len(oa) + Len(ob)
         /\ \A k \in 1 .. Len(oa) + Len(ob) : places[k] = IF k <= Len(oa) THEN oa[k] ELSE ob[k - Len(oa)]
    BY <2>6, <2>8, ConcatProperties
  <2> HIDE DEF places, m, D, stops
  <2>15. ASSUME NEW k \in 1 .. Len(places) PROVE k <= m <=> \A resolver \in stops : places[k] < resolver
    <3>1. CASE k <= m
      <4>1. k \in 1 .. Len(oa) /\ places[k] = oa[k]
        BY <2>10, <2>11, <2>14, <3>1
      <4> QED BY <2>12, <3>1, <4>1
    <3>2. CASE ~(k <= m)
      <4>1. k - Len(oa) \in 1 .. Len(ob) /\ places[k] = ob[k - Len(oa)]
        BY <2>10, <2>11, <2>14, <3>2
      <4> QED BY <2>13, <3>2, <4>1
    <3> QED BY <3>1, <3>2
  <2> QED BY <2>10, <2>11, <2>14, <2>15 DEF Waits, places, m, stops
<1> QED BY <1>4, <1>5

(* The layers record once each: a success if they were done before the end, *)
(* else what the caller is told.                                            *)
LEMMA RecordsAre ==
    ASSUME NEW T, NEW ran \in Seq(T), NEW err, err.status \in Nat, err.branded \in BOOLEAN,
           err = NoError <=> err.status < 300, ~err.branded /\ err # NoError <=> err.status = 500
    PROVE  RecordedAs(Records(ran, err), ran, err.status)
<1> DEFINE kept == Only(ran, Layers)
           entered == Reverse(kept)
           places == Places(ran)
           n == Len(places)
           m == Len(Only(Waiting(ran), Layers))
           records == Records(ran, err)
           Told(i) == IF i <= n - m THEN NoError ELSE err
<1>1. /\ places \in Seq(1 .. Len(ran)) /\ Len(kept) = n /\ n \in Nat
      /\ \A k \in 1 .. n : kept[k] = ran[places[k]] /\ ran[places[k]] \in Layers
    BY PlacesAre, SMTT(30)
<1>2. m \in Nat /\ m <= n /\ \A k \in 1 .. n : k <= m <=> Waits(places[k], ran)
    BY WaitingAre
<1>3. Reverse(places) = [i \in 1 .. n |-> places[(n - i) + 1]] /\ entered = [i \in 1 .. n |-> kept[(n - i) + 1]]
    BY <1>1 DEF Reverse
<1>4. DOMAIN entered = 1 .. n /\ Len(entered) = n /\ \A i \in 1 .. n : entered[i] = kept[(n - i) + 1]
    BY <1>1, <1>3
<1>5. \A layer \in Layers, e \in {err, NoError} :
          /\ RecordOf(layer, e).by = layer
          /\ RecordOf(layer, e).level = "error" <=>
                e = err /\ IF layer = "loggingEnhancer" THEN err.status = 500 ELSE err.status >= 300
  <2>1. ASSUME NEW layer \in Layers, NEW e
        PROVE  /\ RecordOf(layer, e).by = layer
               /\ RecordOf(layer, e).level = "error" <=>
                     e # NoError /\ (layer = "loggingEnhancer" => ~IsFrameworkError(e))
    BY DEF Layers, RecordOf, WithLogging, WithMetrics, LoggingEnhancer, Record
  <2>2. NoError.status = 200
    BY DEF NoError
  <2> QED BY <2>1, <2>2 DEF IsFrameworkError
<1> HIDE DEF kept, entered, places, m, n
<1>6. records = [i \in 1 .. n |-> RecordOf(entered[i], Told(i))]
    BY <1>4 DEF Records, entered, kept, m
<1> HIDE DEF records
<1>7. Len(records) = n /\ DOMAIN records = 1 .. n
    BY <1>1, <1>6
<1>8. ASSUME NEW i \in 1 .. n
      PROVE  LET place == Reverse(places)[i]
             IN  /\ records[i].by = ran[place]
                 /\ records[i].level = "error" <=>
                       /\ Waits(place, ran)
                       /\ IF records[i].by = "loggingEnhancer" THEN err.status = 500 ELSE err.status >= 300
  <2> DEFINE k == (n - i) + 1
             e == Told(i)
  <2>1. k \in 1 .. n /\ (k <= m <=> ~(i <= n - m))
    BY <1>1, <1>2
  <2>2. Reverse(places)[i] = places[k]
    BY <1>3
  <2>3. entered[i] = ran[places[k]] /\ entered[i] \in Layers
    BY <1>1, <1>4, <2>1
  <2>4. records[i] = RecordOf(entered[i], e)
    BY <1>6
  <2>5. e = IF Waits(places[k], ran) THEN err ELSE NoError
    BY <1>2, <2>1
  <2> HIDE DEF e, k
  <2>6. CASE Waits(places[k], ran)
    BY <1>5, <2>2, <2>3, <2>4, <2>5, <2>6
  <2>7. CASE ~Waits(places[k], ran)
    <3>1. NoError.status = 200
      BY DEF NoError
    <3>2. NoError = err => err.status < 300 /\ err.status # 500
      BY <3>1
    <3> QED BY <1>5, <2>2, <2>3, <2>4, <2>5, <2>7, <3>2
  <2> QED BY <2>6, <2>7
<1> QED BY <1>7, <1>8 DEF RecordedAs, records, places, n

(* What agrees with typed arguments is accepted, and read as they are.      *)
LEMMA TypedIsValid ==
    ASSUME NEW c, NEW args, Typed(c, args), NEW input, Agree(InputShape(c), input, args)
    PROVE  Valid(c, input)
<1> DEFINE shape == Def[c].input.shape
<1> SUFFICES ASSUME Def[c].input.given PROVE Accepts(shape, input)
    BY DEF Valid
<1>1. InputShape(c) = shape
    BY DEF InputShape
<1>2. ASSUME NEW f \in DOMAIN shape
      PROVE  IF f \in DOMAIN input THEN FieldAccepts(shape[f], input[f]) \/ Wrapped(shape[f], {"catch"})
             ELSE FieldMayMiss(shape[f])
  <2>1. (f \in DOMAIN input <=> f \in DOMAIN args) /\ (f \in DOMAIN args => input[f] = args[f])
    BY <1>1 DEF Agree
  <2>2. f \in DOMAIN args => FieldAccepts(shape[f], args[f])
    BY <1>1 DEF Typed
  <2>3. f \notin DOMAIN args => FieldMayMiss(shape[f])
    BY <1>1 DEF Typed
  <2> QED BY <2>1, <2>2, <2>3
<1> QED BY <1>2 DEF Accepts

LEMMA ParsedAlike ==
    ASSUME NEW shape, NEW input, NEW args, Agree(shape, input, args)
    PROVE  Parsed(shape, input) = Parsed(shape, args)
<1> DEFINE filled(x) == {f \in DOMAIN shape \ DOMAIN x : Wrapped(shape[f], {"default", "prefault", "catch"})}
           D(x) == (DOMAIN shape \intersect DOMAIN x) \union filled(x)
           At(x, f) == IF f \in DOMAIN x /\ FieldAccepts(shape[f], x[f]) THEN x[f] ELSE Fallback(shape[f])
<1>1. filled(input) = filled(args) /\ DOMAIN shape \intersect DOMAIN input = DOMAIN shape \intersect DOMAIN args
    BY DEF Agree
<1>2. D(input) = D(args)
    BY <1>1
<1>3. \A f \in D(args) : At(input, f) = At(args, f)
    BY DEF Agree
<1>4. Parsed(shape, input) = [f \in D(input) |-> At(input, f)] /\ Parsed(shape, args) = [f \in D(args) |-> At(args, f)]
    BY DEF Parsed
<1> HIDE DEF D, At
<1> QED BY <1>2, <1>3, <1>4

LEMMA RestrictedIs ==
    ASSUME NEW f, NEW S
    PROVE  /\ DOMAIN Restricted(f, S) = DOMAIN f \intersect S
           /\ \A x \in DOMAIN f \intersect S : Restricted(f, S)[x] = f[x]
           /\ DOMAIN f \subseteq S => Restricted(f, S) = [x \in DOMAIN f |-> f[x]]
<1>1. Restricted(f, S) = [x \in DOMAIN f \intersect S |-> f[x]]
    BY DEF Restricted, Restrict
<1>2. DOMAIN f \subseteq S => DOMAIN f \intersect S = DOMAIN f
    OBVIOUS
<1> QED BY <1>1, <1>2

LEMMA SeenIs ==
    ASSUME NEW c, NEW args, NEW input, Agree(InputShape(c), input, args)
    PROVE  SeenAs(c, Seen(c, input), args)
<1> DEFINE shape == Def[c].input.shape
<1> SUFFICES ASSUME Def[c].input.given
             PROVE  Restricted(Seen(c, input), DOMAIN shape) = Parsed(shape, args)
    BY DEF SeenAs
<1>1. InputShape(c) = shape
    BY DEF InputShape
<1>2. Parsed(shape, input) = Parsed(shape, args)
    BY <1>1, ParsedAlike
<1>3. DOMAIN Parsed(shape, args) \subseteq DOMAIN shape
      /\ Parsed(shape, args) = [f \in DOMAIN Parsed(shape, args) |-> Parsed(shape, args)[f]]
    BY DEF Parsed
<1>4. CASE SkipsValidation(c)
  <2>1. DOMAIN shape = {}
    BY <1>4 DEF SkipsValidation
  <2>2. Seen(c, input) = input
    BY <1>4 DEF Seen
  <2>3. DOMAIN Parsed(shape, args) = {}
    BY <1>3, <2>1
  <2>4. Restricted(input, DOMAIN shape) = [f \in {} |-> input[f]]
    <3>1. DOMAIN input \intersect DOMAIN shape = {}
      BY <2>1
    <3> QED BY <3>1 DEF Restricted, Restrict
  <2>5. Parsed(shape, args) = [f \in {} |-> Parsed(shape, args)[f]]
    BY <1>3, <2>3
  <2> QED BY <2>2, <2>4, <2>5
<1>5. CASE ~SkipsValidation(c)
  <2>1. Seen(c, input) = Parsed(shape, args)
    BY <1>2, <1>5 DEF Seen
  <2> HIDE DEF shape
  <2>2. Restricted(Parsed(shape, args), DOMAIN shape) = Parsed(shape, args)
    BY <1>3, RestrictedIs
  <2> QED BY <2>1, <2>2
<1> QED BY <1>4, <1>5

LEMMA ThrownIs ==
    ASSUME NEW step, step # "validate"
    PROVE  /\ Thrown(step).status = StatusOf(step) /\ Thrown(step).status \in {401, 403, 500}
           /\ Thrown(step).branded \in BOOLEAN /\ (Thrown(step).branded <=> Thrown(step).status # 500)
<1> DEFINE Bugs == Caps \union Resumptions
<1>1. "mustBeAuthenticated" \notin Bugs
    BY GatewayAssumption
<1>2. CASE step = "mustBeAuthenticated"
  <2>1. Thrown(step) = DefaultErrors.Unauthorized /\ StatusOf(step) = 401
    BY <1>1, <1>2 DEF Thrown, StatusOf
  <2>2. Thrown(step) = [status |-> 401, branded |-> TRUE]
    BY <2>1 DEF DefaultErrors, DefineError
  <2>3. Thrown(step).status = 401 /\ Thrown(step).branded = TRUE
    BY <2>2
  <2>4. Thrown(step).branded \in BOOLEAN /\ Thrown(step).branded
    BY <2>3, Zenon
  <2> QED BY <2>1, <2>3, <2>4
<1>3. CASE step \in Bugs
  <2>1. Thrown(step) = Unexpected /\ StatusOf(step) = 500
    BY <1>1, <1>3 DEF Thrown, StatusOf
  <2>2. Thrown(step).status = 500 /\ Thrown(step).branded = FALSE
    BY <2>1 DEF Unexpected
  <2> QED BY <2>1, <2>2, ZenonT(40)
<1>4. CASE step # "mustBeAuthenticated" /\ step \notin Bugs
  <2>1. Thrown(step) = DefaultErrors.Forbidden /\ StatusOf(step) = 403
    BY <1>4 DEF Thrown, StatusOf
  <2>2. Thrown(step) = [status |-> 403, branded |-> TRUE]
    BY <2>1 DEF DefaultErrors, DefineError
  <2>3. Thrown(step).status = 403 /\ Thrown(step).branded = TRUE
    BY <2>2
  <2>4. Thrown(step).branded \in BOOLEAN /\ Thrown(step).branded
    BY <2>3, Zenon
  <2> QED BY <2>1, <2>3, <2>4
<1> QED BY <1>2, <1>3, <1>4

(* The engine does with typed arguments what is promised of them.           *)
LEMMA EngineLands ==
    ASSUME BuildInv, registry = CompileRegistry(tree), NEW c \in DOMAIN registry, NEW args, Typed(c, args),
           NEW input, Agree(InputShape(c), input, args), NEW ctx, NEW rejecting, "validate" \notin rejecting
    PROVE  Lands(Invoke(c, input, ctx, rejecting), c, args, rejecting \union RejectedBy(ctx), 200)
<1> DEFINE S == rejecting \union RejectedBy(ctx)
           promised == Promised(c)
           ran == RunOf(c, S)
           last == Last(ran)
           err == IF last \in S THEN Thrown(last) ELSE NoError
           answer == Invoke(c, input, ctx, rejecting)
<1> SUFFICES Lands(answer, c, args, S, 200)
    OBVIOUS
<1>1. c \in DOMAIN tree /\ registry[c] = tree[c]
    BY DEF CompileRegistry, NamedCopy
<1>2. Pipeline(registry[c]) = promised /\ promised \in Seq(Deed) /\ promised # <<>>
    BY <1>1, PipelineIsPromise
<1>3. Stops(c, input, ctx, rejecting) = S
    BY TypedIsValid DEF Stops
<1>4. answer = Response(c, input, ran, err)
    BY <1>2, <1>3 DEF Invoke, Pass, Ended, RunOf
<1>5. ran \in Seq(Deed) /\ (last \in S <=> ~Free(c, S))
    BY <1>2, RunType DEF RunOf, Free
<1>6. "validate" \notin S
    BY DEF RejectedBy
<1> HIDE DEF S
<1> HIDE DEF last
<1>7. last \in S => err = Thrown(last) /\ err.status = StatusOf(last) /\ err.status \in {401, 403, 500}
                    /\ err.branded \in BOOLEAN /\ (err.branded <=> err.status # 500)
    BY <1>6, ThrownIs
<1>8. last \notin S => err = NoError /\ err.status = 200 /\ err.branded = FALSE
    BY DEF NoError
<1>9. RecordedAs(Records(ran, err), ran, err.status)
  <2>0. NoError.status = 200
    BY DEF NoError
  <2> HIDE DEF err, ran
  <2>3. CASE last \in S
    <3>1. err.status \in Nat /\ err.branded \in BOOLEAN /\ err # NoError /\ err.status >= 300
          /\ (~err.branded <=> err.status = 500)
      BY <1>7, <2>0, <2>3
    <3> QED BY <1>5, <3>1, RecordsAre
  <2>4. CASE last \notin S
    <3>1. err.status = 200 /\ err.branded \in BOOLEAN /\ err = NoError
      BY <1>8, <2>4
    <3> QED BY <1>5, <3>1, RecordsAre
  <2> QED BY <2>3, <2>4
<1> HIDE DEF err, ran, last
<1>10. DOMAIN answer = DOMAIN NoAnswer
    BY AnswersHaveFields
<1> DEFINE failed == [NoAnswer EXCEPT !.by = c, !.ran = ran, !.status = err.status, !.records = Records(ran, err)]
<1>11. failed.by = c /\ failed.status = err.status /\ failed.records = Records(ran, err) /\ failed.data = "none"
       /\ DOMAIN failed = {"status", "by", "ran", "seen", "records", "data", "match", "headers"}
    BY DEF NoAnswer
<1> HIDE DEF failed
<1>12. answer = IF err # NoError THEN failed
                ELSE [failed EXCEPT !.seen = Seen(c, input), !.data = IF Def[c].returns = "null" THEN "null" ELSE "everything"]
    BY <1>4 DEF Response, failed
<1> HIDE DEF answer
<1>13. answer.by = c /\ answer.status = err.status /\ answer.records = Records(ran, err)
    BY <1>11, <1>12
<1>14. CASE Free(c, S)
  <2>1. err = NoError /\ err.status = 200
    BY <1>5, <1>8, <1>14
  <2>2. answer.seen = Seen(c, input) /\ answer.data = IF Def[c].returns = "null" THEN "null" ELSE "everything"
    BY <1>11, <1>12, <2>1
  <2>3. SeenAs(c, answer.seen, args)
    BY <2>2, SeenIs
  <2>4. Arrived(answer, c, args, 200)
    BY <1>13, <2>1, <2>2, <2>3 DEF Arrived
  <2> QED BY <1>9, <1>10, <1>13, <1>14, <2>4 DEF Lands, ran
<1>15. CASE ~Free(c, S)
  <2>1. err.status = StatusOf(last) /\ err.status # 200 /\ NoError.status = 200
    BY <1>5, <1>7, <1>15 DEF NoError
  <2>2. answer.data = "none"
    BY <1>11, <1>12, <2>1
  <2> QED BY <1>9, <1>10, <1>13, <1>15, <2>1, <2>2 DEF Lands, ran, last
<1> QED BY <1>14, <1>15

-----------------------------------------------------------------------------
(* What the transports make of an answer of the engine.                     *)
HasData(answer) == answer.status = 200 => answer.data \in {"null", "everything"}

LEMMA EngineData == ASSUME NEW c, NEW input, NEW ctx, NEW rejecting
                    PROVE  HasData(Invoke(c, input, ctx, rejecting))
<1>1. ASSUME NEW ran, NEW err, err = NoError \/ err.status # 200 PROVE HasData(Response(c, input, ran, err))
  <2> DEFINE answer == Response(c, input, ran, err)
             failed == [NoAnswer EXCEPT !.by = c, !.ran = ran, !.status = err.status, !.records = Records(ran, err)]
  <2>1. failed.status = err.status /\ DOMAIN failed = {"status", "by", "ran", "seen", "records", "data", "match", "headers"}
    BY DEF NoAnswer
  <2> HIDE DEF failed
  <2>2. answer = IF err # NoError THEN failed
                 ELSE [failed EXCEPT !.seen = Seen(c, input), !.data = IF Def[c].returns = "null" THEN "null" ELSE "everything"]
    BY DEF Response, failed
  <2> QED BY <1>1, <2>1, <2>2 DEF HasData
<1>2. \A step : Thrown(step).status # 200
    BY DEF Thrown, DefaultErrors, DefineError, Unexpected
<1>3. \A S : HasData(Pass(c, input, S))
    BY <1>1, <1>2 DEF Pass, Ended
<1>4. Refusal(DefaultErrors.NotFound).status = 404
    BY DEF Refusal, Failed, NoAnswer, DefaultErrors, DefineError
<1>5. HasData(Refusal(DefaultErrors.NotFound))
    BY <1>4 DEF HasData
<1> QED BY <1>3, <1>5 DEF Invoke

(* Its levels tell no status below 300 from another.                        *)
LEMMA RecordedStays ==
    ASSUME NEW records, NEW run, RecordedAs(records, run, 200)
    PROVE  RecordedAs(records, run, 204)
BY DEF RecordedAs

LEMMA FieldsStay ==
    ASSUME NEW answer, DOMAIN answer = DOMAIN NoAnswer, NEW data, NEW later, later = [answer EXCEPT !.data = data]
    PROVE  /\ DOMAIN later = DOMAIN NoAnswer /\ later.data = data
           /\ later.by = answer.by /\ later.records = answer.records /\ later.status = answer.status
           /\ later.seen = answer.seen /\ later.ran = answer.ran
<1>1. DOMAIN answer = {"status", "by", "ran", "seen", "records", "data", "match", "headers"}
    BY DEF NoAnswer
<1> QED BY <1>1

LEMMA DataChanges ==
    ASSUME NEW answer, NEW c, NEW args, NEW S, NEW null, Lands(answer, c, args, S, null), NEW data,
           data # "null", answer.data # "null"
    PROVE  Lands([answer EXCEPT !.data = data], c, args, S, null)
<1> DEFINE later == [answer EXCEPT !.data = data]
<1>1. /\ DOMAIN later = DOMAIN NoAnswer /\ later.data = data
      /\ later.by = answer.by /\ later.records = answer.records /\ later.status = answer.status
      /\ later.seen = answer.seen
    BY FieldsStay DEF Lands
<1> HIDE DEF later
<1>2. Arrived(answer, c, args, null) => Arrived(later, c, args, null)
    BY <1>1 DEF Arrived
<1>3. Lands(later, c, args, S, null)
    BY <1>1, <1>2 DEF Lands
<1> QED BY <1>3 DEF later

LEMMA ErrorResultLands ==
    ASSUME NEW answer, NEW c, NEW args, NEW S, Lands(answer, c, args, S, 200)
    PROVE  Lands(ErrorResult(answer), c, args, S, 200)
<1>1. CASE answer.status = 200
    BY <1>1 DEF ErrorResult
<1>2. CASE answer.status # 200
  <2>1. answer.data # "null"
    BY <1>2 DEF Lands, Arrived
  <2> QED BY <1>2, <2>1, DataChanges DEF ErrorResult
<1> QED BY <1>1, <1>2

LEMMA StatusIsError == ASSUME NEW step PROVE StatusOf(step) \in {401, 403, 500}
BY DEF StatusOf

LEMMA RespondLands ==
    ASSUME NEW answer, NEW c, NEW args, NEW S, Lands(answer, c, args, S, 200)
    PROVE  Lands(Respond(c, answer), c, args, S, 204)
<1> DEFINE later == Respond(c, answer)
<1>1. CASE answer.data = "null"
  <2>1. Free(c, S) /\ Arrived(answer, c, args, 200) /\ answer.status = 200
    BY <1>1 DEF Lands, Arrived
  <2>2. later = [answer EXCEPT !.status = 204]
    BY <1>1 DEF Respond
  <2>3. DOMAIN answer = {"status", "by", "ran", "seen", "records", "data", "match", "headers"}
    BY DEF Lands, NoAnswer
  <2> HIDE DEF later
  <2>4. /\ DOMAIN later = DOMAIN answer /\ later.status = 204 /\ later.by = answer.by
        /\ later.records = answer.records /\ later.seen = answer.seen /\ later.data = answer.data
    BY <2>2, <2>3
  <2>5. RecordedAs(later.records, RunOf(c, S), later.status)
    BY <2>1, <2>4, RecordedStays DEF Lands
  <2>6. Arrived(later, c, args, 204)
    BY <1>1, <2>1, <2>4 DEF Arrived
  <2>7. Lands(later, c, args, S, 204)
    BY <2>1, <2>4, <2>5, <2>6 DEF Lands
  <2> QED BY <2>7 DEF later
<1>2. CASE answer.data # "null"
  <2>1. Lands(answer, c, args, S, 204)
    BY <1>2 DEF Lands, Arrived
  <2>2. later = answer \/ \E data : data # "null" /\ later = [answer EXCEPT !.data = data]
    <3>1. Serialize(registry[c]) # "null"
      BY DEF Serialize
    <3> QED BY <1>2, <3>1 DEF Respond
  <2> HIDE DEF later
  <2>3. Lands(later, c, args, S, 204)
    BY <1>2, <2>1, <2>2, DataChanges
  <2> QED BY <2>3 DEF later
<1> QED BY <1>1, <1>2

LEMMA FieldValueLands ==
    ASSUME NEW answer, NEW c, NEW args, NEW S, Lands(answer, c, args, S, 200), OutputFits(c)
    PROVE  Lands(FieldValue(registry[c], answer), c, args, S, 200)
<1>1. CASE answer.data = "null"
  <2>1. Def[c].returns = "null"
    BY <1>1 DEF Lands, Arrived
  <2>2. registry[c].output = "none" \/ Wrapped(Outputs[registry[c].output], {"nullable"})
    BY <2>1 DEF OutputFits
  <2>3. ~GqlOutputNonNull(registry[c])
    BY <2>2 DEF GqlOutputNonNull, Required, Wrapped
  <2> QED BY <1>1, <2>3 DEF FieldValue
<1>2. CASE answer.data # "null"
  <2>1. Serialize(registry[c]) # "null"
    BY DEF Serialize
  <2> QED BY <1>2, <2>1, DataChanges DEF FieldValue
<1> QED BY <1>1, <1>2

LEMMA ValidateOutputLands ==
    ASSUME NEW answer, NEW c, NEW args, NEW S, Lands(answer, c, args, S, 200), HasData(answer), OutputFits(c)
    PROVE  Lands(ValidateOutput(c, answer), c, args, S, 200)
<1>1. CASE answer.status # 200 \/ registry[c].output = "none"
    BY <1>1 DEF ValidateOutput
<1>2. CASE answer.status = 200 /\ registry[c].output # "none"
  <2>1. CASE answer.data = "null"
    <3>1. Def[c].returns = "null"
      BY <2>1 DEF Lands, Arrived
    <3>2. Wrapped(Outputs[registry[c].output], {"nullable"})
      BY <1>2, <3>1 DEF OutputFits
    <3> QED BY <1>2, <2>1, <3>2 DEF ValidateOutput
  <2>2. CASE answer.data = "everything"
    BY <1>2, <2>2, DataChanges DEF ValidateOutput
  <2> QED BY <1>2, <2>1, <2>2 DEF HasData
<1> QED BY <1>1, <1>2

-----------------------------------------------------------------------------
(* Each surface, while the server is up.                                    *)
Up == phase = "up" /\ GatewayInv /\ BuildInv /\ registry = CompileRegistry(tree)

LEMMA UpIs ==
    ASSUME Up
    PROVE  /\ DOMAIN registry = DOMAIN tree /\ DOMAIN tree \subseteq Caps
           /\ \A c \in DOMAIN registry : ValidName(c)
           /\ options \in Options /\ Table(routes) /\ ~RouterRefuses(routes)
           /\ routes = GenerateRoutes(DOMAIN registry, options.urlCase, options.overrides)
<1>1. DOMAIN registry = DOMAIN tree /\ DOMAIN tree \subseteq Caps
    BY DEF Up, CompileRegistry, GatewayInv
<1>2. Mounted
    BY DEF Up, GatewayInv
<1>3. ~InvalidKeys(tree) /\ routes = GenerateRoutes(DOMAIN tree, options.urlCase, options.overrides)
    BY <1>2 DEF Mounted, Up
<1>4. \A c \in DOMAIN tree : ValidName(c)
    BY <1>3 DEF InvalidKeys, ValidName
<1>5. options \in Options /\ Table(routes) /\ ~RouterRefuses(routes)
    BY UpIsTable DEF Up
<1> QED BY <1>1, <1>3, <1>4, <1>5

(* Every capability has one route.                                          *)
LEMMA RouteIsOne ==
    ASSUME NEW S \in SUBSET Caps, NEW urlCase, NEW overrides, NEW c \in S
    PROVE  LET R == GenerateRoutes(S, urlCase, overrides)
               r == RouteOf(c, R)
           IN  r \in R /\ r.cap = c /\ \A s \in R : s.cap \in S /\ (s.cap = c => s = r)
<1> DEFINE R == GenerateRoutes(S, urlCase, overrides)
           F(d) == IF d \in DOMAIN overrides THEN Route(overrides[d].method, overrides[d].path, d)
                   ELSE InferRoute(d, urlCase)
<1>1. R = {F(d) : d \in S}
    BY DEF GenerateRoutes
<1>2. ASSUME NEW d \in S PROVE F(d).cap = d
  <2>1. \A method, path : Route(method, path, d).cap = d
    BY DEF Route
  <2>2. \A g : MutationRoute(d, g, urlCase).cap = d
    BY <2>1 DEF MutationRoute
  <2>3. ResolveIntent(d) \in Intents
    <3>1. Def[d].intent \in Intents \union {"inferred"}
      BY GatewayAssumption
    <3> QED BY <3>1 DEF ResolveIntent, InferIntent, Intents
  <2>4. InferRoute(d, urlCase).cap = d
    BY <2>1, <2>2, <2>3 DEF InferRoute, Intents
  <2> QED BY <2>1, <2>4
<1> HIDE DEF F, R
<1>3. F(c) \in R /\ F(c).cap = c /\ \A s \in R : s.cap \in S /\ (s.cap = c => s = F(c))
    BY <1>1, <1>2
<1>4. RouteOf(c, R) \in R /\ RouteOf(c, R).cap = c
    BY <1>3 DEF RouteOf
<1>5. RouteOf(c, R) = F(c)
    BY <1>3, <1>4
<1> QED BY <1>3, <1>5 DEF R

(* Each name is one tool, one field and one operation.                      *)
LEMMA NamesFindTheirs ==
    ASSUME Up, NEW c \in DOMAIN registry
    PROVE  Tools(c) = {c} /\ GqlField(c) = {c} /\ Operation(c) = RouteOf(c, routes)
<1>1. \A d \in DOMAIN registry : ToolName[d] = ToolName[c] => d = c
    BY UpIs, ToolNamesAreDistinct
<1>2. LET r == RouteOf(c, routes)
      IN  r \in routes /\ r.cap = c /\ \A s \in routes : s.cap \in DOMAIN registry /\ (s.cap = c => s = r)
  <2>1. /\ DOMAIN registry \in SUBSET Caps
        /\ routes = GenerateRoutes(DOMAIN registry, options.urlCase, options.overrides)
    BY UpIs
  <2>2. LET R == GenerateRoutes(DOMAIN registry, options.urlCase, options.overrides)
            r == RouteOf(c, R)
        IN  r \in R /\ r.cap = c /\ \A s \in R : s.cap \in DOMAIN registry /\ (s.cap = c => s = r)
    BY <2>1, RouteIsOne
  <2> QED BY <2>1, <2>2
<1>3. Operation(c) \in routes /\ ToolName[Operation(c).cap] = ToolName[c]
    BY <1>2 DEF Operation
<1>4. Operation(c) = RouteOf(c, routes)
    BY <1>1, <1>2, <1>3
<1>5. Tools(c) = {c} /\ GqlField(c) = {c}
    BY <1>1 DEF Tools, GqlField
<1> QED BY <1>4, <1>5

(* A document with typed arguments is a valid one.                          *)
LEMMA TypedIsDocument ==
    ASSUME NEW c, NEW args, Typed(c, args), \A f \in DOMAIN args : args[f].type \notin {"object", "array"}
    PROVE  GqlAccepts(c, args) /\ Agree(InputShape(c), GqlArgs(c, args), args)
<1> DEFINE shape == InputShape(c)
<1>1. /\ DOMAIN args \subseteq DOMAIN shape /\ \A f \in DOMAIN args : FieldAccepts(shape[f], args[f])
      /\ \A f \in DOMAIN shape \ DOMAIN args : FieldMayMiss(shape[f])
    BY DEF Typed
<1> HIDE DEF shape
<1>2. ASSUME NEW field, FieldMayMiss(field) PROVE ~Required(field)
    BY <1>2 DEF FieldMayMiss, Required, GqlKnown, Wrapped, Primitive
<1>3. ASSUME NEW field, NEW v, FieldAccepts(field, v)
      PROVE  GqlInputType(field) \in {"json", v.type} \/ (v.type = "null" /\ ~Required(field))
    BY <1>3 DEF FieldAccepts, GqlInputType, Required, GqlKnown, Wrapped, Primitive
<1>4. GqlAccepts(c, args)
    BY <1>1, <1>2, <1>3 DEF GqlAccepts, shape
<1>5. DOMAIN GqlArgs(c, args) = DOMAIN args /\ \A f \in DOMAIN args : GqlArgs(c, args)[f] = args[f]
    BY DEF GqlArgs, ParseLiteral
<1> QED BY <1>4, <1>5 DEF Agree

LEMMA SameAgrees == ASSUME NEW shape, NEW args PROVE Agree(shape, args, args)
BY DEF Agree

\* What a typed call over a surface with the context ctx comes to.
Comes(answer, c, args, rejecting, ctx, null) == Lands(answer, c, args, rejecting \union RejectedBy(ctx), null)

LEMMA GraphQLLands ==
    ASSUME Up, NEW c \in DOMAIN registry, NEW args, Typed(c, args), NEW rejecting, "validate" \notin rejecting,
           NEW headers, OutputFits(c), \A f \in DOMAIN args : args[f].type \notin {"object", "array"}
    PROVE  Comes(GraphQL(c, args, headers, rejecting), c, args, rejecting, Context(NodeHeaders(headers)), 200)
<1> DEFINE ctx == Context(NodeHeaders(headers))
           S == rejecting \union RejectedBy(ctx)
           answer == Invoke(c, GqlArgs(c, args), ctx, rejecting)
<1>1. GqlField(c) = {c}
    BY NamesFindTheirs
<1>2. GraphQL(c, args, headers, rejecting) = FieldValue(registry[c], answer)
    BY <1>1, TypedIsDocument DEF GraphQL, ResolveField
<1>3. Lands(answer, c, args, S, 200)
    BY TypedIsDocument, EngineLands DEF Up
<1> HIDE DEF answer, S
<1>4. Lands(FieldValue(registry[c], answer), c, args, S, 200)
    BY <1>3, FieldValueLands
<1> QED BY <1>2, <1>4 DEF Comes, S

LEMMA McpLands ==
    ASSUME Up, NEW c \in DOMAIN registry, NEW args, Typed(c, args), NEW rejecting, "validate" \notin rejecting,
           NEW headers
    PROVE  Comes(Mcp(c, args, headers, rejecting), c, args, rejecting, Context(NodeHeaders(headers)), 200)
<1> DEFINE ctx == Context(NodeHeaders(headers))
           S == rejecting \union RejectedBy(ctx)
           answer == Invoke(c, args, ctx, rejecting)
<1>1. Tools(c) = {c}
    BY NamesFindTheirs
<1>2. Mcp(c, args, headers, rejecting) = ErrorResult(answer)
    BY <1>1 DEF Mcp, CallTool
<1>3. Lands(answer, c, args, S, 200)
    BY SameAgrees, EngineLands DEF Up
<1> HIDE DEF answer, S
<1>4. Lands(ErrorResult(answer), c, args, S, 200)
    BY <1>3, ErrorResultLands
<1> QED BY <1>2, <1>4 DEF Comes, S

LEMMA WsLands ==
    ASSUME Up, NEW c \in DOMAIN registry, NEW args, Typed(c, args), NEW rejecting, "validate" \notin rejecting,
           NEW headers
    PROVE  Comes(Ws(c, args, headers, rejecting), c, args, rejecting, Context(UpgradeHeaders(headers)), 200)
BY SameAgrees, EngineLands DEF Up, Ws, Comes

LEMMA DirectLands ==
    ASSUME Up, NEW c \in DOMAIN registry, NEW args, Typed(c, args), NEW rejecting, "validate" \notin rejecting,
           NEW headers, OutputFits(c)
    PROVE  Comes(Direct(c, args, headers, rejecting), c, args, rejecting,
                 BuildContext(options.builder, GivenHeaders(headers)), 200)
<1> DEFINE ctx == BuildContext(options.builder, GivenHeaders(headers))
           S == rejecting \union RejectedBy(ctx)
           answer == Invoke(c, args, ctx, rejecting)
<1>1. Lands(answer, c, args, S, 200)
    BY SameAgrees, EngineLands DEF Up
<1>2. HasData(answer)
    BY EngineData
<1>3. Direct(c, args, headers, rejecting) = ValidateOutput(c, answer)
    BY DEF Direct
<1> HIDE DEF answer, S
<1>4. Lands(ValidateOutput(c, answer), c, args, S, 200)
    BY <1>1, <1>2, ValidateOutputLands
<1> QED BY <1>3, <1>4 DEF Comes, S

(* A name that no capability has, and a path beside the endpoint.           *)
RanNothing(answer, path) == answer.ran = <<>> /\ (answer.status >= 400 \/ path = "playground")

LEMMA UnknownRunsNothing ==
    ASSUME NEW c, c \notin DOMAIN registry, NEW args, NEW headers, NEW rejecting, NEW path
    PROVE  /\ (\A d \in DOMAIN registry : ToolName[d] # ToolName[c]) =>
                 /\ RanNothing(GraphQLHandler(path, GraphQL(c, args, headers, rejecting)), path)
                 /\ RanNothing(McpHandler(path, Mcp(c, args, headers, rejecting)), path)
           /\ RanNothing(Ws(c, args, headers, rejecting), path)
           /\ RanNothing(Direct(c, args, headers, rejecting), path)
<1>1. \A status : Failed(status).status = status /\ Failed(status).ran = <<>> /\ DOMAIN Failed(status) = DOMAIN NoAnswer
    BY DEF Failed, NoAnswer
<1> DEFINE missing == Refusal(DefaultErrors.NotFound)
<1>2. missing = Failed(404)
    BY DEF Refusal, DefaultErrors, DefineError
<1> HIDE DEF missing
<1>3. \A input, ctx : Invoke(c, input, ctx, rejecting) = missing
    BY DEF Invoke, missing
<1>4. ASSUME NEW answer, answer.ran = <<>>, answer.status >= 400
      PROVE  RanNothing(GraphQLHandler(path, answer), path) /\ RanNothing(McpHandler(path, answer), path)
  <2>1. /\ [Failed(200) EXCEPT !.data = "page"].ran = <<>>
    BY DEF Failed, NoAnswer
  <2> QED BY <1>1, <1>4, <2>1 DEF RanNothing, GraphQLHandler, McpHandler
<1>5. ASSUME \A d \in DOMAIN registry : ToolName[d] # ToolName[c]
      PROVE  /\ RanNothing(GraphQLHandler(path, GraphQL(c, args, headers, rejecting)), path)
             /\ RanNothing(McpHandler(path, Mcp(c, args, headers, rejecting)), path)
  <2>1. GqlField(c) = {} /\ Tools(c) = {}
    BY <1>5 DEF GqlField, Tools
  <2>2. GraphQL(c, args, headers, rejecting) = Failed(400)
    BY <2>1 DEF GraphQL
  <2>3. Mcp(c, args, headers, rejecting) = ErrorResult(missing)
    BY <2>1 DEF Mcp, CallTool, missing
  <2>4. ErrorResult(missing).ran = <<>> /\ ErrorResult(missing).status = 404
    BY <1>1, <1>2, FieldsStay DEF ErrorResult
  <2> QED BY <1>1, <1>4, <2>2, <2>3, <2>4
<1>6. RanNothing(Ws(c, args, headers, rejecting), path)
    BY <1>1, <1>2, <1>3 DEF Ws, RanNothing
<1>7. RanNothing(Direct(c, args, headers, rejecting), path)
    BY <1>1, <1>2, <1>3 DEF Direct, ValidateOutput, RanNothing
<1> QED BY <1>5, <1>6, <1>7

LEMMA ElsewhereRunsNothing ==
    ASSUME NEW answer, NEW path, path \notin {"own", "slash"}
    PROVE  RanNothing(GraphQLHandler(path, answer), path) /\ RanNothing(McpHandler(path, answer), path)
<1>1. \A status : Failed(status).status = status /\ Failed(status).ran = <<>>
    BY DEF Failed, NoAnswer
<1>2. [Failed(200) EXCEPT !.data = "page"].ran = <<>>
    BY DEF Failed, NoAnswer
<1> QED BY <1>1, <1>2 DEF RanNothing, GraphQLHandler, McpHandler

-----------------------------------------------------------------------------
(* Text on its way: written without a separator, and read as it was.        *)
Writes(written, text) ==
    /\ written \in Seq(Token) /\ Len(written) = Len(text)
    /\ ToSet(written) \intersect {"/", "%"} = {} /\ Decode(written) = text

LEMMA EscapeIs ==
    /\ DOMAIN Escape = Special
    /\ \A t \in DOMAIN Escape : Escape[t] \in Escapes /\ Unescape[Escape[t]] = t
    /\ DOMAIN Unescape = Escapes
<1>1. DOMAIN Escape = Special
    BY DEF Escape
<1>2. /\ Escape[" "] = "%20" /\ Escape["/"] = "%2F" /\ Escape["%"] = "%25" /\ Escape["+"] = "%2B"
      /\ Escape["?"] = "%3F" /\ Escape["#"] = "%23" /\ Escape["backslash"] = "%5C" /\ Escape["newline"] = "%0A"
    BY DEF Escape, Special
<1>3. DOMAIN Unescape = Escapes
    BY DEF Unescape
<1>4. /\ Unescape["%20"] = " " /\ Unescape["%2F"] = "/" /\ Unescape["%25"] = "%" /\ Unescape["%2B"] = "+"
      /\ Unescape["%3F"] = "?" /\ Unescape["%23"] = "#" /\ Unescape["%5C"] = "backslash" /\ Unescape["%0A"] = "newline"
    BY DEF Unescape, Escapes
<1>5. \A t \in Special : Escape[t] \in Escapes /\ Unescape[Escape[t]] = t
    BY <1>2, <1>4 DEF Special, Escapes
<1> QED BY <1>1, <1>3, <1>5

LEMMA SpecialIs ==
    /\ {"/", "%"} \subseteq Marks /\ Marks \subseteq Special /\ Special \subseteq Token
    /\ Escapes \subseteq Token /\ Escapes \intersect Special = {}
<1>1. {"/", "%"} \subseteq Marks /\ Marks \subseteq Special
    BY DEF Marks, Special
<1>2. Escapes \intersect Special = {}
    BY DEF Escapes, Special
<1> QED BY <1>1, <1>2 DEF Token

LEMMA WithoutEscapes ==
    ASSUME NEW T, NEW U, NEW s \in Seq(T \ U)
    PROVE  s \in Seq(T) /\ \A i \in DOMAIN s : s[i] \in T \ U
OBVIOUS

LEMMA WritesIs ==
    ASSUME NEW text \in Seq(Token), NEW written, written = [i \in DOMAIN text |-> written[i]],
           \A i \in DOMAIN text : /\ written[i] \in Token /\ written[i] \notin {"/", "%"}
                                  /\ text[i] = IF written[i] \in Escapes THEN Unescape[written[i]] ELSE written[i]
    PROVE  Writes(written, text)
<1> DEFINE n == Len(text)
<1>1. n \in Nat /\ DOMAIN text = 1 .. n
    OBVIOUS
<1>2. written \in Seq(Token) /\ Len(written) = n
    BY <1>1
<1>3. ToSet(written) \intersect {"/", "%"} = {}
    BY <1>1, <1>2 DEF ToSet
<1>4. Decode(written) = [i \in 1 .. n |-> text[i]]
    BY <1>1, <1>2, EscapeIs, ZenonT(40) DEF Decode
<1>5. text = [i \in 1 .. n |-> text[i]]
    BY <1>1
<1> QED BY <1>2, <1>3, <1>4, <1>5 DEF Writes

(* encodeURIComponent writes any text; fetch one without slash and percent; *)
(* URLSearchParams one without a space.                                     *)
LEMMA EncodeWrites ==
    ASSUME NEW text \in Seq(Token \ Escapes)
    PROVE  Writes(EncodeComponent(text), text)
<1>1. text \in Seq(Token) /\ \A i \in DOMAIN text : text[i] \in Token \ Escapes
    OBVIOUS
<1>2. EncodeComponent(text) = [i \in DOMAIN text |-> EncodeComponent(text)[i]]
    BY DEF EncodeComponent
<1>3. ASSUME NEW i \in DOMAIN text
      PROVE  LET w == EncodeComponent(text)[i]
             IN  w \in Token /\ w \notin {"/", "%"} /\ text[i] = IF w \in Escapes THEN Unescape[w] ELSE w
  <2>1. EncodeComponent(text)[i] = IF text[i] \in DOMAIN Escape THEN Escape[text[i]] ELSE text[i]
    BY DEF EncodeComponent
  <2>2. Escapes \subseteq Token /\ Escapes \intersect Special = {} /\ {"/", "%"} \subseteq Special
    BY SpecialIs
  <2> QED BY <1>1, <2>1, <2>2, EscapeIs
<1> HIDE DEF EncodeComponent
<1> QED BY <1>1, <1>2, <1>3, WritesIs

LEMMA PathWrites ==
    ASSUME NEW text \in Seq(Token \ Escapes), ToSet(text) \intersect Marks \subseteq {" "}
    PROVE  Writes(PathEncoded(text), text)
<1>1. text \in Seq(Token) /\ \A i \in DOMAIN text : text[i] \in Token \ Escapes
    BY WithoutEscapes
<1>2. PathEncoded(text) = [i \in DOMAIN text |-> PathEncoded(text)[i]]
    BY DEF PathEncoded
<1>3. ASSUME NEW i \in DOMAIN text
      PROVE  LET w == PathEncoded(text)[i]
             IN  w \in Token /\ w \notin {"/", "%"} /\ text[i] = IF w \in Escapes THEN Unescape[w] ELSE w
  <2>1. text[i] \notin {"/", "%", "backslash"}
    BY DEF ToSet, Marks, Special
  <2>2. PathEncoded(text)[i] = IF text[i] = " " THEN "%20" ELSE text[i]
    BY <2>1 DEF PathEncoded
  <2>3. "%20" \in Token /\ "%20" \in Escapes /\ "%20" \notin {"/", "%"} /\ Unescape["%20"] = " "
    BY DEF Token, Escapes, Unescape
  <2> QED BY <1>1, <2>1, <2>2, <2>3
<1> QED BY <1>1, <1>2, <1>3, WritesIs

LEMMA FormWrites ==
    ASSUME NEW text \in Seq(Token \ Escapes), " " \notin ToSet(text)
    PROVE  Writes(FormEncode(text), text)
<1>1. \A i \in DOMAIN text : text[i] # " "
    BY DEF ToSet
<1>2. FormEncode(text) = [i \in DOMAIN text |-> EncodeComponent(text)[i]]
    BY <1>1 DEF FormEncode
<1>3. EncodeComponent(text) = [i \in DOMAIN text |-> EncodeComponent(text)[i]]
    BY DEF EncodeComponent
<1> QED BY <1>2, <1>3, EncodeWrites

\* What has no escapes is read as it is written.
LEMMA PlainDecodes ==
    ASSUME NEW text \in Seq(Token), ToSet(text) \intersect Escapes = {}
    PROVE  Decode(text) = text
<1>1. ASSUME NEW i \in DOMAIN text PROVE text[i] \notin DOMAIN Unescape
  <2>1. text[i] \in ToSet(text)
    BY DEF ToSet
  <2> QED BY <2>1, EscapeIs, Zenon
<1>2. Decode(text) = [i \in DOMAIN text |-> text[i]]
    BY <1>1 DEF Decode
<1> QED BY <1>2

(* fetch escapes a joined path part by part.                                *)
LEMMA PathEncodedAppend ==
    ASSUME NEW a \in Seq(Token), NEW b \in Seq(Token)
    PROVE  PathEncoded(a \o b) = PathEncoded(a) \o PathEncoded(b)
<1> DEFINE F(t) == CASE t = " " -> "%20" [] t = "backslash" -> "/" [] OTHER -> t
           fa == PathEncoded(a)
           fb == PathEncoded(b)
           ab == a \o b
           fab == PathEncoded(ab)
           cat == fa \o fb
<1>1. \A t \in Token : F(t) \in Token
    BY DEF Token, Escapes, Special
<1>2. ASSUME NEW s \in Seq(Token)
      PROVE  PathEncoded(s) \in Seq(Token) /\ Len(PathEncoded(s)) = Len(s) /\ \A i \in 1 .. Len(s) : PathEncoded(s)[i] = F(s[i])
  <2>1. PathEncoded(s) = [i \in 1 .. Len(s) |-> F(s[i])]
    BY DEF PathEncoded
  <2> HIDE DEF F
  <2>2. \A i \in 1 .. Len(s) : F(s[i]) \in Token
    BY <1>1
  <2> QED BY <2>1, <2>2
<1> HIDE DEF F
<1>3. /\ ab \in Seq(Token) /\ Len(ab) = Len(a) + Len(b)
      /\ \A i \in 1 .. Len(a) + Len(b) : ab[i] = IF i <= Len(a) THEN a[i] ELSE b[i - Len(a)]
    BY ConcatProperties
<1>4. fa \in Seq(Token) /\ Len(fa) = Len(a) /\ fb \in Seq(Token) /\ Len(fb) = Len(b)
    BY <1>2
<1>5. \A i \in 1 .. Len(a) : fa[i] = F(a[i])
    BY <1>2
<1>6. \A i \in 1 .. Len(b) : fb[i] = F(b[i])
    BY <1>2
<1> HIDE DEF fa, fb
<1>7. /\ cat \in Seq(Token) /\ Len(cat) = Len(fa) + Len(fb)
      /\ \A i \in 1 .. Len(fa) + Len(fb) : cat[i] = IF i <= Len(fa) THEN fa[i] ELSE fb[i - Len(fa)]
    BY <1>4, ConcatProperties
<1> HIDE DEF ab, cat
<1>8. fab \in Seq(Token) /\ Len(fab) = Len(ab) /\ \A i \in 1 .. Len(ab) : fab[i] = F(ab[i])
    BY <1>2, <1>3
<1> HIDE DEF fab
<1>9. Len(fab) = Len(cat) /\ Len(cat) = Len(a) + Len(b) /\ Len(a) \in Nat /\ Len(b) \in Nat
    BY <1>3, <1>4, <1>7, <1>8
<1>10. ASSUME NEW i \in 1 .. Len(a) + Len(b) PROVE fab[i] = cat[i]
  <2>1. CASE i <= Len(a)
    <3>1. i \in 1 .. Len(a)
      BY <1>9, <2>1
    <3>2. ab[i] = a[i] /\ cat[i] = fa[i]
      BY <1>3, <1>4, <1>7, <1>9, <2>1
    <3> QED BY <1>3, <1>5, <1>8, <1>9, <3>1, <3>2
  <2>2. CASE i > Len(a)
    <3>1. i - Len(a) \in 1 .. Len(b)
      BY <1>9, <2>2
    <3>2. ab[i] = b[i - Len(a)] /\ cat[i] = fb[i - Len(a)]
      BY <1>3, <1>4, <1>7, <1>9, <2>2
    <3> QED BY <1>3, <1>6, <1>8, <1>9, <3>1, <3>2
  <2> QED BY <1>9, <2>1, <2>2
<1>11. fab = cat
    BY <1>7, <1>8, <1>9, <1>10, SeqEqual
<1> QED BY <1>11 DEF fab, cat, ab, fa, fb

EachPathEncoded(parts) == [i \in DOMAIN parts |-> PathEncoded(parts[i])]

LEMMA PathEncodedType == ASSUME NEW x \in Seq(Token) PROVE PathEncoded(x) \in Seq(Token) /\ Len(PathEncoded(x)) = Len(x)
<1> DEFINE F(t) == CASE t = " " -> "%20" [] t = "backslash" -> "/" [] OTHER -> t
<1>1. \A t \in Token : F(t) \in Token
    BY DEF Token, Escapes, Special
<1>2. PathEncoded(x) = [i \in 1 .. Len(x) |-> F(x[i])]
    BY DEF PathEncoded
<1> HIDE DEF F
<1>3. \A i \in 1 .. Len(x) : F(x[i]) \in Token
    BY <1>1
<1> QED BY <1>2, <1>3

LEMMA EachPathEncodedAppend ==
    ASSUME NEW W, W = Seq(Token), NEW s \in Seq(W), NEW x \in W
    PROVE  EachPathEncoded(s) \in Seq(W) /\ EachPathEncoded(Append(s, x)) = Append(EachPathEncoded(s), PathEncoded(x))
<1> DEFINE n == Len(s)
           fs == EachPathEncoded(s)
           fx == PathEncoded(x)
           sx == Append(s, x)
           l == EachPathEncoded(sx)
<1>1. n \in Nat /\ DOMAIN s = 1 .. n /\ \A i \in 1 .. n : s[i] \in W
    OBVIOUS
<1>2. fx \in W /\ \A i \in 1 .. n : PathEncoded(s[i]) \in W
    BY <1>1, PathEncodedType
<1>3. fs = [i \in 1 .. n |-> PathEncoded(s[i])]
    BY <1>1 DEF EachPathEncoded
<1> HIDE DEF fs, fx
<1>4. fs \in Seq(W) /\ Len(fs) = n /\ \A i \in 1 .. n : fs[i] = PathEncoded(s[i])
    BY <1>1, <1>2, <1>3
<1>5. /\ sx \in Seq(W) /\ Len(sx) = n + 1 /\ sx[n + 1] = x /\ \A i \in 1 .. n : sx[i] = s[i]
    BY <1>1
<1> DEFINE r == Append(fs, fx)
<1>6. r \in Seq(W) /\ Len(r) = n + 1 /\ r[n + 1] = fx /\ \A i \in 1 .. n : r[i] = fs[i]
    BY <1>1, <1>2, <1>4
<1> HIDE DEF sx, r
<1>7. l = [i \in 1 .. n + 1 |-> PathEncoded(sx[i])]
    BY <1>1, <1>5 DEF EachPathEncoded
<1>8. \A i \in 1 .. n + 1 : PathEncoded(sx[i]) = r[i]
  <2> SUFFICES ASSUME NEW i \in 1 .. n + 1 PROVE PathEncoded(sx[i]) = r[i]
    OBVIOUS
  <2>1. CASE i = n + 1
    BY <1>5, <1>6, <2>1 DEF fx
  <2>2. CASE i # n + 1
    <3>1. i \in 1 .. n
      BY <1>1, <2>2
    <3> QED BY <1>4, <1>5, <1>6, <3>1
  <2> QED BY <2>1, <2>2
<1>9. r = [i \in 1 .. n + 1 |-> r[i]]
    BY <1>6
<1>10. l = r
    BY <1>7, <1>8, <1>9
<1> QED BY <1>4, <1>10 DEF fs, fx, sx, r

LEMMA PathEncodedJoined ==
    ASSUME NEW parts \in Seq(Seq(Token))
    PROVE  PathEncoded(Joined("/", parts)) = Joined("/", EachPathEncoded(parts))
<1> DEFINE W == Seq(Token)
           P == {s \in Seq(W) : PathEncoded(Joined("/", s)) = Joined("/", EachPathEncoded(s))}
<1>1. "/" \in Token
    BY SpecialIs
<1>2. PathEncoded(<<>>) = <<>> /\ EachPathEncoded(<<>>) = <<>>
    BY DEF PathEncoded, EachPathEncoded
<1>3. <<>> \in P
  <2>1. PathEncoded(Joined("/", <<>>)) = Joined("/", EachPathEncoded(<<>>))
    BY <1>2, JoinedEmpty
  <2> HIDE DEF W
  <2> QED BY <2>1
<1>4. ASSUME NEW s \in Seq(W), NEW x \in W, s \in P PROVE Append(s, x) \in P
  <2> DEFINE fs == EachPathEncoded(s)
             fx == PathEncoded(x)
             js == Joined("/", s)
             slash == <<"/">>
             sx == slash \o x
  <2>1. fx \in Seq(Token) /\ fs \in Seq(W) /\ EachPathEncoded(Append(s, x)) = Append(fs, fx)
    BY PathEncodedType, EachPathEncodedAppend
  <2>2. slash \in Seq(Token)
    BY <1>1
  <2>3. sx \in Seq(Token)
    <3> HIDE DEF slash
    <3> QED BY <2>2
  <2>4. Joined("/", Append(s, x)) = js \o sx /\ js \in Seq(Token)
    BY <1>1, JoinedAppend
  <2>5. Joined("/", Append(fs, fx)) = Joined("/", fs) \o (slash \o fx)
    <3> HIDE DEF fs, fx
    <3> QED BY <1>1, <2>1, JoinedAppend
  <2>6. PathEncoded(js \o sx) = PathEncoded(js) \o PathEncoded(sx)
    <3> HIDE DEF js, sx
    <3> QED BY <2>3, <2>4, PathEncodedAppend
  <2>7. PathEncoded(slash) = slash
    <3>1. DOMAIN slash = 1 .. 1 /\ slash[1] = "/" /\ "/" # " " /\ "/" # "backslash"
      OBVIOUS
    <3>2. PathEncoded(slash) = [i \in 1 .. 1 |-> "/"]
      <4> HIDE DEF slash
      <4>1. ASSUME NEW i \in 1 .. 1 PROVE (CASE slash[i] = " " -> "%20" [] slash[i] = "backslash" -> "/" [] OTHER -> slash[i]) = "/"
        <5>1. i = 1
          OBVIOUS
        <5> QED BY <3>1, <5>1
      <4> QED BY <3>1, <4>1 DEF PathEncoded
    <3>3. slash = [i \in 1 .. 1 |-> "/"]
      OBVIOUS
    <3> QED BY <3>2, <3>3
  <2>8. PathEncoded(sx) = slash \o fx
    <3> HIDE DEF slash
    <3> QED BY <2>2, <2>7, PathEncodedAppend
  <2>9. PathEncoded(js) = Joined("/", fs)
    BY <1>4
  <2> HIDE DEF fs, fx, js, sx
  <2>10. PathEncoded(Joined("/", Append(s, x))) = Joined("/", EachPathEncoded(Append(s, x)))
    BY <2>1, <2>4, <2>5, <2>6, <2>8, <2>9
  <2> QED BY <2>10
<1> HIDE DEF P
<1>5. Seq(W) \subseteq P
    BY <1>3, <1>4, SeqSetInduction
<1> QED BY <1>5 DEF P

-----------------------------------------------------------------------------
(* A URL that fills the path of a route of a table.                         *)
Fills(r, segments, values) ==
    /\ segments \in Seq(Parts(Token, "/")) /\ Len(segments) = Len(r.path)
    /\ \A i \in DOMAIN r.path :
          IF IsParam(r.path[i]) THEN Writes(segments[i], values[ParamName(r.path[i])])
          ELSE segments[i] = r.path[i]

\* No route has, where r has a parameter, a static segment that reads as its value.
Unshadowed(R, r, values) ==
    \A s \in R : \A i \in DOMAIN r.path \intersect DOMAIN s.path :
        IsParam(r.path[i]) => s.path[i] # values[ParamName(r.path[i])]

\* Static segments have nothing that a URL treats specially.
PlainPaths(R) ==
    \A s \in R : \A i \in DOMAIN s.path :
        \/ IsParam(s.path[i])
        \/ ToSet(s.path[i]) \intersect (Escapes \union Marks) = {} /\ s.path[i] \notin DotSegments

LEMMA FillsIs ==
    ASSUME NEW R, Table(R), PlainPaths(R), NEW r \in R, NEW segments, NEW values, Fills(r, segments, values)
    PROVE  /\ segments \in Seq(Seq(Token)) /\ Len(segments) = Len(r.path) /\ DOMAIN segments = DOMAIN r.path
           /\ r.path \in Seq(Segment) /\ DOMAIN r.path = 1 .. Len(r.path) /\ Len(r.path) \in Nat
           /\ \A i \in DOMAIN r.path : ~Malformed(segments[i])
<1>1. r.path \in Seq(Segment)
    BY DEF Table
<1>2. Parts(Token, "/") \subseteq Seq(Token)
    BY DEF Parts
<1> DEFINE P == Parts(Token, "/")
           W == Seq(Token)
<1>3. segments \in Seq(P) /\ P \subseteq W /\ Len(segments) = Len(r.path)
    BY <1>2 DEF Fills
<1> HIDE DEF P, W
<1>4. segments \in Seq(W) /\ DOMAIN segments = 1 .. Len(r.path)
    BY <1>3
<1>5. DOMAIN r.path = 1 .. Len(r.path) /\ Len(r.path) \in Nat
    BY <1>1
<1>6. ASSUME NEW i \in DOMAIN r.path PROVE ~Malformed(segments[i])
  <2>1. CASE IsParam(r.path[i])
    BY <2>1 DEF Fills, Writes, Malformed
  <2>2. CASE ~IsParam(r.path[i])
    BY <2>2, SpecialIs DEF Fills, PlainPaths, Malformed
  <2> QED BY <2>1, <2>2
<1> QED BY <1>1, <1>3, <1>4, <1>5, <1>6 DEF W

(* Nobody gets stuck; every route that fits has a parameter wherever r has  *)
(* one, so r is one of the best, and each of those has its shape.           *)
LEMMA FillsBest ==
    ASSUME NEW R, Table(R), PlainPaths(R), NEW r \in R, NEW segments, NEW values, Fills(r, segments, values),
           Unshadowed(R, r, values)
    PROVE  LET best == Best({s \in R : Fits(s, segments) \/ Stuck(s, segments)}, segments)
           IN  /\ r \in best /\ best \subseteq R
               /\ \A s \in best : ~Stuck(s, segments) /\ Shape(s.path) = Shape(r.path)
<1> DEFINE n == Len(r.path)
           tried == {s \in R : Fits(s, segments) \/ Stuck(s, segments)}
           best == Best(tried, segments)
<1>1. /\ n \in Nat /\ DOMAIN r.path = 1 .. n /\ DOMAIN segments = 1 .. n /\ Len(segments) = n
      /\ \A i \in 1 .. n : ~Malformed(segments[i])
    BY FillsIs
<1>2. ASSUME NEW s \in R PROVE s.path \in Seq(Segment) /\ Len(s.path) \in Nat /\ DOMAIN s.path = 1 .. Len(s.path)
    BY DEF Table
<1>3. ASSUME NEW s \in R PROVE ~Stuck(s, segments)
  <2> SUFFICES ASSUME NEW i \in DOMAIN s.path, FitsUpTo(s, segments, i), Malformed(segments[i]) PROVE FALSE
    BY DEF Stuck, Undecodable
  <2>1. i \in 1 .. n
    BY <1>1, <1>2 DEF FitsUpTo
  <2> QED BY <1>1, <2>1
<1>4. r \in tried
  <2>1. \A i \in 1 .. n : IsParam(r.path[i]) \/ r.path[i] = segments[i]
    BY <1>1 DEF Fills
  <2>2. Fits(r, segments)
    BY <1>1, <2>1 DEF Fits, FitsUpTo
  <2> QED BY <2>2
<1>5. ASSUME NEW s \in tried
      PROVE  /\ Len(s.path) = n /\ DOMAIN s.path = 1 .. n
             /\ \A i \in 1 .. n : IsParam(s.path[i]) \/ s.path[i] = segments[i]
  <2>1. Fits(s, segments)
    BY <1>3
  <2> QED BY <1>1, <1>2, <2>1 DEF Fits, FitsUpTo
<1>6. ASSUME NEW s \in tried, NEW i \in 1 .. n, IsParam(r.path[i]) PROVE IsParam(s.path[i])
  <2> DEFINE name == ParamName(r.path[i])
  <2> SUFFICES ASSUME ~IsParam(s.path[i]) PROVE FALSE
    OBVIOUS
  <2>1. s.path[i] = segments[i]
    BY <1>5
  <2>2. Writes(segments[i], values[name])
    BY <1>1, <1>6 DEF Fills
  <2>3. segments[i] \in Seq(Token) /\ Decode(segments[i]) = values[name]
    BY <2>2 DEF Writes
  <2>4. ToSet(segments[i]) \intersect Escapes = {}
    BY <1>5, <2>1 DEF PlainPaths
  <2>5. segments[i] = values[name]
    BY <2>3, <2>4, PlainDecodes
  <2>6. s.path[i] # values[name]
    BY <1>1, <1>5, <1>6 DEF Unshadowed
  <2> QED BY <2>1, <2>5, <2>6
<1>7. r \in best
  <2>1. ASSUME NEW s \in tried PROVE ~MoreStatic(s, r, segments)
    <3>1. DOMAIN s.path \intersect DOMAIN r.path = 1 .. n
      BY <1>1, <1>5
    <3> QED BY <1>6, <3>1 DEF MoreStatic
  <2> QED BY <1>4, <2>1 DEF Best
<1>8. ASSUME NEW s \in best PROVE Shape(s.path) = Shape(r.path)
  <2>1. s \in tried /\ ~MoreStatic(r, s, segments)
    BY <1>4 DEF Best
  <2>2. DOMAIN s.path = 1 .. n /\ \A i \in 1 .. n : IsParam(s.path[i]) \/ s.path[i] = segments[i]
    BY <1>5, <2>1
  <2> DEFINE part == {i \in 1 .. n : ~(IsParam(r.path[i]) <=> IsParam(s.path[i]))}
  <2>3. part = {}
    <3> SUFFICES ASSUME NEW last \in part PROVE FALSE
      OBVIOUS
    <3>1. \E i \in part : 0 < i /\ \A l \in part : 0 < l => i <= l
      <4>1. part \subseteq Nat /\ 0 < last /\ 0 \in Nat
        BY <1>1
      <4> HIDE DEF part
      <4> QED BY <4>1, LeastAbove
    <3>2. PICK i \in part : \A l \in part : i <= l
      BY <1>1, <3>1
    <3>3. i \in 1 .. n /\ ~IsParam(r.path[i]) /\ IsParam(s.path[i])
      BY <1>6, <2>1
    <3>4. \A j \in 1 .. i - 1 : j \in 1 .. n /\ j \notin part
      BY <1>1, <3>2, <3>3
    <3>5. \A j \in 1 .. i - 1 : (IsParam(r.path[j]) <=> IsParam(s.path[j])) /\ ~Undecodable(r, segments, j)
      BY <1>1, <3>4 DEF Undecodable
    <3>6. i \in DOMAIN r.path \intersect DOMAIN s.path
      BY <1>1, <2>2, <3>3
    <3>7. MoreStatic(r, s, segments)
      BY <3>3, <3>5, <3>6 DEF MoreStatic
    <3> QED BY <2>1, <3>7
  <2>4. \A i \in 1 .. n : (IF IsParam(s.path[i]) THEN Param ELSE s.path[i])
                             = (IF IsParam(r.path[i]) THEN Param ELSE r.path[i])
    <3> SUFFICES ASSUME NEW i \in 1 .. n
                 PROVE  (IF IsParam(s.path[i]) THEN Param ELSE s.path[i])
                          = (IF IsParam(r.path[i]) THEN Param ELSE r.path[i])
      OBVIOUS
    <3>1. IsParam(r.path[i]) <=> IsParam(s.path[i])
      BY <2>3
    <3>2. ~IsParam(r.path[i]) => r.path[i] = segments[i]
      BY <1>1 DEF Fills
    <3> QED BY <2>2, <3>1, <3>2
  <2> QED BY <1>1, <2>2, <2>4 DEF Shape
<1>9. best \subseteq R
    BY DEF Best
<1> QED BY <1>3, <1>7, <1>8, <1>9

LEMMA LargestOf ==
    ASSUME NEW S, NEW n \in Nat, S \subseteq 1 .. n, NEW some \in S
    PROVE  \E i \in S : \A j \in S : j <= i
<1> DEFINE T == {n + 1 - i : i \in S}
<1>1. T \subseteq Nat /\ n + 1 - some \in T /\ 0 < n + 1 - some
    OBVIOUS
<1> DEFINE last == n + 1 - some
<1> HIDE DEF T, last
<1>2. \E j \in T : 0 < j /\ \A l \in T : 0 < l => j <= l
    BY <1>1, LeastAbove DEF last
<1>3. PICK k \in T : \A l \in T : 0 < l => k <= l
    BY <1>2
<1>4. PICK i \in S : k = n + 1 - i
    BY DEF T
<1>5. ASSUME NEW j \in S PROVE j <= i
  <2>1. n + 1 - j \in T /\ 0 < n + 1 - j
    BY DEF T
  <2>2. n + 1 - i <= n + 1 - j
    BY <1>3, <1>4, <2>1
  <2>3. i \in Nat /\ j \in Nat
    OBVIOUS
  <2> QED BY <2>2, <2>3
<1> QED BY <1>5

(* The parameters of the route are the values.                              *)
LEMMA ValuesAre ==
    ASSUME NEW R, Table(R), PlainPaths(R), NEW r \in R, NEW segments, NEW values, Fills(r, segments, values)
    PROVE  /\ DOMAIN Values(r, segments) = PathParams(r)
           /\ \A f \in PathParams(r) : Values(r, segments)[f] = values[f]
<1> DEFINE D == {j \in DOMAIN r.path : IsParam(r.path[j])}
           name == [i \in D |-> ParamName(r.path[i])]
           places(f) == {i \in DOMAIN name : name[i] = f}
           n == Len(r.path)
<1>1. DOMAIN r.path = 1 .. n /\ n \in Nat
    BY FillsIs
<1>2. D \subseteq 1 .. n /\ DOMAIN name = D /\ \A i \in D : name[i] = ParamName(r.path[i])
    BY <1>1
<1>3. Values(r, segments) = Bind(name, segments)
    BY DEF Values
<1> HIDE DEF name
<1>4. {name[i] : i \in DOMAIN name} = PathParams(r)
    BY <1>2 DEF PathParams
<1>5. Values(r, segments) = [f \in PathParams(r) |->
          Decode(segments[CHOOSE i \in places(f) : \A j \in places(f) : j <= i])]
    BY <1>3, <1>4 DEF Bind
<1>6. ASSUME NEW f \in PathParams(r)
      PROVE  Decode(segments[CHOOSE i \in places(f) : \A j \in places(f) : j <= i]) = values[f]
  <2> DEFINE S == places(f)
             i == CHOOSE i \in S : \A j \in S : j <= i
  <2>1. PICK some \in S : TRUE
    BY <1>4
  <2>2. S \subseteq 1 .. n
    BY <1>2
  <2> HIDE DEF S
  <2>3. \E k \in S : \A j \in S : j <= k
    BY <1>1, <2>1, <2>2, LargestOf
  <2>4. i \in S
    BY <2>3
  <2> HIDE DEF i
  <2>5. i \in D /\ ParamName(r.path[i]) = f
    BY <1>2, <2>4 DEF S
  <2>6. Writes(segments[i], values[f])
    BY <1>1, <2>5 DEF Fills
  <2>7. Decode(segments[i]) = values[f]
    BY <2>6 DEF Writes
  <2> QED BY <2>7 DEF i, S
<1> QED BY <1>5, <1>6

(* The router takes such a URL to its route, with the values it was filled   *)
(* with.                                                                    *)
LEMMA RouteWins ==
    ASSUME NEW R, Table(R), ~RouterRefuses(R), PlainPaths(R), NEW r \in R, NEW segments, NEW values,
           Fills(r, segments, values), Unshadowed(R, r, values)
    PROVE  Match(R, r.method, Joined("/", segments)) = Found(r, Values(r, segments))
<1> DEFINE url == Joined("/", segments)
           tried == {s \in R : Fits(s, segments) \/ Stuck(s, segments)}
           best == Best(tried, segments)
<1>1. "/" \in Token
    BY SpecialIs
<1>2. segments \in Seq(Parts(Token, "/"))
    BY DEF Fills
<1>3. Split(url, "/") = segments
    BY <1>1, <1>2, SplitJoined
<1>4. url \in Seq(Token)
  <2>1. segments \in Seq(Seq(Token))
    BY FillsIs
  <2>2. <<>> \in Seq(Token)
    OBVIOUS
  <2> QED BY <1>1, <2>1, <2>2, JoinedAppend
<1> HIDE DEF url
<1>5. Match(R, r.method, url) = Reference(R, r.method, url)
    BY <1>4, RouterIsItsTable
<1>6. Reference(R, r.method, url) = Decision(best, r.method, segments)
    BY <1>3 DEF Reference, SplitPath
<1>7. r \in best /\ best \subseteq R /\ \A s \in best : ~Stuck(s, segments) /\ Shape(s.path) = Shape(r.path)
    BY FillsBest
<1> HIDE DEF best
<1>8. \A s \in best : s.method = r.method => s = r
    BY <1>7 DEF RouterRefuses
<1>9. (CHOOSE s \in best : s.method = r.method) = r
    BY <1>7, <1>8
<1>10. best # {} /\ ~(\E s \in best : Stuck(s, segments)) /\ ~(\A s \in best : s.method # r.method)
    BY <1>7
<1>11. Decision(best, r.method, segments) = Found(r, Values(r, segments))
    BY <1>9, <1>10 DEF Decision
<1> QED BY <1>5, <1>6, <1>11 DEF url

-----------------------------------------------------------------------------
(* What the schema makes of the text of a typed value is the value: a kind  *)
(* has no strings, and a literal is written as it is read.                  *)
LEMMA CoercesBack ==
    ASSUME NEW field, NEW v \in [type : Types, text : Seq(Token \ Escapes)], FieldAccepts(field, v), Literal(v),
           v.type \in {"string", Kind(field)}
    PROVE  CoerceValue(Value("string", v.text), Kind(field)) = v
<1> DEFINE text == v.text
           str == Value("string", text)
           bases == IF field.base = "union" THEN field.options \ {"null", "undefined"} ELSE {field.base}
<1>1. /\ DOMAIN v = {"type", "text"} /\ v.type \in Types
      /\ \A type : v.type = type => v = Value(type, text)
    BY DEF Value
<1>2. str.type = "string" /\ str.text = text
    BY DEF Value
<1>3. Kind(field) # "none" => Kind(field) \in Primitive /\ Kind(field) \in bases /\ bases \subseteq Primitive
  <2> SUFFICES ASSUME Kind(field) # "none" PROVE Kind(field) \in bases /\ bases \subseteq Primitive
    OBVIOUS
  <2>1. Cardinality(bases) = 1 /\ bases \subseteq Primitive /\ Kind(field) = CHOOSE b \in bases : TRUE
    BY DEF Kind
  <2>2. bases # {}
    BY <2>1, FS_EmptySet
  <2> QED BY <2>1, <2>2
<1>4. CASE Kind(field) = "none"
  <2>1. v.type = "string"
    BY <1>1, <1>4 DEF Types
  <2>2. CoerceValue(str, Kind(field)) = str
    BY <1>4 DEF CoerceValue
  <2> QED BY <1>1, <2>1, <2>2
<1>5. CASE Kind(field) # "none"
  <2>1. v.type # "string"
    <3> SUFFICES ASSUME v.type = "string" PROVE FALSE
      OBVIOUS
    <3>1. field.base # "any" /\ field.base # "string" /\ (field.base = "union" => "string" \notin field.options)
      BY <1>3, <1>5 DEF Primitive
    <3> QED BY <3>1 DEF FieldAccepts
  <2>2. v.type = Kind(field) /\ Kind(field) \in {"number", "boolean"}
    BY <1>3, <1>5, <2>1 DEF Primitive
  <2>3. CASE Kind(field) = "number"
    <3>1. text \in DOMAIN Numerals /\ Numerals[text] = text
      BY <2>2, <2>3 DEF Literal
    <3>2. CoerceValue(str, Kind(field)) = Value("number", text)
      BY <1>2, <2>3, <3>1 DEF CoerceValue
    <3> QED BY <1>1, <2>2, <2>3, <3>2
  <2>4. CASE Kind(field) = "boolean"
    <3>1. text \in {<<"true">>, <<"false">>}
      BY <2>2, <2>4 DEF Literal
    <3>2. CoerceValue(str, Kind(field)) = Value("boolean", text)
      <4> HIDE DEF text
      <4> QED BY <1>2, <2>4, <3>1 DEF CoerceValue
    <3> QED BY <1>1, <2>2, <2>4, <3>2
  <2> QED BY <2>2, <2>3, <2>4
<1> QED BY <1>4, <1>5

(* A request that writes typed arguments for a route, but for its path.     *)
BesidePath(r, args) == Restricted(args, DOMAIN args \ PathParams(r))

Asks(request, r, args) ==
    /\ request.method = r.method
    /\ IF HasBody(r)
       THEN /\ request.query = Nothing
            /\ request.body = IF BesidePath(r, args) # Nothing THEN JsonBody(BesidePath(r, args)) ELSE NoBody
       ELSE /\ DOMAIN request.query = DOMAIN BesidePath(r, args)
            /\ \A f \in DOMAIN BesidePath(r, args) : Writes(request.query[f], args[f].text)

LEMMA BodyIs ==
    ASSUME NEW request, NEW r, NEW args, Asks(request, r, args), NEW c, NEW multipart
    PROVE  LET body == ReadBody(request, c, multipart)
           IN  body.status = 200 /\ body.input = IF HasBody(r) THEN BesidePath(r, args) ELSE Nothing
<1> DEFINE body == ReadBody(request, c, multipart)
           rest == BesidePath(r, args)
<1>1. \A input : Usable(input).status = 200 /\ Usable(input).input = input
    BY DEF Usable
<1>2. CASE ~HasBody(r)
  <2>1. body = Usable(Nothing)
    BY <1>2 DEF Asks, HasBody, ReadBody
  <2> QED BY <1>1, <1>2, <2>1
<1>3. CASE HasBody(r)
  <2>1. request.method \notin {"GET", "HEAD", "DELETE"}
    BY <1>3 DEF Asks, HasBody
  <2>2. CASE rest = Nothing
    <3>1. request.body = NoBody /\ request.body.kind = "none"
      BY <1>3, <2>2 DEF Asks, NoBody
    <3>2. body = Usable(Nothing)
      BY <2>1, <3>1 DEF ReadBody, Exceeds
    <3> QED BY <1>1, <1>3, <2>2, <3>2
  <2>3. CASE rest # Nothing
    <3>1. request.body = JsonBody(rest)
      BY <1>3, <2>3 DEF Asks
    <3>2. request.body.kind = "json" /\ request.body.input = rest
      BY <3>1 DEF JsonBody
    <3>3. body = Usable(rest)
      BY <2>1, <3>2 DEF ReadBody, Exceeds
    <3> QED BY <1>1, <1>3, <3>3
  <2> QED BY <2>2, <2>3
<1> QED BY <1>2, <1>3

LEMMA InputAgrees ==
    ASSUME NEW c, NEW r, r.cap = c, NEW args, Typed(c, args), Textual(c, r, args),
           "__proto__" \notin DOMAIN InputShape(c), NEW request, Asks(request, r, args),
           NEW params, DOMAIN params = PathParams(r), \A f \in PathParams(r) : params[f] = PathText(args, f)
    PROVE  Agree(InputShape(c),
                 RestInput(request, Found(r, params), IF HasBody(r) THEN BesidePath(r, args) ELSE Nothing), args)
<1> DEFINE shape == InputShape(c)
           rest == BesidePath(r, args)
           body == IF HasBody(r) THEN rest ELSE Nothing
           path == CoerceFields([f \in DOMAIN params |-> Value("string", params[f])], c)
           query == CoerceFields(ParseQuery(request.query), c)
           safe == Restricted(body, DOMAIN body \ {"__proto__"})
           input == RestInput(request, Found(r, params), body)
<1>1. input = Assign(Assign(query, safe), path)
  <2>1. Found(r, params).cap = c /\ Found(r, params).params = params
    BY DEF Found
  <2> QED BY <2>1 DEF RestInput, Merge, AssignSafe
<1>2. ASSUME NEW f \in DOMAIN args
      PROVE  /\ f \in DOMAIN shape /\ args[f] \in [type : Types, text : Seq(Token \ Escapes)]
             /\ FieldAccepts(shape[f], args[f]) /\ Literal(args[f])
    BY DEF Typed
<1>3. ASSUME NEW f \in DOMAIN args, f \in PathParams(r) \/ ~HasBody(r)
      PROVE  CoerceValue(Value("string", args[f].text), Kind(shape[f])) = args[f]
  <2>1. args[f].type \in {"string", Kind(shape[f])}
    BY <1>3 DEF Textual
  <2> HIDE DEF shape
  <2> QED BY <1>2, <2>1, CoercesBack
<1>4. ASSUME NEW fields, NEW f \in DOMAIN shape, f \in DOMAIN fields
      PROVE  CoerceFields(fields, c)[f] = CoerceValue(fields[f], Kind(shape[f]))
  <2>1. Def[c].input.given /\ shape = Def[c].input.shape
    <3>1. CASE ~Def[c].input.given
      <4>1. shape = <<>> /\ DOMAIN <<>> = {}
        BY <3>1 DEF InputShape, Nothing
      <4> QED BY <4>1
    <3> QED BY <3>1 DEF InputShape
  <2> HIDE DEF shape
  <2> QED BY <1>4, <2>1 DEF CoerceFields
<1>5. \A fields : DOMAIN CoerceFields(fields, c) = DOMAIN fields
    BY DEF CoerceFields
<1>6. DOMAIN path = PathParams(r)
    BY <1>5
<1>7. /\ DOMAIN rest = DOMAIN args \ PathParams(r) /\ \A f \in DOMAIN rest : rest[f] = args[f]
  <2> DEFINE S == DOMAIN args \ PathParams(r)
  <2>1. DOMAIN args \intersect S = S /\ rest = Restricted(args, S)
    BY DEF BesidePath
  <2> HIDE DEF S, rest
  <2>2. rest = [f \in S |-> args[f]]
    BY <2>1 DEF Restricted, Restrict
  <2>3. DOMAIN rest = S /\ \A f \in DOMAIN rest : rest[f] = args[f]
    BY <2>2
  <2> QED BY <2>3 DEF S
<1> HIDE DEF rest
<1>8. DOMAIN Nothing = {}
    BY DEF Nothing
<1>9. /\ DOMAIN safe = DOMAIN body \ {"__proto__"} /\ \A f \in DOMAIN safe : safe[f] = body[f]
  <2> DEFINE S == DOMAIN body \ {"__proto__"}
  <2>1. DOMAIN body \intersect S = S /\ safe = Restricted(body, S)
    OBVIOUS
  <2> HIDE DEF S, body, safe
  <2>2. safe = [f \in S |-> body[f]]
    BY <2>1 DEF Restricted, Restrict
  <2>3. DOMAIN safe = S /\ \A f \in DOMAIN safe : safe[f] = body[f]
    BY <2>2
  <2> QED BY <2>3 DEF S
<1>10. DOMAIN query = DOMAIN request.query \ {"__proto__"}
    BY <1>5 DEF ParseQuery
<1>11. ASSUME NEW f \in DOMAIN shape, f \in PathParams(r)
       PROVE  f \in DOMAIN args /\ f \in DOMAIN input /\ input[f] = args[f]
  <2>1. f \in DOMAIN args
    BY <1>11 DEF Textual
  <2>2. f \in DOMAIN input /\ input[f] = path[f]
    BY <1>1, <1>6, <1>11 DEF Assign
  <2>3. params[f] = args[f].text
    BY <1>11, <2>1 DEF PathText
  <2> DEFINE fields == [g \in DOMAIN params |-> Value("string", params[g])]
  <2>4. f \in DOMAIN fields /\ fields[f] = Value("string", args[f].text)
    BY <1>11, <2>3
  <2> HIDE DEF shape, fields
  <2>5. CoerceFields(fields, c)[f] = CoerceValue(fields[f], Kind(shape[f]))
    BY <1>4, <1>11, <2>4
  <2>6. path[f] = args[f]
    BY <1>3, <1>11, <2>1, <2>4, <2>5 DEF fields
  <2> QED BY <2>1, <2>2, <2>6
<1>12. ASSUME NEW f \in DOMAIN shape, f \notin PathParams(r)
       PROVE  /\ f \in DOMAIN input <=> f \in DOMAIN args
              /\ f \in DOMAIN args => input[f] = args[f]
  <2>1. /\ f \in DOMAIN input <=> f \in DOMAIN query \/ f \in DOMAIN safe
        /\ f \in DOMAIN safe => input[f] = safe[f]
        /\ f \in DOMAIN query /\ f \notin DOMAIN safe => input[f] = query[f]
    <3> HIDE DEF input, path, query, safe
    <3> QED BY <1>1, <1>6, <1>12 DEF Assign
  <2>2. f # "__proto__"
    BY <1>12
  <2>3. CASE HasBody(r)
    <3>1. request.query = Nothing
      BY <2>3 DEF Asks
    <3>2. DOMAIN query = {}
      BY <1>8, <1>10, <3>1
    <3>3. body = rest
      BY <2>3
    <3> HIDE DEF input, path, query, safe, body
    <3> QED BY <1>7, <1>9, <1>12, <2>1, <2>2, <3>2, <3>3
  <2>4. CASE ~HasBody(r)
    <3>1. DOMAIN safe = {}
      <4>1. body = Nothing
        BY <2>4
      <4> HIDE DEF body, safe
      <4> QED BY <1>8, <1>9, <4>1
    <3>2. DOMAIN request.query = DOMAIN rest /\ \A g \in DOMAIN rest : Writes(request.query[g], args[g].text)
      BY <2>4 DEF Asks, rest
    <3>3. f \in DOMAIN query <=> f \in DOMAIN args
      BY <1>7, <1>10, <1>12, <2>2, <3>2
    <3>4. ASSUME f \in DOMAIN args PROVE query[f] = args[f]
      <4>1. f \in DOMAIN request.query \ {"__proto__"} /\ Writes(request.query[f], args[f].text)
        BY <1>7, <1>12, <2>2, <3>2, <3>4
      <4>2. ~Malformed(request.query[f]) /\ Decode(request.query[f]) = args[f].text
        BY <4>1 DEF Writes, Malformed
      <4> DEFINE fields == ParseQuery(request.query)
      <4>3. f \in DOMAIN fields /\ fields[f] = Value("string", args[f].text)
        BY <4>1, <4>2 DEF ParseQuery
      <4> HIDE DEF shape, fields
      <4>4. CoerceFields(fields, c)[f] = CoerceValue(fields[f], Kind(shape[f]))
        BY <1>4, <1>12, <4>3
      <4> QED BY <1>3, <2>4, <3>4, <4>3, <4>4 DEF fields
    <3> HIDE DEF input, path, query, safe
    <3> QED BY <2>1, <3>1, <3>3, <3>4
  <2> QED BY <2>3, <2>4
<1> HIDE DEF input, shape
<1>13. Agree(shape, input, args)
    BY <1>11, <1>12 DEF Agree
<1> QED BY <1>13 DEF input, shape, body, rest

-----------------------------------------------------------------------------
(* The URL parser leaves a path alone that is joined of texts without marks, *)
(* but for its spaces, and that leads through no dot segment.               *)
CleanParts(cuts, blank) ==
    {p \in Seq(Token) : Len(p) > 0 /\ p[Len(p)] # blank /\ \A i \in 1 .. Len(p) : p[i] \notin cuts}

IsClean(path, cuts, blank) ==
    /\ path \in Seq(Token) /\ \A i \in 1 .. Len(path) : path[i] \notin cuts
    /\ Len(path) = 0 \/ path[Len(path)] # blank

LEMMA JoinedIsClean ==
    ASSUME NEW sep \in Token, NEW cuts, sep \notin cuts, NEW blank, NEW parts \in Seq(CleanParts(cuts, blank))
    PROVE  IsClean(Joined(sep, parts), cuts, blank)
<1> DEFINE C == CleanParts(cuts, blank)
           Good(s) == IsClean(Joined(sep, s), cuts, blank)
           P == {s \in Seq(C) : Good(s)}
           W == Seq(Token)
<1>2. Good(<<>>)
  <2>1. IsClean(<<>>, cuts, blank)
    BY DEF IsClean
  <2> QED BY <2>1, JoinedEmpty
<1>3. ASSUME NEW s \in Seq(C), NEW x \in C, Good(s) PROVE Good(Append(s, x))
  <2> DEFINE js == Joined(sep, s)
             one == <<sep>>
             sx == one \o x
             all == js \o sx
             n == Len(js)
             m == Len(x) + 1
  <2>1. x \in W /\ Len(x) \in Nat /\ Len(x) > 0 /\ x[Len(x)] # blank /\ \A i \in 1 .. Len(x) : x[i] \notin cuts
    BY DEF CleanParts
  <2>2. s \in Seq(W)
    <3>1. C \subseteq W
      BY DEF CleanParts
    <3> HIDE DEF W, C
    <3> QED BY <3>1
  <2>3. Joined(sep, Append(s, x)) = all
    BY <2>1, <2>2, JoinedAppend
  <2>4. js \in W /\ n \in Nat /\ \A i \in 1 .. n : js[i] \notin cuts
    BY <1>3 DEF IsClean
  <2>5. one \in W /\ Len(one) = 1 /\ one[1] = sep
    OBVIOUS
  <2> HIDE DEF one, js, C, P, Good
  <2>6. sx \in W /\ Len(sx) = m /\ \A i \in 1 .. m : sx[i] = IF i <= 1 THEN one[i] ELSE x[i - 1]
    <3>1. /\ one \o x \in Seq(Token) /\ Len(one \o x) = Len(one) + Len(x)
          /\ \A i \in 1 .. Len(one) + Len(x) : (one \o x)[i] = IF i <= Len(one) THEN one[i] ELSE x[i - Len(one)]
      BY <2>1, <2>5, ConcatProperties
    <3>2. Len(one) = 1 /\ Len(one) + Len(x) = m
      BY <2>1, <2>5
    <3> QED BY <3>1, <3>2
  <2>7. sx[m] # blank /\ \A i \in 1 .. m : sx[i] \notin cuts
    <3> HIDE DEF sx, W
    <3>1. m \in 1 .. m /\ ~(m <= 1) /\ m - 1 = Len(x)
      BY <2>1
    <3>2. sx[m] # blank
      BY <2>1, <2>6, <3>1
    <3>3. ASSUME NEW i \in 1 .. m PROVE sx[i] \notin cuts
      <4>1. CASE i = 1
        BY <2>1, <2>5, <2>6, <4>1
      <4>2. CASE i # 1
        <5>1. i - 1 \in 1 .. Len(x) /\ ~(i <= 1)
          BY <2>1, <4>2
        <5> QED BY <2>1, <2>6, <5>1
      <4> QED BY <4>1, <4>2
    <3> QED BY <3>2, <3>3
  <2> HIDE DEF sx
  <2>8. all \in W /\ Len(all) = n + m /\ \A i \in 1 .. n + m : all[i] = IF i <= n THEN js[i] ELSE sx[i - n]
    BY <2>4, <2>6, ConcatProperties
  <2>9. m \in Nat /\ m > 0
    BY <2>1
  <2> HIDE DEF all, n, m, W
  <2>10. \A i \in 1 .. n + m : all[i] \notin cuts
    <3> SUFFICES ASSUME NEW i \in 1 .. n + m PROVE all[i] \notin cuts
      OBVIOUS
    <3>1. CASE i <= n
      <4>1. i \in 1 .. n
        BY <2>4, <2>9, <3>1
      <4> QED BY <2>4, <2>8, <3>1, <4>1
    <3>2. CASE ~(i <= n)
      <4>1. i - n \in 1 .. m
        BY <2>4, <2>9, <3>2
      <4> QED BY <2>7, <2>8, <3>2, <4>1
    <3> QED BY <3>1, <3>2
  <2>11. all[n + m] # blank
    <3>1. n + m \in 1 .. n + m /\ ~(n + m <= n) /\ (n + m) - n = m
      BY <2>4, <2>9
    <3> QED BY <2>7, <2>8, <3>1
  <2>12. IsClean(all, cuts, blank)
    BY <2>8, <2>10, <2>11 DEF IsClean, W
  <2> QED BY <2>3, <2>12 DEF Good
<1>4. <<>> \in P
  <2> HIDE DEF C, Good
  <2> QED BY <1>2
<1>5. \A s \in Seq(C), x \in C : s \in P => Append(s, x) \in P
  <2> HIDE DEF C, Good
  <2> QED BY <1>3
<1> HIDE DEF P, C
<1>6. Seq(C) \subseteq P
    BY <1>4, <1>5, SeqSetInduction
<1> QED BY <1>6 DEF P, C

\* What the URL parser looks for in a URL.
Blank == " "
EndOfLine == "newline"
Ends == {"?", "#"}
UrlCuts == Ends \union {EndOfLine}
LastOther(text, blank, n) == (n = 0 \/ text[n] # blank) /\ \A i \in n + 1 .. Len(text) : text[i] = blank
Uncut(text, marks, n) == (n = Len(text) \/ text[n + 1] \in marks) /\ \A i \in 1 .. n : text[i] \notin marks

LEMMA TrimStays ==
    ASSUME NEW path \in Seq(Token), Len(path) = 0 \/ path[Len(path)] # Blank
    PROVE  Trim(path) = path
<1> DEFINE k == CHOOSE n \in 0 .. Len(path) : LastOther(path, Blank, n)
<1>1. Trim(path) = SubSeq(path, 1, k)
    BY Zenon DEF Trim, LastOther, Blank
<1>2. Len(path) \in Nat
    OBVIOUS
<1>3. Len(path) \in 0 .. Len(path) /\ LastOther(path, Blank, Len(path))
    BY <1>2 DEF LastOther
<1>4. ASSUME NEW n \in 0 .. Len(path), LastOther(path, Blank, n) PROVE n = Len(path)
  <2> SUFFICES ASSUME n # Len(path) PROVE FALSE
    OBVIOUS
  <2>1. n \in Nat /\ n + 1 <= Len(path) /\ Len(path) \in n + 1 .. Len(path) /\ Len(path) # 0
    BY <1>2
  <2> QED BY <1>4, <2>1 DEF LastOther
<1>5. k = Len(path)
    BY <1>3, <1>4
<1> QED BY <1>1, <1>5, SubSeqFull

LEMMA BeforeStays ==
    ASSUME NEW path \in Seq(Token), NEW marks, \A i \in 1 .. Len(path) : path[i] \notin marks
    PROVE  Before(path, marks) = path
<1> DEFINE k == CHOOSE n \in 0 .. Len(path) : Uncut(path, marks, n)
<1>1. Before(path, marks) = SubSeq(path, 1, k)
    BY Zenon DEF Before, Uncut
<1>2. Len(path) \in Nat
    OBVIOUS
<1>3. Len(path) \in 0 .. Len(path) /\ Uncut(path, marks, Len(path))
    BY <1>2 DEF Uncut
<1>4. ASSUME NEW n \in 0 .. Len(path), Uncut(path, marks, n) PROVE n = Len(path)
  <2> SUFFICES ASSUME n # Len(path) PROVE FALSE
    OBVIOUS
  <2>1. n + 1 \in 1 .. Len(path)
    BY <1>2
  <2> QED BY <1>4, <2>1 DEF Uncut
<1>5. k = Len(path)
    BY <1>3, <1>4
<1> QED BY <1>1, <1>5, SubSeqFull

LEMMA CleanPathStays ==
    ASSUME NEW path, IsClean(path, UrlCuts, Blank), NEW query
    PROVE  /\ UrlPath(path, query) = Collapse(PathEncoded(path))
           /\ UrlQuery(path, query) = query
<1> DEFINE S == ToSet(path)
           visible == Only(path, S \ {EndOfLine})
           url == IF query = Nothing THEN Trim(visible) ELSE visible
<1>1. path \in Seq(Token) /\ Len(path) \in Nat /\ DOMAIN path = 1 .. Len(path)
    BY DEF IsClean
<1>2. S \intersect UrlCuts = {}
    BY <1>1 DEF ToSet, IsClean
<1>3. visible = path
  <2>1. S \subseteq S \ {EndOfLine}
    BY <1>2 DEF UrlCuts
  <2> HIDE DEF S
  <2> QED BY <1>1, <2>1, OnlyType DEF S
<1>4. Trim(path) = path
    BY <1>1, TrimStays DEF IsClean
<1>5. Before(path, Ends) = path
  <2>1. Ends \subseteq UrlCuts
    BY Zenon DEF UrlCuts
  <2> QED BY <1>1, <2>1, BeforeStays DEF IsClean
<1>6. UrlPath(path, query) = Collapse(PathEncoded(Before(url, Ends)))
    BY Zenon DEF UrlPath, EndOfLine, Ends
<1>7. url = path
    BY <1>3, <1>4
<1>8. UrlQuery(path, query) = query
  <2>1. "?" \notin S /\ "#" \notin S
    BY <1>2, Zenon DEF UrlCuts, Ends
  <2> QED BY <2>1, Zenon DEF UrlQuery
<1> QED BY <1>5, <1>6, <1>7, <1>8

-----------------------------------------------------------------------------
(* The path that a client fills in with the texts of typed arguments.       *)
Texts(r, args) == [f \in PathParams(r) |-> PathText(args, f)]

LEMMA TextIs ==
    ASSUME NEW c, NEW r, NEW args, Typed(c, args), Textual(c, r, args), NEW f \in PathParams(r)
    PROVE  /\ PathText(args, f) \in Seq(Token \ Escapes) /\ Len(PathText(args, f)) > 0
           /\ PathText(args, f) \notin DotSegments
           /\ PathText(args, f) = IF f \in DOMAIN args THEN args[f].text ELSE <<"7">>
<1>1. PathText(args, f) = IF f \in DOMAIN args THEN args[f].text ELSE <<"7">>
    BY DEF PathText
<1>2. CASE f \in DOMAIN args
  <2>1. args[f].text \in Seq(Token \ Escapes) /\ f \in DOMAIN InputShape(c)
    BY <1>2 DEF Typed
  <2>2. args[f].text # <<>> /\ args[f].text \notin DotSegments
    BY <1>2, <2>1 DEF Textual
  <2> DEFINE text == args[f].text
  <2> HIDE DEF text
  <2>3. text \in Seq(Token \ Escapes) /\ text # <<>> /\ text \notin DotSegments
    BY <2>1, <2>2 DEF text
  <2>4. Len(text) > 0
    BY <2>3, EmptySeq
  <2> QED BY <1>1, <1>2, <2>3, <2>4 DEF text
<1>3. CASE f \notin DOMAIN args
  <2>1. "7" \in Token \ Escapes
    BY DEF Token, Escapes
  <2>2. <<"7">> \in Seq(Token \ Escapes) /\ Len(<<"7">>) = 1
    BY <2>1
  <2>3. <<"7">> \notin DotSegments
    BY DEF DotSegments, DoubleDots
  <2> QED BY <1>1, <1>3, <2>2, <2>3
<1> QED BY <1>2, <1>3

LEMMA FilledFills ==
    ASSUME NEW R, Table(R), PlainPaths(R), NEW r \in R, NEW values, NEW segments,
           segments = [i \in DOMAIN r.path |-> segments[i]],
           \A i \in DOMAIN r.path :
              IF IsParam(r.path[i])
              THEN /\ Writes(segments[i], values[ParamName(r.path[i])])
                   /\ Len(values[ParamName(r.path[i])]) > 0
              ELSE segments[i] = r.path[i]
    PROVE  Fills(r, segments, values)
<1> DEFINE n == Len(r.path)
           P == Parts(Token, "/")
<1>1. r.path \in Seq(Segment) /\ n \in Nat /\ DOMAIN r.path = 1 .. n
    BY DEF Table
<1>2. ASSUME NEW i \in 1 .. n PROVE segments[i] \in P
  <2>1. CASE IsParam(r.path[i])
    <3>1. Writes(segments[i], values[ParamName(r.path[i])]) /\ Len(values[ParamName(r.path[i])]) > 0
      BY <1>1, <2>1
    <3> QED BY <3>1 DEF Writes, Parts
  <2>2. CASE ~IsParam(r.path[i])
    <3>1. segments[i] = r.path[i] /\ r.path[i] \in Segment
      <4>1. r.path[i] \in Segment
        BY <1>1, ElementOfSeq
      <4> QED BY <1>1, <2>2, <4>1
    <3>2. "/" \notin ToSet(r.path[i])
      BY <1>1, <2>2, SpecialIs DEF PlainPaths
    <3> DEFINE seg == r.path[i]
    <3>3. seg \in Seq(Token) /\ seg # <<>>
      BY <3>1 DEF Segment
    <3> HIDE DEF seg
    <3>4. Len(seg) > 0
      BY <3>3, EmptySeq
    <3> QED BY <3>1, <3>2, <3>3, <3>4 DEF Parts, seg
  <2> QED BY <2>1, <2>2
<1> HIDE DEF P, n
<1>3. segments \in Seq(P) /\ Len(segments) = n
  <2>1. segments = [i \in 1 .. n |-> segments[i]]
    BY <1>1
  <2>2. [i \in 1 .. n |-> segments[i]] \in Seq(P) /\ Len([i \in 1 .. n |-> segments[i]]) = n
    BY <1>1, <1>2
  <2> QED BY <2>1, <2>2
<1> QED BY <1>3 DEF Fills, P, n

\* What a caller may write for the text of a parameter.
Writable(written, text) ==
    /\ written \in CleanParts(UrlCuts, Blank) /\ Writes(PathEncoded(written), text)
    /\ Len(text) > 0 /\ text \notin DotSegments

LEMMA CutsAre == UrlCuts \subseteq Marks /\ Blank \in Marks /\ Blank \notin UrlCuts /\ "/" \notin UrlCuts
BY DEF UrlCuts, Ends, EndOfLine, Blank, Marks, Special

LEMMA EncodedIsWritable ==
    ASSUME NEW text \in Seq(Token \ Escapes), Len(text) > 0, text \notin DotSegments
    PROVE  Writable(EncodeComponent(text), text)
<1> DEFINE enc == EncodeComponent(text)
<1>1. Writes(enc, text)
    BY EncodeWrites
<1>2. enc \in Seq(Token) /\ Len(enc) = Len(text) /\ DOMAIN enc = 1 .. Len(enc)
    BY <1>1 DEF Writes
<1>3. ASSUME NEW i \in DOMAIN enc PROVE enc[i] \notin Special
  <2>1. DOMAIN enc = DOMAIN text /\ enc[i] = IF text[i] \in DOMAIN Escape THEN Escape[text[i]] ELSE text[i]
    BY DEF EncodeComponent
  <2> QED BY <2>1, EscapeIs, SpecialIs
<1> HIDE DEF enc
<1>4. PathEncoded(enc) = enc
  <2>1. " " \in Special /\ "backslash" \in Special
    BY DEF Special
  <2>2. \A i \in DOMAIN enc : enc[i] # " " /\ enc[i] # "backslash"
    BY <1>3, <2>1
  <2>3. PathEncoded(enc) = [i \in DOMAIN enc |-> enc[i]]
    BY <2>2, Zenon DEF PathEncoded
  <2> QED BY <1>2, <2>3
<1>5. enc \in CleanParts(UrlCuts, Blank)
  <2>1. UrlCuts \subseteq Special /\ Blank \in Special
    BY CutsAre, SpecialIs
  <2>2. Len(enc) \in DOMAIN enc
    BY <1>2
  <2> QED BY <1>2, <1>3, <2>1, <2>2 DEF CleanParts
<1> QED BY <1>1, <1>4, <1>5 DEF Writable, enc

LEMMA RawIsWritable ==
    ASSUME NEW text \in Seq(Token \ Escapes), Len(text) > 0, text \notin DotSegments,
           ToSet(text) \intersect Marks \subseteq {Blank}, Last(text) # Blank
    PROVE  Writable(text, text)
<1>1. text \in Seq(Token) /\ DOMAIN text = 1 .. Len(text)
    BY WithoutEscapes
<1>2. Writes(PathEncoded(text), text)
    BY PathWrites DEF Blank
<1>3. \A i \in 1 .. Len(text) : text[i] \notin UrlCuts
    BY <1>1, CutsAre DEF ToSet
<1>4. text[Len(text)] # Blank
    BY <1>1 DEF Last
<1> QED BY <1>1, <1>2, <1>3, <1>4 DEF Writable, CleanParts

\* The URL parser makes of a path that is filled in with them one that fills
\* the route, and leaves the query as it is.
LEMMA FetchFills ==
    ASSUME NEW R, Table(R), PlainPaths(R), NEW r \in R, NEW args, NEW written,
           \A f \in PathParams(r) : Writable(written[f], PathText(args, f)), NEW query
    PROVE  \E segments : /\ Fills(r, segments, Texts(r, args))
                         /\ UrlPath(Fill(r, written), query) = Joined("/", segments)
                         /\ UrlQuery(Fill(r, written), query) = query
<1> DEFINE parts == [i \in DOMAIN r.path |->
                        IF IsParam(r.path[i]) THEN written[ParamName(r.path[i])] ELSE r.path[i]]
           segments == EachPathEncoded(parts)
           values == Texts(r, args)
           C == CleanParts(UrlCuts, Blank)
           n == Len(r.path)
           path == Joined("/", parts)
<1>1. r.path \in Seq(Segment) /\ DOMAIN r.path = 1 .. n /\ n \in Nat
    BY DEF Table
<1>2. ASSUME NEW i \in DOMAIN r.path, IsParam(r.path[i])
      PROVE  Writable(parts[i], values[ParamName(r.path[i])])
  <2>1. ParamName(r.path[i]) \in PathParams(r)
    BY <1>2 DEF PathParams
  <2> QED BY <1>2, <2>1 DEF Texts
<1>3. ASSUME NEW i \in DOMAIN r.path, ~IsParam(r.path[i])
      PROVE  /\ parts[i] = r.path[i] /\ parts[i] \in C /\ PathEncoded(parts[i]) = parts[i]
             /\ parts[i] \notin DotSegments
  <2> DEFINE seg == r.path[i]
  <2>1. parts[i] = seg
    BY <1>3
  <2>2. seg \in Seq(Token) /\ seg # <<>>
    <3>1. seg \in Segment
      BY <1>1, ElementOfSeq
    <3> QED BY <3>1 DEF Segment
  <2>3. ToSet(seg) \intersect Marks = {} /\ seg \notin DotSegments
    BY <1>3 DEF PlainPaths
  <2> HIDE DEF seg, C
  <2>4. Len(seg) \in Nat /\ Len(seg) > 0 /\ DOMAIN seg = 1 .. Len(seg) /\ Len(seg) \in DOMAIN seg
    BY <2>2, EmptySeq
  <2>5. \A j \in DOMAIN seg : seg[j] \notin Marks
    BY <2>3 DEF ToSet
  <2>6. seg \in C
    BY <2>2, <2>4, <2>5, CutsAre DEF CleanParts, C
  <2>7. PathEncoded(seg) = seg
    <3>1. " " \in Marks /\ "backslash" \in Marks
      BY DEF Marks, Special
    <3>2. \A j \in DOMAIN seg : seg[j] # " " /\ seg[j] # "backslash"
      BY <2>5, <3>1
    <3>3. PathEncoded(seg) = [j \in DOMAIN seg |-> seg[j]]
      BY <3>2, Zenon DEF PathEncoded
    <3> QED BY <2>2, <3>3
  <2>8. parts[i] = r.path[i]
    BY <2>1 DEF seg
  <2> HIDE DEF parts
  <2> QED BY <2>1, <2>3, <2>6, <2>7, <2>8
<1>4. DOMAIN parts = DOMAIN r.path /\ parts = [i \in 1 .. n |-> parts[i]]
    BY <1>1
<1>5. Fill(r, written) = path
    BY DEF Fill
<1> HIDE DEF parts
<1>6. \A i \in 1 .. n : parts[i] \in C
  <2> HIDE DEF C
  <2> QED BY <1>1, <1>2, <1>3 DEF Writable, C
<1>7. parts \in Seq(C)
  <2> HIDE DEF C, n
  <2>1. [i \in 1 .. n |-> parts[i]] \in Seq(C)
    BY <1>1, <1>6
  <2> QED BY <1>4, <2>1
<1>8. parts \in Seq(Seq(Token))
  <2> DEFINE W == Seq(Token)
  <2>1. C \subseteq W
    BY DEF CleanParts
  <2> HIDE DEF W, C
  <2>2. parts \in Seq(W)
    BY <1>7, <2>1
  <2> QED BY <2>2 DEF W
<1>9. IsClean(path, UrlCuts, Blank)
  <2>1. "/" \in Token
    BY SpecialIs
  <2> QED BY <1>7, <2>1, CutsAre, JoinedIsClean
<1>10. /\ UrlPath(path, query) = Collapse(Joined("/", segments))
       /\ UrlQuery(path, query) = query
    BY <1>8, <1>9, CleanPathStays, PathEncodedJoined
<1>11. DOMAIN segments = DOMAIN r.path /\ segments = [i \in DOMAIN r.path |-> segments[i]]
       /\ \A i \in DOMAIN r.path : segments[i] = PathEncoded(parts[i])
    BY <1>4 DEF EachPathEncoded
<1> HIDE DEF segments, values, C, path
<1>12. Fills(r, segments, values)
  <2>1. ASSUME NEW i \in DOMAIN r.path
        PROVE  IF IsParam(r.path[i])
               THEN /\ Writes(segments[i], values[ParamName(r.path[i])])
                    /\ Len(values[ParamName(r.path[i])]) > 0
               ELSE segments[i] = r.path[i]
    <3>1. CASE IsParam(r.path[i])
      BY <1>2, <1>11, <3>1, ZenonT(40) DEF Writable
    <3>2. CASE ~IsParam(r.path[i])
      BY <1>3, <1>11, <3>2
    <3> QED BY <3>1, <3>2
  <2> QED BY <1>11, <2>1, FilledFills
<1>13. ASSUME NEW i \in DOMAIN r.path PROVE segments[i] \notin DotSegments
  <2>1. CASE IsParam(r.path[i])
    <3> DEFINE text == values[ParamName(r.path[i])]
               seg == segments[i]
    <3>1. Writes(seg, text) /\ text \notin DotSegments
      BY <1>2, <1>11, <2>1 DEF Writable
    <3> HIDE DEF text, seg
    <3>2. ASSUME seg \in DotSegments PROVE ToSet(seg) \intersect Escapes = {}
      <4>1. \A j \in DOMAIN seg : seg[j] \notin Escapes
        BY <3>2 DEF DotSegments, DoubleDots, Escapes
      <4> QED BY <4>1 DEF ToSet
    <3>3. seg \notin DotSegments
      BY <3>1, <3>2, PlainDecodes DEF Writes
    <3> QED BY <3>3 DEF seg
  <2>2. CASE ~IsParam(r.path[i])
    BY <1>3, <1>11, <2>2
  <2> QED BY <2>1, <2>2
<1>14. Collapse(Joined("/", segments)) = Joined("/", segments)
  <2>1. "/" \in Token /\ segments \in Seq(Parts(Token, "/"))
    BY <1>12, SpecialIs DEF Fills
  <2>2. SplitPath(Joined("/", segments)) = segments
    BY <2>1, SplitJoined DEF SplitPath
  <2>3. ToSet(segments) \intersect DotSegments = {}
    BY <1>11, <1>13 DEF ToSet
  <2> QED BY <2>2, <2>3, Zenon DEF Collapse
<1> QED BY <1>5, <1>10, <1>12, <1>14 DEF values

LEMMA RouteIs ==
    ASSUME Up, NEW c \in DOMAIN registry
    PROVE  RouteOf(c, routes) \in routes /\ RouteOf(c, routes).cap = c
<1>1. /\ DOMAIN registry \in SUBSET Caps
      /\ routes = GenerateRoutes(DOMAIN registry, options.urlCase, options.overrides)
    BY UpIs
<1>2. LET R == GenerateRoutes(DOMAIN registry, options.urlCase, options.overrides)
          r == RouteOf(c, R)
      IN  r \in R /\ r.cap = c /\ \A s \in R : s.cap \in DOMAIN registry /\ (s.cap = c => s = r)
    BY <1>1, RouteIsOne
<1> QED BY <1>1, <1>2

\* The headers and the match of a response change no outcome.
LEMMA SentLands ==
    ASSUME NEW answer, NEW c, NEW args, NEW S, NEW null, Lands(answer, c, args, S, null), NEW match, NEW origin
    PROVE  Lands(Sent(answer, match, origin), c, args, S, null)
<1> DEFINE later == Sent(answer, match, origin)
<1>1. DOMAIN answer = {"status", "by", "ran", "seen", "records", "data", "match", "headers"}
    BY DEF Lands, NoAnswer
<1>2. later = [answer EXCEPT !.match = match, !.headers = SetAtOnce(origin) \union Written(answer.status)]
    BY DEF Sent
<1>3. /\ DOMAIN later = DOMAIN answer /\ later.data = answer.data /\ later.by = answer.by
      /\ later.records = answer.records /\ later.status = answer.status /\ later.seen = answer.seen
    BY <1>1, <1>2
<1> HIDE DEF later
<1>4. Arrived(answer, c, args, null) => Arrived(later, c, args, null)
    BY <1>3 DEF Arrived
<1>5. Lands(later, c, args, S, null)
    BY <1>3, <1>4 DEF Lands
<1> QED BY <1>5 DEF later

\* The client reads no data out of a 204, and gets one only for null.
LEMMA ReadLands ==
    ASSUME NEW answer, NEW c, NEW args, NEW S, Lands(answer, c, args, S, 204), Def[c].returns # "null"
    PROVE  Lands(ReadAsJson(answer), c, args, S, 204)
<1>1. answer.status # 204
    BY StatusIsError DEF Lands, Arrived
<1> QED BY <1>1 DEF ReadAsJson

(* A request that fills the path of the route of c arrives there.           *)
LEMMA RestLands ==
    ASSUME Up, NEW c \in DOMAIN registry, NEW args, Typed(c, args), NEW r, r = RouteOf(c, routes),
           Addressable(r), Textual(c, r, args), ~Shadowed(r, args), NEW rejecting, "validate" \notin rejecting,
           NEW headers, NEW origin, NEW request, Asks(request, r, args),
           NEW segments, Fills(r, segments, Texts(r, args)), request.path = Joined("/", segments)
    PROVE  Comes(Rest(request, origin, headers, rejecting), c, args, rejecting, Context(NodeHeaders(headers)), 204)
<1> DEFINE ctx == Context(NodeHeaders(headers))
           S == rejecting \union RejectedBy(ctx)
           values == Texts(r, args)
           params == Values(r, segments)
           body == IF HasBody(r) THEN BesidePath(r, args) ELSE Nothing
           input == RestInput(request, Found(r, params), body)
           first == Invoke(c, input, ctx, rejecting)
           plain == Dispatch(request, Found(r, params), headers, rejecting)
<1>1. r \in routes /\ r.cap = c /\ Table(routes) /\ ~RouterRefuses(routes) /\ PlainPaths(routes)
    BY RouteIs, UpIs DEF Addressable, PlainPaths
<1>2. ASSUME NEW i \in DOMAIN r.path, IsParam(r.path[i])
      PROVE  values[ParamName(r.path[i])] = PathText(args, ParamName(r.path[i]))
  <2>1. ParamName(r.path[i]) \in PathParams(r)
    BY <1>2 DEF PathParams
  <2> QED BY <2>1 DEF Texts
<1>3. Unshadowed(routes, r, values)
  <2> HIDE DEF values
  <2> QED BY <1>2 DEF Unshadowed, Shadowed
<1>4. Match(routes, request.method, request.path) = Found(r, params)
  <2>1. Match(routes, r.method, Joined("/", segments)) = Found(r, params)
    <3> HIDE DEF params
    <3> QED BY <1>1, <1>3, RouteWins DEF params
  <2>2. request.method = r.method
    BY DEF Asks
  <2> QED BY <2>1, <2>2
<1>5. DOMAIN params = PathParams(r) /\ \A f \in PathParams(r) : params[f] = PathText(args, f)
  <2>1. DOMAIN params = PathParams(r) /\ \A f \in PathParams(r) : params[f] = values[f]
    <3> HIDE DEF values
    <3> QED BY <1>1, ValuesAre DEF values
  <2>2. \A f \in PathParams(r) : values[f] = PathText(args, f)
    BY DEF Texts
  <2> QED BY <2>1, <2>2
<1> HIDE DEF params
<1>6. Agree(InputShape(c), input, args)
  <2>1. "__proto__" \notin DOMAIN InputShape(c)
    <3>1. c \in Caps
      BY UpIs
    <3> QED BY <3>1, GatewayAssumption
  <2> QED BY <1>1, <1>5, <2>1, InputAgrees
<1>7. Lands(first, c, args, S, 200)
  <2> HIDE DEF input, S
  <2>1. BuildInv /\ registry = CompileRegistry(tree)
    BY DEF Up
  <2> QED BY <1>6, <2>1, EngineLands DEF S
<1>8. plain = Respond(c, first)
  <2> DEFINE read == ReadBody(request, c, options.multipart)
  <2>1. read.status = 200 /\ read.input = body
    BY BodyIs
  <2> HIDE DEF read, body
  <2>2. request.method # "OPTIONS"
    BY DEF Asks, Addressable
  <2>3. Found(r, params).found = "found" /\ Found(r, params).cap = c
    BY <1>1 DEF Found
  <2>4. plain = Finish(request, Found(r, params), read, ctx, rejecting)
    BY <2>2, <2>3 DEF Dispatch, read
  <2> QED BY <2>1, <2>3, <2>4 DEF Finish
<1> HIDE DEF first, plain, S
<1>9. Lands(plain, c, args, S, 204)
    BY <1>7, <1>8, RespondLands
<1>10. Rest(request, origin, headers, rejecting) = Sent(plain, Found(r, params), origin)
    BY <1>4 DEF Rest, Handled, plain
<1>11. Lands(Sent(plain, Found(r, params), origin), c, args, S, 204)
    BY <1>9, SentLands
<1> QED BY <1>10, <1>11 DEF Comes, S
\* Of typed arguments, those beside the path.
AreBeside(rest, r, args) ==
    /\ DOMAIN rest = DOMAIN args \ PathParams(r)
    /\ \A f \in DOMAIN rest : rest[f] = args[f] /\ args[f].text \in Seq(Token \ Escapes)

LEMMA FieldsBeside ==
    ASSUME NEW c, NEW r, NEW args, Typed(c, args)
    PROVE  AreBeside(BesidePath(r, args), r, args)
<1> DEFINE S == DOMAIN args \ PathParams(r)
           rest == BesidePath(r, args)
<1>1. DOMAIN args \intersect S = S /\ rest = Restricted(args, S)
    BY DEF BesidePath
<1>2. \A f \in S : args[f].text \in Seq(Token \ Escapes)
    BY DEF Typed
<1> HIDE DEF S, rest
<1>3. rest = [f \in S |-> args[f]]
    BY <1>1 DEF Restricted, Restrict
<1>4. DOMAIN rest = S /\ \A f \in DOMAIN rest : rest[f] = args[f] /\ args[f].text \in Seq(Token \ Escapes)
    BY <1>2, <1>3
<1> QED BY <1>4 DEF S, rest, AreBeside

LEMMA OpenApiLands ==
    ASSUME Up, NEW c \in DOMAIN registry, NEW args, Typed(c, args), NEW r, r = RouteOf(c, routes),
           Addressable(r), Textual(c, r, args), ~Shadowed(r, args), NEW rejecting, "validate" \notin rejecting,
           NEW headers
    PROVE  Comes(OpenApi(c, args, headers, rejecting), c, args, rejecting, Context(NodeHeaders(headers)), 204)
<1> DEFINE request == OpenApiRequest(r, args)
           rest == BesidePath(r, args)
           escaped == [name \in PathParams(r) |-> EncodeComponent(PathText(args, name))]
           query == IF HasBody(r) THEN Nothing ELSE [f \in DOMAIN rest |-> EncodeComponent(rest[f].text)]
           body == IF HasBody(r) /\ rest # Nothing THEN JsonBody(rest) ELSE NoBody
<1>1. r \in routes /\ r.cap = c /\ Table(routes) /\ PlainPaths(routes)
    BY RouteIs, UpIs DEF Addressable, PlainPaths
<1>2. request = Fetched(r, Fill(r, escaped), query, body)
    BY DEF OpenApiRequest, BesidePath
<1>3. \A f \in DOMAIN rest : rest[f] = args[f] /\ args[f].text \in Seq(Token \ Escapes)
  <2>1. AreBeside(rest, r, args)
    BY FieldsBeside
  <2> HIDE DEF rest
  <2> QED BY <2>1 DEF AreBeside
<1>4. ASSUME NEW f \in PathParams(r) PROVE Writable(escaped[f], PathText(args, f))
  <2>1. /\ PathText(args, f) \in Seq(Token \ Escapes) /\ Len(PathText(args, f)) > 0
        /\ PathText(args, f) \notin DotSegments
    BY TextIs
  <2>2. escaped[f] = EncodeComponent(PathText(args, f))
    OBVIOUS
  <2> QED BY <2>1, <2>2, EncodedIsWritable
<1> HIDE DEF request, query, body, escaped
<1>5. PICK segments : /\ Fills(r, segments, Texts(r, args))
                      /\ UrlPath(Fill(r, escaped), query) = Joined("/", segments)
                      /\ UrlQuery(Fill(r, escaped), query) = query
    BY <1>1, <1>4, FetchFills
<1>6. /\ request.method = r.method /\ request.path = Joined("/", segments)
      /\ request.query = query /\ request.body = body
    BY <1>2, <1>5 DEF Fetched, Request
<1>7. Asks(request, r, args)
  <2>1. CASE HasBody(r)
    BY <1>6, <2>1 DEF Asks, query, body
  <2>2. CASE ~HasBody(r)
    <3>1. DOMAIN query = DOMAIN rest /\ \A f \in DOMAIN rest : query[f] = EncodeComponent(args[f].text)
      BY <1>3, <2>2 DEF query
    <3>2. \A f \in DOMAIN rest : Writes(query[f], args[f].text)
      <4> HIDE DEF rest
      <4> QED BY <1>3, <3>1, EncodeWrites
    <3> QED BY <1>6, <2>2, <3>1, <3>2 DEF Asks, body
  <2> QED BY <2>1, <2>2
<1>8. OpenApi(c, args, headers, rejecting) = Rest(request, "none", headers, rejecting)
    BY NamesFindTheirs DEF OpenApi, request
<1>9. Comes(Rest(request, "none", headers, rejecting), c, args, rejecting, Context(NodeHeaders(headers)), 204)
    BY <1>5, <1>6, <1>7, RestLands
<1> QED BY <1>8, <1>9

\* What ClientCarries says of a call of c.
ClientTakes(c, r, args) ==
    /\ options.urlCase = "kebab"
    /\ \A f \in DOMAIN args :
          /\ f \in PathParams(r) => ToSet(args[f].text) \intersect Marks \subseteq {" "} /\ Last(args[f].text) # " "
          /\ ~HasBody(r) /\ f \notin PathParams(r) => " " \notin ToSet(args[f].text)
    /\ Def[c].returns # "null"

LEMMA ClientLands ==
    ASSUME Up, NEW c \in DOMAIN registry, NEW args, Typed(c, args), NEW r, r = RouteOf(c, routes),
           Addressable(r), Textual(c, r, args), ~Shadowed(r, args), ClientTakes(c, r, args),
           NEW rejecting, "validate" \notin rejecting
    PROVE  Comes(Client(c, args, rejecting), c, args, rejecting, Context(NodeHeaders(<<>>)), 204)
<1> DEFINE request == ClientRequest(r, args)
           rest == BesidePath(r, args)
           raw == [name \in PathParams(r) |-> PathText(args, name)]
           query == IF HasBody(r) THEN Nothing ELSE [f \in DOMAIN rest |-> FormEncode(rest[f].text)]
           body == IF HasBody(r) /\ rest # Nothing THEN JsonBody(rest) ELSE NoBody
<1>1. r \in routes /\ r.cap = c /\ Table(routes) /\ PlainPaths(routes)
    BY RouteIs, UpIs DEF Addressable, PlainPaths
<1>2. request = Fetched(r, Fill(r, raw), query, body)
    BY DEF ClientRequest, BesidePath
<1>3. /\ DOMAIN rest = DOMAIN args \ PathParams(r)
      /\ \A f \in DOMAIN rest : rest[f] = args[f] /\ args[f].text \in Seq(Token \ Escapes)
  <2>1. AreBeside(rest, r, args)
    BY FieldsBeside
  <2> HIDE DEF rest
  <2> QED BY <2>1 DEF AreBeside
<1>4. ASSUME NEW f \in PathParams(r) PROVE Writable(raw[f], PathText(args, f))
  <2> DEFINE text == PathText(args, f)
  <2>1. /\ text \in Seq(Token \ Escapes) /\ Len(text) > 0 /\ text \notin DotSegments
        /\ text = IF f \in DOMAIN args THEN args[f].text ELSE <<"7">>
    BY TextIs
  <2>2. ToSet(text) \intersect Marks \subseteq {Blank} /\ Last(text) # Blank
    <3>1. CASE f \in DOMAIN args
      BY <2>1, <3>1, Zenon DEF ClientTakes, Blank
    <3>2. CASE f \notin DOMAIN args
      <4>1. text = <<"7">>
        BY <2>1, <3>2
      <4>2. ToSet(<<"7">>) = {"7"} /\ Last(<<"7">>) = "7"
        BY DEF ToSet, Last
      <4>3. "7" \notin Marks /\ "7" # Blank
        BY DEF Marks, Special, Blank
      <4> QED BY <4>1, <4>2, <4>3
    <3> QED BY <3>1, <3>2
  <2>3. raw[f] = text
    OBVIOUS
  <2> HIDE DEF text, raw
  <2>4. Writable(raw[f], text)
    BY <2>1, <2>2, <2>3, RawIsWritable
  <2> QED BY <2>4 DEF text
<1> HIDE DEF request, query, body, raw
<1>5. PICK segments : /\ Fills(r, segments, Texts(r, args))
                      /\ UrlPath(Fill(r, raw), query) = Joined("/", segments)
                      /\ UrlQuery(Fill(r, raw), query) = query
    BY <1>1, <1>4, FetchFills
<1>6. /\ request.method = r.method /\ request.path = Joined("/", segments)
      /\ request.query = query /\ request.body = body
    BY <1>2, <1>5 DEF Fetched, Request
<1>7. Asks(request, r, args)
  <2>1. CASE HasBody(r)
    BY <1>6, <2>1 DEF Asks, query, body
  <2>2. CASE ~HasBody(r)
    <3>1. DOMAIN query = DOMAIN rest /\ \A f \in DOMAIN rest : query[f] = FormEncode(args[f].text)
      BY <1>3, <2>2 DEF query
    <3>2. \A f \in DOMAIN rest : Writes(query[f], args[f].text)
      <4>1. \A f \in DOMAIN rest : " " \notin ToSet(args[f].text)
        BY <1>3, <2>2, Zenon DEF ClientTakes
      <4> HIDE DEF rest
      <4> QED BY <1>3, <3>1, <4>1, FormWrites
    <3> QED BY <1>6, <2>2, <3>1, <3>2 DEF Asks, body
  <2> QED BY <2>1, <2>2
<1>8. Client(c, args, rejecting) = ReadAsJson(Rest(request, "none", <<>>, rejecting))
  <2>1. routes = GenerateRoutes(DOMAIN registry, "kebab", options.overrides)
    BY UpIs DEF ClientTakes
  <2>2. ClientRoute(c) = r
    BY <2>1 DEF ClientRoute
  <2> QED BY <2>2 DEF Client, request
<1>9. Comes(Rest(request, "none", <<>>, rejecting), c, args, rejecting, Context(NodeHeaders(<<>>)), 204)
    BY <1>5, <1>6, <1>7, RestLands
<1>10. Def[c].returns # "null"
    BY DEF ClientTakes
<1> DEFINE answer == Rest(request, "none", <<>>, rejecting)
           S == rejecting \union RejectedBy(Context(NodeHeaders(<<>>)))
<1>11. Lands(answer, c, args, S, 204)
    BY <1>9 DEF Comes
<1> HIDE DEF answer, S
<1>12. Lands(ReadAsJson(answer), c, args, S, 204)
    BY <1>10, <1>11, ReadLands
<1> QED BY <1>8, <1>12 DEF answer, S, Comes

-----------------------------------------------------------------------------
(* Carries, of a call that is yet to come.                                  *)
Takes(surface, c, args, way) ==
    LET r == RouteOf(c, routes)
    IN  /\ surface # "http" /\ c \in DOMAIN registry /\ way.path \in {"own", "slash"}
        /\ CASE surface \in {"client", "openapi"} ->
                  /\ Addressable(r) /\ Textual(c, r, args) /\ ~Shadowed(r, args)
                  /\ surface = "client" => ClientTakes(c, r, args)
             [] surface = "graphql" ->
                  OutputFits(c) /\ \A f \in DOMAIN args : args[f].type \notin {"object", "array"}
             [] surface = "direct" -> OutputFits(c)
             [] surface \in {"mcp", "ws"} -> TRUE

Surfaces == {"client", "openapi", "graphql", "mcp", "ws", "direct", "http"}

NullStatus(surface) == IF surface \in {"client", "openapi", "http"} THEN 204 ELSE 200

(* What the latest call came to: it landed where a surface carries it, and  *)
(* ran nothing elsewhere.                                                   *)
Landed ==
    Calling /\ Carries /\ Clear =>
        Lands(call.answer, call.cap, call.args, Rejected, NullStatus(call.surface))

Missed ==
    Calling /\ call.surface # "http" /\ (call.way.path \notin {"own", "slash"} \/ Unknown) =>
        RanNothing(call.answer, call.way.path)

LEMMA InvCallsArrive == Landed => CallsArrive
<1> SUFFICES ASSUME Landed, Calling, Carries, Clear, Passes(call.cap),
                    NEW input, input = Def[call.cap].input, NEW answer, answer = call.answer
             PROVE  /\ answer.by = call.cap
                    /\ answer.status = IF answer.data = "null" /\ OverHttp THEN 204 ELSE 200
                    /\ input.given => Restricted(answer.seen, DOMAIN input.shape) = Parsed(input.shape, call.args)
                    /\ answer.data = "null" <=> Def[call.cap].returns = "null"
    BY DEF CallsArrive
<1>1. Lands(answer, call.cap, call.args, Rejected, NullStatus(call.surface))
    BY DEF Landed
<1>2. Free(call.cap, Rejected)
    BY DEF Passes, Free
<1>3. Arrived(answer, call.cap, call.args, NullStatus(call.surface)) /\ answer.by = call.cap
    BY <1>1, <1>2 DEF Lands
<1> QED BY <1>3 DEF Arrived, SeenAs, NullStatus, OverHttp

LEMMA InvSameOutcome == Landed /\ Missed => SameOutcome
<1> SUFFICES ASSUME Landed, Missed PROVE SameOutcome
    OBVIOUS
<1> DEFINE run == PromisedRun(call.cap)
           status == call.answer.status
           records == call.answer.records
<1>1. ASSUME Calling, Carries, Clear
      PROVE  /\ IF Passes(call.cap) THEN status < 300
                ELSE status = CASE Last(run) = "mustBeAuthenticated" -> 401
                                [] Last(run) \in Caps \union Resumptions -> 500
                                [] OTHER -> 403
             /\ RecordedAs(records, run, status)
  <2>1. Lands(call.answer, call.cap, call.args, Rejected, NullStatus(call.surface))
    BY <1>1 DEF Landed
  <2>2. run = RunOf(call.cap, Rejected) /\ (Passes(call.cap) <=> Free(call.cap, Rejected))
    BY <1>1 DEF PromisedRun, RunOf, Passes, Free
  <2>3. RecordedAs(records, run, status)
    BY <1>1, <2>1, <2>2 DEF Lands
  <2>4. CASE Passes(call.cap)
    <3>1. Arrived(call.answer, call.cap, call.args, NullStatus(call.surface))
      BY <2>1, <2>2, <2>4 DEF Lands
    <3>2. status \in {200, 204}
      BY <1>1, <3>1 DEF Arrived, NullStatus
    <3>3. status < 300
      BY <3>2
    <3> QED BY <2>3, <2>4, <3>3
  <2>5. CASE ~Passes(call.cap)
    <3>1. status = StatusOf(Last(run))
      BY <1>1, <2>1, <2>2, <2>5 DEF Lands
    <3> QED BY <2>3, <2>5, <3>1 DEF StatusOf
  <2> QED BY <2>4, <2>5
<1>2. ASSUME Calling, call.surface # "http", call.way.path \notin {"own", "slash"} \/ Unknown
      PROVE  call.answer.ran = <<>> /\ (call.answer.status >= 400 \/ call.way.path = "playground")
    BY <1>2 DEF Missed, RanNothing
<1>3. ASSUME Calling, Carries, Clear
      PROVE  LET places == Only([i \in DOMAIN run |-> i], {i \in DOMAIN run : run[i] \in Layers})
                 resumed == {i \in DOMAIN run : run[i] \in Caps /\ Def[run[i]].resumes = Last(run)}
             IN  /\ Len(records) = Len(places)
                 /\ \A i \in DOMAIN records :
                       LET place == Reverse(places)[i]
                       IN  /\ records[i].by = run[place]
                           /\ records[i].level = "error" <=>
                                 /\ \A resolver \in resumed : place < resolver
                                 /\ IF records[i].by = "loggingEnhancer" THEN status = 500 ELSE status >= 300
  <2> HIDE DEF run, status, records
  <2> QED BY <1>1, <1>3, Zenon DEF RecordedAs, Places, Resumed, Waits
<1> QED BY <1>1, <1>2, <1>3, Zenon DEF SameOutcome

-----------------------------------------------------------------------------
(* A step that calls, given what its answer comes to.                       *)
LEMMA CalledIs ==
    ASSUME NEW surface, NEW c, NEW args, NEW way, NEW answer, Called(surface, c, args, way, answer)
    PROVE  /\ call'.surface = surface /\ call'.cap = c /\ call'.args = args /\ call'.way = way /\ call'.answer = answer
           /\ script' = script /\ options' = options /\ registry' = registry /\ routes' = routes
           /\ Rejected' = RejectedOf(surface, way)
           /\ Clear' <=> Len(way.headers) <= 1
           /\ Unknown' <=> /\ c \notin DOMAIN registry
                           /\ surface \in {"graphql", "mcp"} => \A d \in DOMAIN registry : ToolName[d] # ToolName[c]
<1>1. /\ call' = [surface |-> surface, cap |-> c, args |-> args, way |-> way, answer |-> answer]
      /\ script' = script /\ options' = options /\ registry' = registry /\ routes' = routes
    BY DEF Called
<1>2. call'.surface = surface /\ call'.cap = c /\ call'.args = args /\ call'.way = way /\ call'.answer = answer
    BY <1>1
<1>3. IsUser' <=> UserOf(surface, way.headers)
    BY <1>1, <1>2 DEF IsUser, UserOf
<1>4. Rejected' = RejectedOf(surface, way)
    BY <1>2, <1>3 DEF Rejected, RejectedOf
<1>5. Clear' <=> Len(way.headers) <= 1
    BY <1>2 DEF Clear
<1>6. Unknown' <=> /\ c \notin DOMAIN registry
                   /\ surface \in {"graphql", "mcp"} => \A d \in DOMAIN registry : ToolName[d] # ToolName[c]
    BY <1>1, <1>2 DEF Unknown
<1> QED BY <1>1, <1>2, <1>4, <1>5, <1>6

LEMMA CalledCarries ==
    ASSUME NEW surface \in Surfaces, NEW c, NEW args, NEW way, NEW answer,
           Called(surface, c, args, way, answer), Carries'
    PROVE  Takes(surface, c, args, way)
<1> DEFINE r == RouteOf(c, routes)
<1>1. /\ call'.surface = surface /\ call'.cap = c /\ call'.args = args /\ call'.way = way
      /\ options' = options /\ registry' = registry /\ routes' = routes
    BY CalledIs
<1>2. RouteOf(call.cap, routes)' = r
    BY <1>1 DEF RouteOf
<1>3. surface # "http" /\ c \in DOMAIN registry /\ way.path \in {"own", "slash"}
    BY <1>1 DEF Carries
<1>4. CASE surface \in {"client", "openapi"}
    BY <1>1, <1>2, <1>3, <1>4 DEF Carries, Takes, Addressable, Shadowed, ClientCarries, ClientTakes
<1>5. CASE surface \in {"mcp", "ws"}
    BY <1>3, <1>5 DEF Takes
<1>6. CASE surface = "graphql"
    BY <1>1, <1>3, <1>6 DEF Carries, Takes, OutputFits
<1>7. CASE surface = "direct"
    BY <1>1, <1>3, <1>7 DEF Carries, Takes, OutputFits
<1> QED BY <1>3, <1>4, <1>5, <1>6, <1>7 DEF Surfaces

LEMMA CalledLands ==
    ASSUME NEW surface \in Surfaces, NEW c, NEW args, NEW way, NEW answer, Called(surface, c, args, way, answer),
           Takes(surface, c, args, way) /\ Len(way.headers) <= 1 =>
              Lands(answer, c, args, RejectedOf(surface, way), NullStatus(surface))
    PROVE  Landed'
<1>1. /\ call'.surface = surface /\ call'.cap = c /\ call'.args = args /\ call'.way = way /\ call'.answer = answer
      /\ script' = script /\ Rejected' = RejectedOf(surface, way) /\ (Clear' <=> Len(way.headers) <= 1)
    BY CalledIs
<1> DEFINE S == RejectedOf(surface, way)
<1> SUFFICES ASSUME Carries', Clear'
             PROVE  Lands(call.answer, call.cap, call.args, Rejected, NullStatus(call.surface))'
    BY DEF Landed
<1>2. Lands(answer, c, args, S, NullStatus(surface))
    BY <1>1, CalledCarries
<1>3. Promised(call.cap)' = Promised(c)
    BY <1>1 DEF Promised, Composed, Chosen
<1>4. RunOf(call.cap, Rejected)' = RunOf(c, S) /\ (Free(call.cap, Rejected)' <=> Free(c, S))
    BY <1>1, <1>3 DEF RunOf, Free
<1> HIDE DEF S
<1> QED BY <1>1, <1>2, <1>4 DEF Lands, NullStatus, S

LEMMA CalledMisses ==
    ASSUME NEW surface, NEW c, NEW args, NEW way, NEW answer, Called(surface, c, args, way, answer),
           \/ surface = "http" \/ RanNothing(answer, way.path)
           \/ /\ way.path \in {"own", "slash"}
              /\ c \in DOMAIN registry \/ (surface \in {"graphql", "mcp"} /\ \E d \in DOMAIN registry : ToolName[d] = ToolName[c])
    PROVE  Missed'
<1>1. /\ call'.surface = surface /\ call'.way = way /\ call'.answer = answer
      /\ Unknown' <=> /\ c \notin DOMAIN registry
                      /\ surface \in {"graphql", "mcp"} => \A d \in DOMAIN registry : ToolName[d] # ToolName[c]
    BY CalledIs
<1> QED BY <1>1 DEF Missed, RanNothing

-----------------------------------------------------------------------------
(* The rejections of a call, by what its context takes for a user.          *)
LEMMA ContextIs ==
    ASSUME NEW surface, NEW way, NEW ctx, ctx.user <=> UserOf(surface, way.headers)
    PROVE  way.rejecting \union RejectedBy(ctx) = RejectedOf(surface, way)
BY DEF RejectedOf, RejectedBy

LEMMA WaysReject ==
    ASSUME NEW c, NEW args, NEW way \in Ways(c, args)
    PROVE  "validate" \notin way.rejecting
<1>1. Plain.rejecting = {} /\ DOMAIN Plain = {"headers", "rejecting", "path"}
    BY DEF Plain, RejectNothing
<1>2. ASSUME NEW w \in Rejections(c) PROVE DOMAIN w = DOMAIN Plain /\ "validate" \notin w.rejecting
  <2>1. PICK step \in ToSet(Pipeline(registry[c])) \ (Layers \union {"validate", "mustBeAuthenticated"}) :
            w = [Plain EXCEPT !.rejecting = {step}]
    BY DEF Rejections
  <2>2. w.rejecting = {step} /\ DOMAIN w = DOMAIN Plain
    BY <1>1, <2>1
  <2> QED BY <2>1, <2>2
<1>3. \A path : [Plain EXCEPT !.path = path].rejecting = {}
    BY <1>1
<1>4. ASSUME NEW H, NEW W, \A w \in W : DOMAIN w = DOMAIN Plain /\ "validate" \notin w.rejecting, NEW w \in With(H, W)
      PROVE  "validate" \notin w.rejecting
  <2>1. PICK v \in W, h \in H : w = [v EXCEPT !.headers = h]
    BY <1>4 DEF With
  <2>2. w.rejecting = v.rejecting
    BY <1>1, <1>4, <2>1
  <2> QED BY <1>4, <2>2
<1>5. ASSUME NEW W, W = Rejections(c) \/ W = {} \/ W = {Plain}
      PROVE  \A w \in W : DOMAIN w = DOMAIN Plain /\ "validate" \notin w.rejecting
    BY <1>1, <1>2, <1>5
<1>6. \/ way \in Rejections(c) \/ way = Plain \/ \E path : way = [Plain EXCEPT !.path = path]
      \/ way \in With(Headers, {Plain}) \/ way \in With(Credentials, Rejections(c)) \/ way \in With(Credentials, {})
    BY DEF Ways
<1> QED BY <1>1, <1>2, <1>3, <1>4, <1>5, <1>6

(* Each surface, called with typed arguments.                               *)
LEMMA SurfacesLand ==
    ASSUME Up, NEW c \in DOMAIN registry, NEW args, Typed(c, args), NEW way, way.headers \in Seq(Header),
           "validate" \notin way.rejecting,
           \/ CallClient(c, args, way) \/ CallOpenApi(c, args, way)
           \/ CallGraphQL(c, args, way) \/ CallMcp(c, args, way)
           \/ CallWs(c, args, way) \/ CallDirect(c, args, way)
    PROVE  Landed' /\ Missed'
<1> DEFINE rejecting == way.rejecting
           node == Context(NodeHeaders(way.headers))
           upgrade == Context(UpgradeHeaders(way.headers))
           given == BuildContext(options.builder, GivenHeaders(way.headers))
           route == RouteOf(c, routes)
<1>1. options \in Options
    BY UpIs
<1>2. ASSUME Len(way.headers) <= 1, NEW surface \in {"openapi", "graphql", "mcp", "ws"}
      PROVE  /\ rejecting \union RejectedBy(node) = RejectedOf(surface, way)
             /\ rejecting \union RejectedBy(upgrade) = RejectedOf(surface, way)
  <2>1. (node.user <=> UserOf(surface, way.headers)) /\ (upgrade.user <=> UserOf(surface, way.headers))
    BY <1>1, <1>2, UserIsUser
  <2> HIDE DEF node, upgrade
  <2> QED BY <2>1, ContextIs
<1>3. CASE CallClient(c, args, way)
  <2> DEFINE answer == Client(c, args, rejecting)
             none == Context(NodeHeaders(<<>>))
  <2>1. Called("client", c, args, way, answer) /\ way.path = "own"
    BY <1>3 DEF CallClient
  <2>2. rejecting \union RejectedBy(none) = RejectedOf("client", way)
    <3>1. <<>> \in Seq(Header) /\ Len(<<>>) <= 1
      OBVIOUS
    <3>2. ~none.user
      BY <1>1, <3>1, UserIsUser
    <3> HIDE DEF none
    <3> QED BY <3>2 DEF RejectedOf, UserOf, RejectedBy
  <2>3. ASSUME Takes("client", c, args, way)
        PROVE  Lands(answer, c, args, RejectedOf("client", way), NullStatus("client"))
    <3>1. Addressable(route) /\ Textual(c, route, args) /\ ~Shadowed(route, args) /\ ClientTakes(c, route, args)
      BY <2>3 DEF Takes
    <3>2. Comes(answer, c, args, rejecting, none, 204)
      BY <3>1, ClientLands
    <3> HIDE DEF answer, none
    <3> QED BY <2>2, <3>2 DEF Comes, NullStatus
  <2> HIDE DEF answer
  <2>4. Landed'
    BY <2>1, <2>3, CalledLands DEF Surfaces
  <2>5. Missed'
    BY <2>1, CalledMisses
  <2> QED BY <2>4, <2>5
<1>4. CASE CallOpenApi(c, args, way)
  <2> DEFINE answer == OpenApi(c, args, way.headers, rejecting)
  <2>1. Called("openapi", c, args, way, answer) /\ way.path = "own"
    BY <1>4 DEF CallOpenApi
  <2>2. ASSUME Takes("openapi", c, args, way), Len(way.headers) <= 1
        PROVE  Lands(answer, c, args, RejectedOf("openapi", way), NullStatus("openapi"))
    <3>1. Addressable(route) /\ Textual(c, route, args) /\ ~Shadowed(route, args)
      BY <2>2 DEF Takes
    <3>2. Comes(answer, c, args, rejecting, node, 204)
      BY <3>1, OpenApiLands
    <3>3. rejecting \union RejectedBy(node) = RejectedOf("openapi", way)
      BY <1>2, <2>2
    <3> HIDE DEF answer, node
    <3> QED BY <3>2, <3>3 DEF Comes, NullStatus
  <2> HIDE DEF answer
  <2>3. Landed'
    BY <2>1, <2>2, CalledLands DEF Surfaces
  <2>4. Missed'
    BY <2>1, CalledMisses
  <2> QED BY <2>3, <2>4
<1>5. CASE CallGraphQL(c, args, way)
  <2> DEFINE first == GraphQL(c, args, way.headers, rejecting)
             answer == GraphQLHandler(way.path, first)
  <2>1. Called("graphql", c, args, way, answer)
    BY <1>5 DEF CallGraphQL
  <2>2. ASSUME Takes("graphql", c, args, way), Len(way.headers) <= 1
        PROVE  Lands(answer, c, args, RejectedOf("graphql", way), NullStatus("graphql"))
    <3>1. /\ way.path \in {"own", "slash"} /\ OutputFits(c)
          /\ \A f \in DOMAIN args : args[f].type \notin {"object", "array"}
      BY <2>2 DEF Takes
    <3>2. Comes(first, c, args, rejecting, node, 200)
      BY <3>1, GraphQLLands
    <3>3. rejecting \union RejectedBy(node) = RejectedOf("graphql", way)
      BY <1>2, <2>2
    <3>4. answer = first
      BY <3>1 DEF GraphQLHandler
    <3> HIDE DEF answer, first, node
    <3> QED BY <3>2, <3>3, <3>4 DEF Comes, NullStatus
  <2>3. way.path \notin {"own", "slash"} => RanNothing(answer, way.path)
    BY ElsewhereRunsNothing
  <2> HIDE DEF answer
  <2>4. Landed'
    BY <2>1, <2>2, CalledLands DEF Surfaces
  <2>5. Missed'
    BY <2>1, <2>3, CalledMisses
  <2> QED BY <2>4, <2>5
<1>6. CASE CallMcp(c, args, way)
  <2> DEFINE first == Mcp(c, args, way.headers, rejecting)
             answer == McpHandler(way.path, first)
  <2>1. Called("mcp", c, args, way, answer)
    BY <1>6 DEF CallMcp
  <2>2. ASSUME Takes("mcp", c, args, way), Len(way.headers) <= 1
        PROVE  Lands(answer, c, args, RejectedOf("mcp", way), NullStatus("mcp"))
    <3>1. way.path \in {"own", "slash"}
      BY <2>2 DEF Takes
    <3>2. Comes(first, c, args, rejecting, node, 200)
      BY McpLands
    <3>3. rejecting \union RejectedBy(node) = RejectedOf("mcp", way)
      BY <1>2, <2>2
    <3>4. answer = first
      BY <3>1 DEF McpHandler
    <3> HIDE DEF answer, first, node
    <3> QED BY <3>2, <3>3, <3>4 DEF Comes, NullStatus
  <2>3. way.path \notin {"own", "slash"} => RanNothing(answer, way.path)
    BY ElsewhereRunsNothing
  <2> HIDE DEF answer
  <2>4. Landed'
    BY <2>1, <2>2, CalledLands DEF Surfaces
  <2>5. Missed'
    BY <2>1, <2>3, CalledMisses
  <2> QED BY <2>4, <2>5
<1>7. CASE CallWs(c, args, way)
  <2> DEFINE answer == Ws(c, args, way.headers, rejecting)
  <2>1. Called("ws", c, args, way, answer) /\ way.path = "own"
    BY <1>7 DEF CallWs
  <2>2. ASSUME Len(way.headers) <= 1
        PROVE  Lands(answer, c, args, RejectedOf("ws", way), NullStatus("ws"))
    <3>1. Comes(answer, c, args, rejecting, upgrade, 200)
      BY WsLands
    <3>2. rejecting \union RejectedBy(upgrade) = RejectedOf("ws", way)
      BY <1>2, <2>2
    <3> HIDE DEF answer, upgrade
    <3> QED BY <3>1, <3>2 DEF Comes, NullStatus
  <2> HIDE DEF answer
  <2>3. Landed'
    BY <2>1, <2>2, CalledLands DEF Surfaces
  <2>4. Missed'
    BY <2>1, CalledMisses
  <2> QED BY <2>3, <2>4
<1>8. CASE CallDirect(c, args, way)
  <2> DEFINE answer == Direct(c, args, way.headers, rejecting)
  <2>1. Called("direct", c, args, way, answer) /\ way.path = "own"
    BY <1>8 DEF CallDirect
  <2>2. ASSUME Takes("direct", c, args, way), Len(way.headers) <= 1
        PROVE  Lands(answer, c, args, RejectedOf("direct", way), NullStatus("direct"))
    <3>1. OutputFits(c)
      BY <2>2 DEF Takes
    <3>2. Comes(answer, c, args, rejecting, given, 200)
      BY <3>1, DirectLands
    <3>3. given.user <=> UserOf("direct", way.headers)
      BY <1>1, <2>2, UserIsUser
    <3> HIDE DEF answer, given
    <3>4. rejecting \union RejectedBy(given) = RejectedOf("direct", way)
      BY <3>3, ContextIs
    <3> QED BY <3>2, <3>4 DEF Comes, NullStatus
  <2> HIDE DEF answer
  <2>3. Landed'
    BY <2>1, <2>2, CalledLands DEF Surfaces
  <2>4. Missed'
    BY <2>1, CalledMisses
  <2> QED BY <2>3, <2>4
<1> QED BY <1>3, <1>4, <1>5, <1>6, <1>7, <1>8

(* Over the surfaces that take names, one that no capability has.           *)
LEMMA UnknownLands ==
    ASSUME NEW c, c \notin DOMAIN registry, NEW args, NEW way, way.path = "own",
           \/ CallGraphQL(c, args, way) \/ CallMcp(c, args, way)
           \/ CallWs(c, args, way) \/ CallDirect(c, args, way)
    PROVE  Landed' /\ Missed'
<1> DEFINE path == way.path
           distinct == \A d \in DOMAIN registry : ToolName[d] # ToolName[c]
<1>1. ASSUME NEW surface \in Surfaces, NEW answer, Called(surface, c, args, way, answer),
             RanNothing(answer, path) \/ (surface \in {"graphql", "mcp"} /\ ~distinct)
      PROVE  Landed' /\ Missed'
  <2>1. Landed'
    BY <1>1, CalledLands DEF Takes
  <2>2. Missed'
    BY <1>1, CalledMisses
  <2> QED BY <2>1, <2>2
<1>2. CASE CallGraphQL(c, args, way)
  <2> DEFINE answer == GraphQLHandler(path, GraphQL(c, args, way.headers, way.rejecting))
  <2>1. Called("graphql", c, args, way, answer)
    BY <1>2 DEF CallGraphQL
  <2>2. distinct => RanNothing(answer, path)
    BY UnknownRunsNothing
  <2> HIDE DEF answer
  <2> QED BY <1>1, <2>1, <2>2 DEF Surfaces
<1>3. CASE CallMcp(c, args, way)
  <2> DEFINE answer == McpHandler(path, Mcp(c, args, way.headers, way.rejecting))
  <2>1. Called("mcp", c, args, way, answer)
    BY <1>3 DEF CallMcp
  <2>2. distinct => RanNothing(answer, path)
    BY UnknownRunsNothing
  <2> HIDE DEF answer
  <2> QED BY <1>1, <2>1, <2>2 DEF Surfaces
<1>4. CASE CallWs(c, args, way)
  <2> DEFINE answer == Ws(c, args, way.headers, way.rejecting)
  <2>1. Called("ws", c, args, way, answer)
    BY <1>4 DEF CallWs
  <2>2. RanNothing(answer, path)
    BY UnknownRunsNothing
  <2> HIDE DEF answer
  <2> QED BY <1>1, <2>1, <2>2 DEF Surfaces
<1>5. CASE CallDirect(c, args, way)
  <2> DEFINE answer == Direct(c, args, way.headers, way.rejecting)
  <2>1. Called("direct", c, args, way, answer)
    BY <1>5 DEF CallDirect
  <2>2. RanNothing(answer, path)
    BY UnknownRunsNothing
  <2> HIDE DEF answer
  <2> QED BY <1>1, <2>1, <2>2 DEF Surfaces
<1> QED BY <1>2, <1>3, <1>4, <1>5

(* What any HTTP client asks is promised nothing by these two.              *)
LEMMA RequestLands ==
    ASSUME NEW request, HandleRequest(request)
    PROVE  Landed' /\ Missed'
<1> DEFINE answer == Rest(request, request.origin, request.headers, RejectNothing)
           way == [Plain EXCEPT !.headers = request.headers]
<1>1. Called("http", "none", request, way, answer)
    BY DEF HandleRequest
<1> HIDE DEF answer, way
<1>2. Landed'
    BY <1>1, CalledLands DEF Takes, Surfaces
<1>3. Missed'
    BY <1>1, CalledMisses
<1> QED BY <1>2, <1>3

-----------------------------------------------------------------------------
(* The invariant holds at first and is kept by every step.                  *)
OutcomeInv == PipelineInv /\ Landed /\ Missed

LEMMA NoneLands == ASSUME call.surface \in {"none", "check"} PROVE Landed /\ Missed
BY DEF Landed, Missed, Calling

LEMMA OutcomeInit == Init => OutcomeInv
<1>1. Init => PipelineInv
    BY PipelineInit
<1>2. Init => call.surface = "none"
    BY DEF Init, NoCall
<1> QED BY <1>1, <1>2, NoneLands DEF OutcomeInv

LEMMA OutcomeNext == OutcomeInv /\ [Next]_vars => OutcomeInv'
<1> SUFFICES ASSUME OutcomeInv, [Next]_vars PROVE Landed' /\ Missed'
    BY PipelineNext DEF OutcomeInv
<1>1. ASSUME call'.surface \in {"none", "check"} PROVE Landed' /\ Missed'
    BY <1>1 DEF Landed, Missed, Calling
<1>2. ASSUME phase = "declaring", call' = call PROVE Landed' /\ Missed'
  <2>1. call'.surface = "none"
    BY <1>2 DEF OutcomeInv, PipelineInv, GatewayInv, NoCall
  <2> QED BY <1>1, <2>1
<1>3. ASSUME Ready PROVE Up
    BY <1>3 DEF Ready, Up, OutcomeInv, PipelineInv
<1>4. ASSUME Ready, NEW c \in DOMAIN registry, NEW args \in Args[c], NEW way \in Ways(c, args),
             \/ CallClient(c, args, way) \/ CallOpenApi(c, args, way)
             \/ CallGraphQL(c, args, way) \/ CallMcp(c, args, way)
             \/ CallWs(c, args, way) \/ CallDirect(c, args, way)
      PROVE  Landed' /\ Missed'
  <2>1. c \in Caps
    BY <1>3, <1>4, UpIs
  <2>2. Typed(c, args)
    BY <1>4, <2>1, GatewayAssumption
  <2>3. way.headers \in Seq(Header) /\ "validate" \notin way.rejecting
    BY <1>4, WaysTyped, WaysReject
  <2> QED BY <1>3, <1>4, <2>2, <2>3, SurfacesLand
<1>5. ASSUME Ready, DOMAIN tree # Caps, CallUnknown(CHOOSE c \in Caps : c \notin DOMAIN tree)
      PROVE  Landed' /\ Missed'
  <2> DEFINE c == CHOOSE c \in Caps : c \notin DOMAIN tree
  <2>1. c \notin DOMAIN registry
    BY <1>3, <1>5, UpIs
  <2>2. Plain.path = "own"
    BY DEF Plain
  <2> HIDE DEF c
  <2>3. CallUnknown(c)
    BY <1>5 DEF c
  <2> QED BY <2>1, <2>2, <2>3, UnknownLands DEF CallUnknown
<1>6. ASSUME NEW request, HandleRequest(request) PROVE Landed' /\ Missed'
    BY <1>6, RequestLands
<1>7. ASSUME CapixCheck PROVE Landed' /\ Missed'
  <2>1. call'.surface = "check"
    BY <1>7 DEF CapixCheck
  <2> QED BY <1>1, <2>1
<1>8. ASSUME Answered PROVE Landed' /\ Missed'
  <2>1. call'.surface = "none"
    BY <1>8 DEF Answered, NoCall
  <2> QED BY <1>1, <2>1
<1>9. ASSUME NEW c, NEW guards, Declare(c, guards) PROVE Landed' /\ Missed'
    BY <1>2, <1>9 DEF Declare
<1>10. ASSUME NEW c, NEW op, ChainOn(c, op) PROVE Landed' /\ Missed'
    BY <1>2, <1>10 DEF ChainOn
<1>11. ASSUME NEW o, Mount(o) PROVE Landed' /\ Missed'
    BY <1>2, <1>11 DEF Mount
<1>12. CASE UNCHANGED vars
  <2>1. /\ call' = call /\ script' = script /\ options' = options /\ registry' = registry /\ routes' = routes
    BY <1>12 DEF vars
  <2>2. /\ Calling' <=> Calling
        /\ Clear' <=> Clear
        /\ Unknown' <=> Unknown
        /\ Rejected' = Rejected
    BY <2>1 DEF Calling, Clear, Unknown, Rejected, IsUser
  <2>3. Carries' <=> Carries
    BY <2>1 DEF Carries, RouteOf, Addressable, Textual, Shadowed, ClientCarries, OutputFits
  <2>4. Landed'
    <3>1. Promised(call.cap)' = Promised(call.cap)
      BY <2>1 DEF Promised, Composed, Chosen
    <3>2. /\ RunOf(call.cap, Rejected)' = RunOf(call.cap, Rejected)
          /\ Free(call.cap, Rejected)' <=> Free(call.cap, Rejected)
      BY <2>1, <2>2, <3>1 DEF RunOf, Free
    <3>3. Lands(call.answer, call.cap, call.args, Rejected, NullStatus(call.surface))
          => Lands(call.answer, call.cap, call.args, Rejected, NullStatus(call.surface))'
      BY <2>1, <3>2 DEF Lands
    <3>4. Landed
      BY DEF OutcomeInv
    <3> QED BY <2>2, <2>3, <3>3, <3>4 DEF Landed
  <2>5. Missed'
    BY <2>1, <2>2 DEF OutcomeInv, Missed
  <2> QED BY <2>4, <2>5
<1>13. CASE Next
    BY <1>4, <1>5, <1>6, <1>7, <1>8, <1>9, <1>10, <1>11, <1>13 DEF Next
<1> QED BY <1>12, <1>13

(* A typed call that nothing rejects reaches its capability over every      *)
(* surface that can carry its arguments, and the resolver sees what the     *)
(* schema makes of them: the route, the coercion, the document and the tool *)
(* name lose nothing on the way.                                            *)
THEOREM CallsAlwaysArrive == Spec => []CallsArrive
<1>1. OutcomeInv => CallsArrive
    BY InvCallsArrive DEF OutcomeInv
<1> QED BY <1>1, OutcomeInit, OutcomeNext, PTL DEF Spec

(* Every surface tells a caller the same of a guard or a resolver that ends *)
(* the call, and the layers around the resolver record just that; an        *)
(* unknown name and a path beside an endpoint run nothing.                  *)
THEOREM OutcomesAreTheSame == Spec => []SameOutcome
<1>1. OutcomeInv => SameOutcome
    BY InvSameOutcome DEF OutcomeInv
<1> QED BY <1>1, OutcomeInit, OutcomeNext, PTL DEF Spec
=============================================================================
