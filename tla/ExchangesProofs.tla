-------------------------- MODULE ExchangesProofs --------------------------
(***************************************************************************)
(* Theorems about Exchanges, for any members, messages and thresholds:     *)
(* types, that what is sent is signed by enough members who posted it, and *)
(* that no message falls between the members' agents.                      *)
(***************************************************************************)
EXTENDS Exchanges, SequenceTheorems, FiniteSetTheorems, WellFoundedInduction, TLAPS

\* An agent knows signatures of members that posted; what is queued is posted.
KnownInv ==
  /\ \A m \in Members, x \in Msgs : held[m][x] \subseteq Posters(x)
  /\ \A m \in Members : \A item \in Range(exchanges[m]) : m \in Posters(item.msg)
  /\ \A m \in Members : \A x \in grants[m] : m \in Posters(x)

\* What an agent has verified is signed by enough.
SavedInv == \A m \in Members : \A x \in saved[m] : Cardinality(held[m][x]) >= Threshold[x]

\* So is what is on its way to the recipient or there.
SignedInv ==
  /\ \A d \in deliveries \cup received :
       IF d.what = "exn"
       THEN /\ d.signers \subseteq Posters(d.msg)
            /\ d.to = Recipient => Cardinality(d.signers) >= Threshold[d.msg]
       ELSE /\ d.to = Recipient /\ d.from \in Posters(d.msg)
            /\ Cardinality(Posters(d.msg)) >= Threshold[d.msg]
  /\ \A d \in received : d.to = Recipient

\* The first of those who posted a message is the one that sends it, or has sent it, when its
\* agent can.
First(p, x) == p \in Posters(x) /\ \A n \in Posters(x) : p <= n
SentInv ==
  \A x \in Msgs, p \in Members : First(p, x) =>
    /\ Reachable({p}, x) => Of("exn", x) # {} \/ Item(x, Recipient) \in Range(exchanges[p])
    /\ Kind[x] = "grant" /\ Fine({p}, x) => Of("artifacts", x) # {} \/ x \in grants[p]
AdmittedInv ==
  \A x \in Msgs, p \in Members :
    Kind[x] = "admit" /\ p \in Posters(x) /\ Fine({p}, x) =>
      <<p, x>> \in credentials \/ x \in Range(admits[p])
QueuedInv == stops = 0 => SentInv /\ AdmittedInv

IInv == TypeOK /\ KnownInv /\ SavedInv /\ SignedInv /\ QueuedInv

-----------------------------------------------------------------------------

\* A member's set with one more element, and its place in a table of the members' sets.
LEMMA Added ==
  ASSUME NEW A, NEW B, NEW f \in [A -> SUBSET B], NEW a \in A, NEW b \in B
  PROVE  [f EXCEPT ![a] = @ \cup {b}] \in [A -> SUBSET B]
<1>1. f[a] \cup {b} \in SUBSET B
  OBVIOUS
<1> QED BY <1>1

LEMMA Placed ==
  ASSUME NEW A, NEW B, NEW C, NEW f \in [A -> [B -> C]], NEW a \in A, NEW b \in B, NEW c \in C
  PROVE  /\ [f EXCEPT ![a][b] = c] \in [A -> [B -> C]]
         /\ [f EXCEPT ![a][b] = c][a][b] = c
         /\ \A i \in A, j \in B : i # a \/ j # b => [f EXCEPT ![a][b] = c][i][j] = f[i][j]
OBVIOUS

\* What a queue holds when something joins or leaves it.
LEMMA Joined ==
  ASSUME NEW S, NEW s \in Seq(S), NEW e \in S
  PROVE  Append(s, e) \in Seq(S) /\ Range(Append(s, e)) = Range(s) \cup {e}
<1>1. /\ Append(s, e) \in Seq(S) /\ Len(Append(s, e)) = Len(s) + 1 /\ Len(s) \in Nat
      /\ \A k \in 1..Len(s) : Append(s, e)[k] = s[k]
      /\ Append(s, e)[Len(s) + 1] = e
  BY AppendProperties, LenProperties
<1>2. DOMAIN s = 1..Len(s) /\ DOMAIN Append(s, e) = 1..(Len(s) + 1)
  BY <1>1, LenProperties
<1>3. DOMAIN Append(s, e) = DOMAIN s \cup {Len(s) + 1}
  BY <1>1, <1>2
<1> QED BY <1>1, <1>2, <1>3 DEF Range

LEMMA Left ==
  ASSUME NEW S, NEW s \in Seq(S), s # <<>>
  PROVE  /\ Head(s) \in S /\ Tail(s) \in Seq(S)
         /\ Head(s) \in Range(s) /\ Range(s) = Range(Tail(s)) \cup {Head(s)}
<1>1. /\ Head(s) \in S /\ Tail(s) \in Seq(S) /\ Len(Tail(s)) = Len(s) - 1
      /\ \A k \in 1..Len(Tail(s)) : Tail(s)[k] = s[k + 1]
  BY HeadTailProperties
<1>2. Len(s) \in Nat \ {0} /\ DOMAIN s = 1..Len(s) /\ DOMAIN Tail(s) = 1..(Len(s) - 1)
  BY <1>1, EmptySeq, LenProperties
<1>3. Head(s) = s[1] /\ 1 \in DOMAIN s
  BY <1>2
<1>4. ASSUME NEW k \in DOMAIN s PROVE s[k] \in Range(Tail(s)) \cup {Head(s)}
  <2>1. CASE k = 1
    BY <2>1, <1>3
  <2>2. CASE k # 1
    <3>1. k - 1 \in DOMAIN Tail(s) /\ k - 1 \in 1..Len(Tail(s)) /\ (k - 1) + 1 = k
      BY <2>2, <1>1, <1>2
    <3>2. Tail(s)[k - 1] = s[k]
      BY <3>1, <1>1
    <3> QED BY <3>1, <3>2 DEF Range
  <2> QED BY <2>1, <2>2
<1>5. ASSUME NEW k \in DOMAIN Tail(s) PROVE Tail(s)[k] \in Range(s)
  <2>1. k + 1 \in DOMAIN s /\ Tail(s)[k] = s[k + 1]
    BY <1>1, <1>2
  <2> QED BY <2>1 DEF Range
<1> QED BY <1>1, <1>3, <1>4, <1>5 DEF Range

\* A nonempty set of members has a first one.
LEMMA LeastMember ==
  ASSUME NEW T, T \subseteq Members, T # {}
  PROVE  \E p \in T : \A n \in T : p <= n
<1> DEFINE R == OpToRel(<, Nat)
<1>1. IsWellFoundedOn(R, Nat)
  BY NatLessThanWellFounded
<1>2. \A x, y \in Nat : y < x => <<y, x>> \in R
  BY DEF OpToRel
<1> HIDE DEF R
<1>3. T \subseteq Nat
  BY MembersAssumption
<1>4. PICK x \in T : \A y \in T : ~ (<<y, x>> \in R)
  BY <1>1, <1>3, WFMin
<1>5. \A y \in T : ~ (y < x)
  BY <1>2, <1>3, <1>4
<1> QED BY <1>3, <1>4, <1>5

\* Members are finitely many, so are the signers of anything.
LEMMA Counted ==
  ASSUME NEW A, NEW B, A \subseteq B, B \subseteq Members
  PROVE  /\ Cardinality(A) \in Nat /\ Cardinality(B) \in Nat /\ Cardinality(A) <= Cardinality(B)
<1>1. IsFiniteSet(B) /\ IsFiniteSet(A)
  BY MembersAssumption, FS_Subset
<1> QED BY <1>1, FS_Subset, FS_CardinalityType

\* What a step leaves of the invariant when nobody posts, and what is sent is signed.
LEMMA QuietStep ==
  ASSUME TypeOK, KnownInv, SavedInv, SignedInv, posts' = posts, NEW new, deliveries' \subseteq deliveries \cup new,
         \A m \in Members, x \in Msgs : held'[m][x] \subseteq Posters(x) /\ held[m][x] \subseteq held'[m][x],
         \A m \in Members : Range(exchanges'[m]) \subseteq {item \in Items : m \in Posters(item.msg)},
         \A m \in Members : grants'[m] \subseteq grants[m],
         \A m \in Members : \A x \in saved'[m] :
           x \in Msgs /\ (x \in saved[m] \/ Cardinality(held'[m][x]) >= Threshold[x]),
         received' \subseteq received \cup {d \in deliveries : d.to = Recipient},
         \A d \in new : IF d.what = "exn"
                        THEN /\ d.signers \subseteq Posters(d.msg)
                             /\ d.to = Recipient => Cardinality(d.signers) >= Threshold[d.msg]
                        ELSE /\ d.to = Recipient /\ d.from \in Posters(d.msg)
                             /\ Cardinality(Posters(d.msg)) >= Threshold[d.msg]
  PROVE  KnownInv' /\ SavedInv' /\ SignedInv'
<1>1. \A x : Posters(x)' = Posters(x)
  BY DEF Posters
<1>2. KnownInv'
  BY <1>1 DEF KnownInv
<1>3. SavedInv'
  <2> SUFFICES ASSUME NEW m \in Members, NEW x \in saved'[m]
               PROVE  Cardinality(held'[m][x]) >= Threshold[x]
    BY DEF SavedInv
  <2>1. CASE x \in saved[m]
    <3>1. x \in Msgs /\ held[m][x] \subseteq held'[m][x] /\ held'[m][x] \subseteq Members
      BY DEF Posters
    <3>2. /\ Cardinality(held[m][x]) \in Nat /\ Cardinality(held'[m][x]) \in Nat
          /\ Cardinality(held[m][x]) <= Cardinality(held'[m][x])
      BY <3>1, Counted
    <3>3. Cardinality(held[m][x]) >= Threshold[x] /\ Threshold[x] \in Nat
      BY <2>1, <3>1, SignersAssumption DEF SavedInv
    <3> QED BY <3>2, <3>3
  <2>2. CASE x \notin saved[m]
    BY <2>2
  <2> QED BY <2>1, <2>2
<1>4. SignedInv'
  BY <1>1 DEF SignedInv
<1> QED BY <1>2, <1>3, <1>4

-----------------------------------------------------------------------------

\* A member's agent that knows only posters leads when it is the first of them.
LEMMA FirstLeads ==
  ASSUME KnownInv, NEW p \in Members, NEW x \in Msgs, First(p, x)
  PROVE  Lead(p, x)
BY DEF KnownInv, First, Lead

\* What is delivered to the recipient stays with it.
LEMMA SameOf ==
  ASSUME NEW what, NEW x,
         {d \in deliveries : d.to = Recipient} \subseteq deliveries' \cup received',
         received \subseteq received'
  PROVE  Of(what, x) \subseteq Of(what, x)'
BY DEF Of

\* A step of the agents that drops nothing, takes the queued message that is taken from a queue
\* to the recipient's postman, and posts nothing.
LEMMA QuietQueues ==
  ASSUME TypeOK, QueuedInv, UNCHANGED <<posts, stops>>,
         {d \in deliveries : d.to = Recipient} \subseteq deliveries' \cup received',
         received \subseteq received', credentials \subseteq credentials',
         \A x \in Msgs, p \in Members : First(p, x) =>
           /\ Reachable({p}, x) /\ Item(x, Recipient) \in Range(exchanges[p]) =>
                Of("exn", x)' # {} \/ Item(x, Recipient) \in Range(exchanges'[p])
           /\ Fine({p}, x) /\ x \in grants[p] => Of("artifacts", x)' # {} \/ x \in grants'[p],
         \A x \in Msgs, p \in Members :
           Fine({p}, x) /\ x \in Range(admits[p]) =>
             <<p, x>> \in credentials' \/ x \in Range(admits'[p])
  PROVE  QueuedInv'
<1>1. \A x : Posters(x)' = Posters(x)
  BY DEF Posters
<1>2. \A x, p : First(p, x)' <=> First(p, x)
  BY <1>1 DEF First
<1>3. \A x : Of("exn", x) \subseteq Of("exn", x)' /\ Of("artifacts", x) \subseteq Of("artifacts", x)'
  BY SameOf
<1>4. SentInv => SentInv'
  BY <1>2, <1>3 DEF SentInv
<1>5. AdmittedInv => AdmittedInv'
  BY <1>1 DEF AdmittedInv
<1> QED BY <1>4, <1>5 DEF QueuedInv

\* What is in a queue is an item of a message that was posted.
LEMMA QueuedItems ==
  ASSUME TypeOK, KnownInv, NEW k \in Members
  PROVE  Range(exchanges[k]) \subseteq {i \in Items : k \in Posters(i.msg)}
<1>1. exchanges[k] \in Seq(Items)
  BY DEF TypeOK
<1>2. Range(exchanges[k]) \subseteq Items
  BY <1>1, ElementOfSeq, LenProperties DEF Range
<1> QED BY <1>2 DEF KnownInv

\* A member posts: it signs itself, and its message joins its queue.
LEMMA PostedInv ==
  ASSUME IInv, NEW m \in Members, NEW x \in Msgs, Posted(m, x),
         grants' = grants \/ grants' = [grants EXCEPT ![m] = @ \cup {x}],
         admits' = admits \/ admits' = [admits EXCEPT ![m] = Append(@, x)],
         ops' = ops \/ Submit(m, x),
         Kind[x] = "grant" => x \in grants'[m], Kind[x] = "admit" => x \in Range(admits'[m])
  PROVE  IInv'
<1> USE DEF IInv
<1> DEFINE item == Item(x, Recipient)
<1>1. item \in Items /\ item.msg = x
  BY DEF Items, Item
<1>2. exchanges[m] \in Seq(Items) /\ admits[m] \in Seq(Msgs)
  BY DEF TypeOK
<1>3. /\ Append(exchanges[m], item) \in Seq(Items)
      /\ Range(Append(exchanges[m], item)) = Range(exchanges[m]) \cup {item}
      /\ Append(admits[m], x) \in Seq(Msgs)
      /\ Range(Append(admits[m], x)) = Range(admits[m]) \cup {x}
  BY <1>1, <1>2, Joined
<1>4. /\ exchanges' = [exchanges EXCEPT ![m] = Append(@, item)]
      /\ held' = [held EXCEPT ![m][x] = @ \cup {m}]
      /\ posts' = [posts EXCEPT ![m][x] = @ + 1] /\ posts[m][x] < MaxPosts
      /\ UNCHANGED <<saved, deliveries, received, credentials, requested, stops>>
  BY DEF Posted
<1> HIDE DEF item
<1>5. TypeOK'
  <2>1. held' \in [Members -> [Msgs -> SUBSET Members]]
    <3>1. held \in [Members -> [Msgs -> SUBSET Members]]
      BY DEF TypeOK
    <3>2. held[m][x] \cup {m} \in SUBSET Members
      BY <3>1
    <3> QED BY <1>4, <3>1, <3>2, Placed
  <2>2. posts' \in [Members -> [Msgs -> 0..MaxPosts]]
    <3>1. posts \in [Members -> [Msgs -> 0..MaxPosts]] /\ posts[m][x] \in 0..MaxPosts
      BY DEF TypeOK
    <3>2. posts[m][x] + 1 \in 0..MaxPosts
      BY <1>4, <3>1, BoundAssumption
    <3> QED BY <1>4, <3>1, <3>2
  <2>3. exchanges' \in [Members -> Seq(Items)]
    BY <1>3, <1>4 DEF TypeOK
  <2>4. admits' \in [Members -> Seq(Msgs)]
    BY <1>3 DEF TypeOK
  <2>5. grants' \in [Members -> SUBSET Msgs] /\ ops' \in [Members -> SUBSET Msgs]
    <3>1. grants \in [Members -> SUBSET Msgs] /\ ops \in [Members -> SUBSET Msgs]
      BY DEF TypeOK
    <3>2. /\ [grants EXCEPT ![m] = @ \cup {x}] \in [Members -> SUBSET Msgs]
          /\ [ops EXCEPT ![m] = @ \cup {x}] \in [Members -> SUBSET Msgs]
      BY <3>1, Added
    <3> QED BY <3>1, <3>2 DEF Submit
  <2> QED BY <1>4, <2>1, <2>2, <2>3, <2>4, <2>5 DEF TypeOK
<1>6. /\ \A y \in Msgs \ {x} : Posters(y)' = Posters(y)
      /\ Posters(x)' = Posters(x) \cup {m}
  <2>1. \A n \in Members, y \in Msgs : n # m \/ y # x => posts'[n][y] = posts[n][y]
    BY <1>4 DEF TypeOK
  <2>2. posts'[m][x] = posts[m][x] + 1 /\ posts[m][x] \in Nat
    BY <1>4, BoundAssumption DEF TypeOK
  <2> QED BY <2>1, <2>2 DEF Posters
<1>7. \A y \in Msgs : Posters(y) \subseteq Posters(y)' /\ Posters(y)' \subseteq Members
  BY <1>6 DEF Posters
<1>8. /\ \A n \in Members : n # m => exchanges'[n] = exchanges[n]
      /\ Range(exchanges'[m]) = Range(exchanges[m]) \cup {item}
  BY <1>3, <1>4 DEF TypeOK
<1>9. /\ \A n \in Members : n # m => grants'[n] = grants[n] /\ admits'[n] = admits[n]
      /\ grants[m] \subseteq grants'[m] /\ grants'[m] \subseteq grants[m] \cup {x}
      /\ Range(admits[m]) \subseteq Range(admits'[m])
  <2>1. grants \in [Members -> SUBSET Msgs] /\ admits \in [Members -> Seq(Msgs)]
    BY DEF TypeOK
  <2>2. /\ \A n \in Members : n # m => grants'[n] = grants[n]
        /\ grants[m] \subseteq grants'[m] /\ grants'[m] \subseteq grants[m] \cup {x}
    BY <2>1
  <2> DEFINE longer == Append(admits[m], x)
  <2>3. admits' = admits \/ admits' = [admits EXCEPT ![m] = longer]
    OBVIOUS
  <2>4. Range(admits[m]) \subseteq Range(longer)
    BY <1>3
  <2> HIDE DEF longer
  <2>5. /\ \A n \in Members : n # m => admits'[n] = admits[n]
        /\ Range(admits[m]) \subseteq Range(admits'[m])
    BY <2>1, <2>3, <2>4
  <2> QED BY <2>2, <2>5
<1>10. /\ \A n \in Members, y \in Msgs : n # m \/ y # x => held'[n][y] = held[n][y]
       /\ held'[m][x] = held[m][x] \cup {m}
  <2>1. held \in [Members -> [Msgs -> SUBSET Members]]
    BY DEF TypeOK
  <2> DEFINE known == held[m][x] \cup {m}
  <2>2. known \in SUBSET Members /\ held' = [held EXCEPT ![m][x] = known]
    BY <1>4, <2>1
  <2> HIDE DEF known
  <2>3. /\ held'[m][x] = known
        /\ \A n \in Members, y \in Msgs : n # m \/ y # x => held'[n][y] = held[n][y]
    BY <2>1, <2>2, Placed
  <2> QED BY <2>3 DEF known
<1>11. KnownInv'
  <2>1. \A n \in Members, y \in Msgs : held'[n][y] \subseteq Posters(y)'
    BY <1>6, <1>7, <1>10 DEF KnownInv
  <2>2. \A n \in Members : \A i \in Range(exchanges'[n]) : n \in Posters(i.msg)'
    <3> SUFFICES ASSUME NEW n \in Members, NEW i \in Range(exchanges'[n]) PROVE n \in Posters(i.msg)'
      OBVIOUS
    <3>1. CASE i \in Range(exchanges[n])
      <4>1. i \in Items
        BY <3>1, ElementOfSeq, LenProperties DEF TypeOK, Range
      <4>2. i.msg \in Msgs
        BY <4>1 DEF Items
      <4> QED BY <3>1, <4>2, <1>7 DEF KnownInv
    <3>2. CASE i \notin Range(exchanges[n])
      <4>1. n = m /\ i = item
        BY <3>2, <1>8
      <4> QED BY <4>1, <1>1, <1>6
    <3> QED BY <3>1, <3>2
  <2>3. \A n \in Members : \A y \in grants'[n] : n \in Posters(y)'
    <3>1. \A n \in Members : grants[n] \subseteq Msgs
      BY DEF TypeOK
    <3> QED BY <3>1, <1>6, <1>7, <1>9 DEF KnownInv
  <2> QED BY <2>1, <2>2, <2>3 DEF KnownInv
<1>12. SavedInv'
  <2> SUFFICES ASSUME NEW n \in Members, NEW y \in saved[n]
               PROVE  Cardinality(held'[n][y]) >= Threshold[y]
    BY <1>4 DEF SavedInv
  <2>1. y \in Msgs /\ held[n][y] \subseteq held'[n][y] /\ held'[n][y] \subseteq Members
    <3>1. y \in Msgs /\ held'[n][y] \in SUBSET Members
      BY <1>5 DEF TypeOK
    <3> QED BY <3>1, <1>10
  <2>2. /\ Cardinality(held[n][y]) \in Nat /\ Cardinality(held'[n][y]) \in Nat
        /\ Cardinality(held[n][y]) <= Cardinality(held'[n][y])
    BY <2>1, Counted
  <2>3. Cardinality(held[n][y]) >= Threshold[y] /\ Threshold[y] \in Nat
    BY <2>1, SignersAssumption DEF SavedInv
  <2> QED BY <2>2, <2>3
<1>13. SignedInv'
  <2>1. ASSUME NEW d \in deliveries \cup received
        PROVE  IF d.what = "exn"
               THEN /\ d.signers \subseteq Posters(d.msg)'
                    /\ d.to = Recipient => Cardinality(d.signers) >= Threshold[d.msg]
               ELSE /\ d.to = Recipient /\ d.from \in Posters(d.msg)'
                    /\ Cardinality(Posters(d.msg)') >= Threshold[d.msg]
    <3>1. d.msg \in Msgs
      BY DEF TypeOK, Deliveries
    <3>2. Posters(d.msg) \subseteq Posters(d.msg)' /\ Posters(d.msg)' \subseteq Members
      BY <3>1, <1>7
    <3>3. /\ Cardinality(Posters(d.msg)) \in Nat /\ Cardinality(Posters(d.msg)') \in Nat
          /\ Cardinality(Posters(d.msg)) <= Cardinality(Posters(d.msg)')
      BY <3>2, Counted
    <3>4. Threshold[d.msg] \in Nat
      BY <3>1, SignersAssumption
    <3>5. CASE d.what = "exn"
      BY <3>5, <3>2 DEF SignedInv
    <3>6. CASE d.what # "exn"
      BY <3>6, <3>2, <3>3, <3>4 DEF SignedInv
    <3> QED BY <3>5, <3>6
  <2> QED BY <2>1, <1>4 DEF SignedInv
<1>14. QueuedInv'
  <2> SUFFICES ASSUME stops = 0 PROVE SentInv' /\ AdmittedInv'
    BY <1>4 DEF QueuedInv
  <2>1. SentInv /\ AdmittedInv
    BY DEF QueuedInv
  <2>2. \A w, y : Of(w, y)' = Of(w, y)
    BY <1>4 DEF Of
  <2>3. ASSUME NEW y \in Msgs, NEW p \in Members, First(p, y)'
        PROVE  (p = m /\ y = x) \/ First(p, y)
    BY <2>3, <1>6, <1>7 DEF First
  <2>4. SentInv'
    <3>1. ASSUME NEW y \in Msgs, NEW p \in Members, First(p, y)'
          PROVE  /\ Reachable({p}, y) => Of("exn", y)' # {} \/ Item(y, Recipient) \in Range(exchanges'[p])
                 /\ Kind[y] = "grant" /\ Fine({p}, y) =>
                      Of("artifacts", y)' # {} \/ y \in grants'[p]
      <4>1. CASE p = m /\ y = x
        BY <4>1, <1>8 DEF item
      <4>2. CASE First(p, y)
        <5>1. Range(exchanges[p]) \subseteq Range(exchanges'[p]) /\ grants[p] \subseteq grants'[p]
          BY <1>8, <1>9
        <5> QED BY <4>2, <5>1, <2>1, <2>2 DEF SentInv
      <4> QED BY <3>1, <4>1, <4>2, <2>3
    <3> QED BY <3>1 DEF SentInv
  <2>5. AdmittedInv'
    <3>1. ASSUME NEW y \in Msgs, NEW p \in Members, Kind[y] = "admit", p \in Posters(y)', Fine({p}, y)
          PROVE  <<p, y>> \in credentials' \/ y \in Range(admits'[p])
      <4>1. CASE p = m /\ y = x
        BY <4>1, <3>1
      <4>2. CASE p # m \/ y # x
        <5>1. p \in Posters(y) /\ Range(admits[p]) \subseteq Range(admits'[p])
          BY <4>2, <3>1, <1>6, <1>9
        <5> QED BY <5>1, <3>1, <2>1, <1>4 DEF AdmittedInv
      <4> QED BY <4>1, <4>2
    <3> QED BY <3>1 DEF AdmittedInv
  <2> QED BY <2>4, <2>5
<1> QED BY <1>5, <1>11, <1>12, <1>13, <1>14

\* The endpoints, all of which post.
LEMMA PostInv ==
  ASSUME IInv, NEW m \in Members, NEW x \in Msgs, Post(m, x)
  PROVE  IInv'
<1>1. grants \in [Members -> SUBSET Msgs] /\ admits \in [Members -> Seq(Msgs)]
  BY DEF IInv, TypeOK
<1>2. Posted(m, x) /\ (ops' = ops \/ Submit(m, x))
  BY DEF Post, PostExchange, PostChallenge, PostNegotiation, PostGrant, PostAdmit
<1>3. /\ grants' = grants \/ grants' = [grants EXCEPT ![m] = @ \cup {x}]
      /\ admits' = admits \/ admits' = [admits EXCEPT ![m] = Append(@, x)]
  BY DEF Post, PostExchange, PostChallenge, PostNegotiation, PostGrant, PostAdmit
<1>4. Kind[x] = "grant" => x \in grants'[m]
  <2>1. Kind[x] = "grant" => PostGrant(m, x)
    BY DEF Post, PostExchange, PostChallenge, PostNegotiation, PostAdmit
  <2> QED BY <2>1, <1>1 DEF PostGrant
<1>5. Kind[x] = "admit" => x \in Range(admits'[m])
  <2>1. Kind[x] = "admit" => PostAdmit(m, x)
    BY DEF Post, PostExchange, PostChallenge, PostNegotiation, PostGrant
  <2>2. x \in Range(Append(admits[m], x))
    BY <1>1, Joined
  <2> QED BY <2>1, <2>2, <1>1 DEF PostAdmit
<1> QED BY <1>2, <1>3, <1>4, <1>5, PostedInv

\* An agent verifies a message that enough have signed.
LEMMA SaveInv ==
  ASSUME IInv, NEW m \in Members, NEW x \in Msgs, Save(m, x)
  PROVE  IInv'
<1> USE DEF IInv, clients
<1>1. /\ saved' = [saved EXCEPT ![m] = @ \cup {x}] /\ Cardinality(held[m][x]) >= Threshold[x]
      /\ UNCHANGED <<held, exchanges, grants, admits, ops, deliveries, received, credentials, posts,
                     requested, stops>>
  BY DEF Save
<1>2. TypeOK'
  <2>1. saved \in [Members -> SUBSET Msgs]
    BY DEF TypeOK
  <2>2. saved' \in [Members -> SUBSET Msgs]
    BY <1>1, <2>1, Added
  <2> QED BY <1>1, <2>2 DEF TypeOK
<1>3. ASSUME NEW n \in Members, NEW y \in saved'[n]
      PROVE  y \in Msgs /\ (y \in saved[n] \/ Cardinality(held'[n][y]) >= Threshold[y])
  <2>1. y \in saved[n] \/ (n = m /\ y = x)
    BY <1>1, <1>3 DEF TypeOK
  <2> QED BY <2>1, <1>1 DEF TypeOK
<1>4. \A n \in Members : Range(exchanges'[n]) \subseteq {item \in Items : n \in Posters(item.msg)}
  BY <1>1, QueuedItems
<1>5. KnownInv' /\ SavedInv' /\ SignedInv'
  <2> DEFINE new == {}
  <2>1. deliveries' \subseteq deliveries \cup new /\ \A d \in new : FALSE
    BY <1>1
  <2> HIDE DEF new
  <2>2. \A n \in Members, y \in Msgs : held'[n][y] \subseteq Posters(y) /\ held[n][y] \subseteq held'[n][y]
    BY <1>1 DEF KnownInv
  <2> QED BY <1>1, <1>3, <1>4, <2>1, <2>2, QuietStep
<1>6. QueuedInv'
  BY <1>1, QuietQueues
<1> QED BY <1>2, <1>5, <1>6

\* A member tells another of its signature.
LEMMA RequestInv ==
  ASSUME IInv, NEW m \in Members, NEW x \in Msgs, NEW n \in Members, Request(m, x, n)
  PROVE  IInv'
<1> USE DEF IInv
<1> DEFINE item == Item(x, n)
<1>1. /\ exchanges' = [exchanges EXCEPT ![m] = Append(@, item)] /\ posts[m][x] > 0
      /\ requested' = [requested EXCEPT ![m][x] = @ \cup {n}]
      /\ UNCHANGED <<held, saved, grants, admits, ops, deliveries, received, credentials, posts, stops>>
  BY DEF Request
<1>2. item \in Items /\ item.msg = x /\ m \in Posters(item.msg)
  BY <1>1 DEF Items, Item, Posters
<1>3. exchanges \in [Members -> Seq(Items)]
  BY DEF TypeOK
<1>4. /\ Append(exchanges[m], item) \in Seq(Items)
      /\ Range(Append(exchanges[m], item)) = Range(exchanges[m]) \cup {item}
  BY <1>2, <1>3, Joined
<1> HIDE DEF item
<1>5. /\ exchanges' \in [Members -> Seq(Items)]
      /\ Range(exchanges'[m]) = Range(exchanges[m]) \cup {item}
      /\ \A k \in Members : k # m => exchanges'[k] = exchanges[k]
  BY <1>1, <1>3, <1>4
<1>6. TypeOK'
  <2>1. requested \in [Members -> [Msgs -> SUBSET Members]]
    BY DEF TypeOK
  <2>2. requested[m][x] \cup {n} \in SUBSET Members
    BY <2>1
  <2>3. requested' \in [Members -> [Msgs -> SUBSET Members]]
    BY <1>1, <2>1, <2>2, Placed
  <2> QED BY <1>1, <1>5, <2>3 DEF TypeOK
<1>7. \A k \in Members : Range(exchanges'[k]) \subseteq {i \in Items : k \in Posters(i.msg)}
  BY <1>2, <1>5, QueuedItems
<1>8. KnownInv' /\ SavedInv' /\ SignedInv'
  <2> DEFINE new == {}
  <2>1. deliveries' \subseteq deliveries \cup new /\ \A d \in new : FALSE
    BY <1>1
  <2> HIDE DEF new
  <2>2. \A k \in Members, y \in Msgs : held'[k][y] \subseteq Posters(y) /\ held[k][y] \subseteq held'[k][y]
    BY <1>1 DEF KnownInv
  <2>3. \A k \in Members : \A y \in saved'[k] : y \in Msgs /\ y \in saved[k]
    BY <1>1 DEF TypeOK
  <2> QED BY <1>1, <1>7, <2>1, <2>2, <2>3, QuietStep
<1>9. QueuedInv'
  <2>1. \A k \in Members : Range(exchanges[k]) \subseteq Range(exchanges'[k])
    BY <1>5
  <2> QED BY <1>1, <2>1, QuietQueues
<1> QED BY <1>6, <1>8, <1>9

\* The ExchangeSender takes the first of its queue, and sends it or puts it back.
LEMMA SenderInv ==
  ASSUME IInv, NEW m \in Members, ExchangeSender(m)
  PROVE  IInv'
<1> USE DEF IInv, clients
<1> DEFINE item    == Head(exchanges[m])
           signers == IF item.to = Recipient THEN held[m][item.msg] ELSE {m}
           exn     == Exn(m, item.msg, item.to, signers)
           new     == IF Sendable(m, item) THEN {exn} ELSE {}
<1>1. /\ exchanges[m] # <<>> /\ exchanges' = [exchanges EXCEPT ![m] = Unsent(m, item)]
      /\ deliveries' = deliveries \cup new
      /\ UNCHANGED <<held, saved, grants, admits, ops, received, credentials, posts, requested, stops>>
  BY DEF ExchangeSender
<1>2. exchanges \in [Members -> Seq(Items)]
  BY DEF TypeOK
<1>3. /\ item \in Items /\ Tail(exchanges[m]) \in Seq(Items) /\ item \in Range(exchanges[m])
      /\ Range(exchanges[m]) = Range(Tail(exchanges[m])) \cup {item}
  BY <1>1, <1>2, Left
<1>4. /\ Append(Tail(exchanges[m]), item) \in Seq(Items)
      /\ Range(Append(Tail(exchanges[m]), item)) = Range(exchanges[m])
  <2> DEFINE rest == Tail(exchanges[m])
  <2> HIDE DEF item, rest
  <2>1. rest \in Seq(Items) /\ item \in Items
    BY <1>3 DEF rest
  <2>2. Append(rest, item) \in Seq(Items) /\ Range(Append(rest, item)) = Range(rest) \cup {item}
    BY <2>1, Joined
  <2> QED BY <2>2, <1>3 DEF rest
<1>5. item.msg \in Msgs /\ item.to \in Members \cup {Recipient} /\ m \in Posters(item.msg)
  BY <1>3 DEF Items, KnownInv
<1>6. /\ exchanges' \in [Members -> Seq(Items)]
      /\ \A k \in Members : k # m => exchanges'[k] = exchanges[k]
      /\ Range(exchanges'[m]) \subseteq Range(exchanges[m])
      /\ Range(exchanges[m]) \subseteq
           Range(exchanges'[m]) \cup (IF Complete(m, item) THEN {item} ELSE {})
  <2>1. Unsent(m, item) \in Seq(Items)
    BY <1>3, <1>4 DEF Unsent
  <2>2. exchanges'[m] = Unsent(m, item)
    BY <1>1, <1>2
  <2> QED BY <1>1, <1>2, <1>3, <1>4, <2>1, <2>2 DEF Unsent
<1>7. signers \subseteq Posters(item.msg) /\ signers \subseteq Members
  <2>1. held[m][item.msg] \subseteq Posters(item.msg)
    BY <1>5 DEF KnownInv
  <2> QED BY <2>1, <1>5 DEF Posters
<1>8. new \subseteq Deliveries
      /\ \A d \in new : /\ d.what = "exn" /\ d.signers = signers /\ d.msg = item.msg
                        /\ d.to = item.to /\ Sendable(m, item)
  BY <1>5, <1>7 DEF Exn, Deliveries
<1>9. item.to = Recipient /\ Complete(m, item) => Cardinality(signers) >= Threshold[item.msg]
  BY <1>5 DEF Complete, SavedInv
<1>10. ASSUME NEW x, item.to = Recipient, item.msg = x, Sendable(m, item)
       PROVE  Of("exn", x)' # {}
  <2> HIDE DEF item, signers
  <2>1. exn \in deliveries'
    BY <1>1, <1>10
  <2>2. exn.what = "exn" /\ exn.msg = x /\ exn.to = Recipient
    BY <1>10 DEF Exn
  <2> HIDE DEF exn
  <2> QED BY <2>1, <2>2 DEF Of
<1> HIDE DEF item, signers, exn, new
<1>11. TypeOK'
  BY <1>1, <1>6, <1>8 DEF TypeOK
<1>12. \A k \in Members : Range(exchanges'[k]) \subseteq {i \in Items : k \in Posters(i.msg)}
  BY <1>6, QueuedItems
<1>13. KnownInv' /\ SavedInv' /\ SignedInv'
  <2>1. \A k \in Members, y \in Msgs : held'[k][y] \subseteq Posters(y) /\ held[k][y] \subseteq held'[k][y]
    BY <1>1 DEF KnownInv
  <2>2. \A k \in Members : \A y \in saved'[k] : y \in Msgs /\ y \in saved[k]
    BY <1>1 DEF TypeOK
  <2>3. \A d \in new : /\ d.what = "exn" /\ d.signers \subseteq Posters(d.msg)
                       /\ d.to = Recipient => Cardinality(d.signers) >= Threshold[d.msg]
    BY <1>7, <1>8, <1>9 DEF Sendable
  <2> QED BY <1>1, <1>12, <2>1, <2>2, <2>3, QuietStep
<1>14. QueuedInv'
  <2>1. ASSUME NEW x \in Msgs, NEW p \in Members, First(p, x), Reachable({p}, x),
               Item(x, Recipient) \in Range(exchanges[p])
        PROVE  Of("exn", x)' # {} \/ Item(x, Recipient) \in Range(exchanges'[p])
    <3>1. CASE p # m \/ item # Item(x, Recipient) \/ ~ Complete(m, item)
      <4>1. CASE p # m
        BY <4>1, <2>1, <1>6
      <4>2. CASE p = m
        BY <4>2, <3>1, <2>1, <1>6
      <4> QED BY <4>1, <4>2
    <3>2. CASE p = m /\ item = Item(x, Recipient) /\ Complete(m, item)
      <4>1. item.to = Recipient /\ item.msg = x
        BY <3>2 DEF Item
      <4>2. Sendable(m, item)
        BY <3>2, <4>1, <2>1, FirstLeads DEF Sendable, Leads, Taken, Reachable
      <4> QED BY <4>1, <4>2, <1>10
    <3> QED BY <3>1, <3>2
  <2> QED BY <1>1, <2>1, QuietQueues
<1> QED BY <1>11, <1>13, <1>14

\* An agent whose process ends forgets its queues, and its verified messages not.
LEMMA HaltInv ==
  ASSUME IInv, NEW m \in Members, Halt(m)
  PROVE  IInv'
<1> USE DEF IInv, clients
<1>1. /\ exchanges' = [exchanges EXCEPT ![m] = <<>>] /\ grants' = [grants EXCEPT ![m] = {}]
      /\ admits' = [admits EXCEPT ![m] = <<>>]
      /\ deliveries' \subseteq deliveries /\ stops' = stops + 1
      /\ UNCHANGED <<held, saved, ops, received, credentials, posts, requested>>
  BY DEF Halt
<1>2. exchanges \in [Members -> Seq(Items)] /\ grants \in [Members -> SUBSET Msgs]
      /\ admits \in [Members -> Seq(Msgs)] /\ stops \in Nat
  BY DEF TypeOK
<1>3. <<>> \in Seq(Items) /\ <<>> \in Seq(Msgs)
  BY EmptySeq
<1>4. Range(<<>>) = {}
  BY DEF Range
<1>5. /\ exchanges' \in [Members -> Seq(Items)] /\ grants' \in [Members -> SUBSET Msgs]
      /\ admits' \in [Members -> Seq(Msgs)] /\ stops' \in Nat /\ stops' # 0
      /\ \A k \in Members : grants'[k] \subseteq grants[k]
      /\ \A k \in Members : exchanges'[k] = exchanges[k] \/ exchanges'[k] = <<>>
  BY <1>1, <1>2, <1>3
<1>6. TypeOK'
  BY <1>1, <1>5 DEF TypeOK
<1>7. KnownInv' /\ SavedInv' /\ SignedInv'
  <2> DEFINE new == {}
  <2>1. deliveries' \subseteq deliveries \cup new /\ \A d \in new : FALSE
    BY <1>1
  <2> HIDE DEF new
  <2>2. \A k \in Members, y \in Msgs : held'[k][y] \subseteq Posters(y) /\ held[k][y] \subseteq held'[k][y]
    BY <1>1 DEF KnownInv
  <2>3. \A k \in Members : \A y \in saved'[k] : y \in Msgs /\ y \in saved[k]
    BY <1>1 DEF TypeOK
  <2>4. \A k \in Members : Range(exchanges'[k]) \subseteq {i \in Items : k \in Posters(i.msg)}
    BY <1>4, <1>5, QueuedItems
  <2> QED BY <1>1, <1>5, <2>1, <2>2, <2>3, <2>4, QuietStep
<1>8. QueuedInv'
  BY <1>5 DEF QueuedInv
<1> QED BY <1>6, <1>7, <1>8

\* The Granter presents what is verified, led and gathered, and keeps what is not verified.
LEMMA GranterInv ==
  ASSUME IInv, NEW m \in Members, Granter(m), ~ Halt(m)
  PROVE  IInv'
<1> USE DEF IInv, clients
<1> DEFINE new == Presented(m, grants[m] \cap saved[m])
<1>1. /\ grants' = [grants EXCEPT ![m] = @ \ saved[m]] /\ deliveries' = deliveries \cup new
      /\ UNCHANGED <<held, saved, exchanges, admits, ops, received, credentials, posts, requested, stops>>
  BY DEF Granter
<1>2. grants \in [Members -> SUBSET Msgs] /\ saved \in [Members -> SUBSET Msgs]
  BY DEF TypeOK
<1>3. /\ grants' \in [Members -> SUBSET Msgs]
      /\ grants'[m] = grants[m] \ saved[m]
      /\ \A k \in Members : k # m => grants'[k] = grants[k]
  BY <1>1, <1>2
<1>4. ASSUME NEW d \in new
      PROVE  /\ d \in Deliveries /\ d.what = "artifacts" /\ d.from = m /\ d.to = Recipient
             /\ d.msg \in grants[m] \cap saved[m] /\ d.msg \in Msgs
  <2>1. PICK x \in grants[m] \cap saved[m] : d = Artifacts(m, x)
    BY <1>4 DEF Presented, Ends
  <2> QED BY <2>1, <1>2 DEF Artifacts, Deliveries
<1>5. \A x \in grants[m] \cap saved[m] :
        Lead(m, x) /\ Fine({m}, x) => Of("artifacts", x)' # {}
  <2> SUFFICES ASSUME NEW x \in grants[m] \cap saved[m], Lead(m, x), Fine({m}, x)
               PROVE  Of("artifacts", x)' # {}
    OBVIOUS
  <2>1. Artifacts(m, x) \in new
    BY DEF Presented, Ends, Fine
  <2>2. Artifacts(m, x) \in Of("artifacts", x)'
    BY <1>1, <2>1 DEF Of, Artifacts
  <2> QED BY <2>2
<1> HIDE DEF new
<1>6. TypeOK'
  BY <1>1, <1>3, <1>4 DEF TypeOK
<1>7. KnownInv' /\ SavedInv' /\ SignedInv'
  <2>1. \A k \in Members, y \in Msgs : held'[k][y] \subseteq Posters(y) /\ held[k][y] \subseteq held'[k][y]
    BY <1>1 DEF KnownInv
  <2>2. \A k \in Members : \A y \in saved'[k] : y \in Msgs /\ y \in saved[k]
    BY <1>1, <1>2
  <2>3. ASSUME NEW d \in new
        PROVE  /\ d.what # "exn" /\ d.to = Recipient /\ d.from \in Posters(d.msg)
               /\ Cardinality(Posters(d.msg)) >= Threshold[d.msg]
    <3>1. d.from \in Posters(d.msg)
      BY <1>4 DEF KnownInv
    <3>2. held[m][d.msg] \subseteq Posters(d.msg) /\ Posters(d.msg) \subseteq Members
      BY <1>4 DEF KnownInv, Posters
    <3>3. /\ Cardinality(held[m][d.msg]) \in Nat /\ Cardinality(Posters(d.msg)) \in Nat
          /\ Cardinality(held[m][d.msg]) <= Cardinality(Posters(d.msg))
      BY <3>2, Counted
    <3>4. Cardinality(held[m][d.msg]) >= Threshold[d.msg] /\ Threshold[d.msg] \in Nat
      BY <1>4, SignersAssumption DEF SavedInv
    <3> QED BY <1>4, <3>1, <3>3, <3>4
  <2>4. \A k \in Members : Range(exchanges'[k]) \subseteq {i \in Items : k \in Posters(i.msg)}
    BY <1>1, QueuedItems
  <2>5. \A k \in Members : grants'[k] \subseteq grants[k]
    BY <1>3
  <2> QED BY <1>1, <2>1, <2>2, <2>3, <2>4, <2>5, QuietStep
<1>8. QueuedInv'
  <2>1. ASSUME NEW x \in Msgs, NEW p \in Members, First(p, x), x \in grants[p], Fine({p}, x)
        PROVE  Of("artifacts", x)' # {} \/ x \in grants'[p]
    <3>1. Lead(p, x)
      BY <2>1, FirstLeads
    <3> QED BY <2>1, <3>1, <1>3, <1>5
  <2> QED BY <1>1, <2>1, QuietQueues
<1> QED BY <1>6, <1>7, <1>8

\* The Admitter parses what the grant of a verified admit has, and puts back what is not verified.
LEMMA AdmitterInv ==
  ASSUME IInv, NEW m \in Members, Admitter(m), ~ Halt(m)
  PROVE  IInv'
<1> USE DEF IInv, clients
<1> DEFINE x == Head(admits[m])
<1>1. /\ admits[m] # <<>>
      /\ \/ admits' = [admits EXCEPT ![m] = Tail(@)] /\ credentials' = credentials \cup Admitted(m, x)
         \/ admits' = [admits EXCEPT ![m] = Append(Tail(@), x)] /\ credentials' = credentials
      /\ UNCHANGED <<held, saved, exchanges, grants, ops, deliveries, received, posts, requested, stops>>
  BY DEF Admitter, AdmitterWaits, AdmitterParses, AdmitterRaises
<1>2. admits \in [Members -> Seq(Msgs)] /\ credentials \subseteq Members \X Msgs
  BY DEF TypeOK
<1>3. /\ x \in Msgs /\ Tail(admits[m]) \in Seq(Msgs)
      /\ Range(admits[m]) = Range(Tail(admits[m])) \cup {x}
  BY <1>1, <1>2, Left
<1>4. /\ Append(Tail(admits[m]), x) \in Seq(Msgs)
      /\ Range(Append(Tail(admits[m]), x)) = Range(admits[m])
  <2> DEFINE rest == Tail(admits[m])
  <2> HIDE DEF x, rest
  <2>1. rest \in Seq(Msgs) /\ x \in Msgs
    BY <1>3 DEF rest
  <2>2. Append(rest, x) \in Seq(Msgs) /\ Range(Append(rest, x)) = Range(rest) \cup {x}
    BY <2>1, Joined
  <2> QED BY <2>2, <1>3 DEF rest
<1> HIDE DEF x
<1>5. Admitted(m, x) \subseteq {<<m, x>>} /\ (Fine({m}, x) => <<m, x>> \in Admitted(m, x))
  BY DEF Admitted, Fine
<1>6. /\ admits' \in [Members -> Seq(Msgs)] /\ credentials' \subseteq Members \X Msgs
      /\ credentials \subseteq credentials'
      /\ \A k \in Members : k # m => admits'[k] = admits[k]
      /\ \A y \in Range(admits[m]) :
           Fine({m}, y) => <<m, y>> \in credentials' \/ y \in Range(admits'[m])
  <2>1. CASE /\ admits' = [admits EXCEPT ![m] = Tail(@)]
             /\ credentials' = credentials \cup Admitted(m, x)
    <3> DEFINE rest == Tail(admits[m])
               done == Admitted(m, x)
    <3>1. /\ rest \in Seq(Msgs) /\ Range(admits[m]) = Range(rest) \cup {x}
          /\ done \subseteq Members \X Msgs /\ (Fine({m}, x) => <<m, x>> \in done)
      BY <1>3, <1>5
    <3>2. admits' = [admits EXCEPT ![m] = rest] /\ credentials' = credentials \cup done
      BY <2>1
    <3> HIDE DEF rest, done
    <3>3. /\ admits' \in [Members -> Seq(Msgs)] /\ admits'[m] = rest
          /\ \A k \in Members : k # m => admits'[k] = admits[k]
      BY <3>1, <3>2, <1>2
    <3> QED BY <3>1, <3>2, <3>3, <1>2
  <2>2. CASE admits' = [admits EXCEPT ![m] = Append(Tail(@), x)] /\ credentials' = credentials
    BY <2>2, <1>2, <1>4
  <2> QED BY <2>1, <2>2, <1>1
<1>7. TypeOK'
  BY <1>1, <1>6 DEF TypeOK
<1>8. KnownInv' /\ SavedInv' /\ SignedInv'
  <2> DEFINE new == {}
  <2>1. deliveries' \subseteq deliveries \cup new /\ \A d \in new : FALSE
    BY <1>1
  <2> HIDE DEF new
  <2>2. \A k \in Members, y \in Msgs : held'[k][y] \subseteq Posters(y) /\ held[k][y] \subseteq held'[k][y]
    BY <1>1 DEF KnownInv
  <2>3. \A k \in Members : \A y \in saved'[k] : y \in Msgs /\ y \in saved[k]
    BY <1>1 DEF TypeOK
  <2>4. \A k \in Members : Range(exchanges'[k]) \subseteq {i \in Items : k \in Posters(i.msg)}
    BY <1>1, QueuedItems
  <2> QED BY <1>1, <2>1, <2>2, <2>3, <2>4, QuietStep
<1>9. QueuedInv'
  BY <1>1, <1>6, QuietQueues
<1> QED BY <1>7, <1>8, <1>9

\* A delivery gives the recipient a message, or another member's agent a signature.
LEMMA DeliverInv ==
  ASSUME IInv, NEW d \in deliveries, Deliver(d)
  PROVE  IInv'
<1> USE DEF IInv, clients
<1>1. /\ deliveries' = deliveries \ {d} /\ d \in Deliveries
      /\ UNCHANGED <<saved, exchanges, grants, admits, ops, credentials, posts, requested, stops>>
      /\ \/ d.to = Recipient /\ received' = received \cup {d} /\ held' = held
         \/ /\ d.to # Recipient /\ received' = received
            /\ held' = [held EXCEPT ![d.to][d.msg] = @ \cup d.signers]
  BY DEF Deliver, TypeOK
<1>2. d.msg \in Msgs /\ d.signers \in SUBSET Members /\ d.to \in Members \cup {Recipient}
      /\ d.what \in {"exn", "artifacts"}
  BY <1>1 DEF Deliveries
<1>3. held \in [Members -> [Msgs -> SUBSET Members]]
  BY DEF TypeOK
<1>4. /\ held' \in [Members -> [Msgs -> SUBSET Members]]
      /\ \A k \in Members, y \in Msgs : held'[k][y] \subseteq Posters(y) /\ held[k][y] \subseteq held'[k][y]
  <2>1. CASE held' = held
    BY <2>1, <1>3 DEF KnownInv
  <2>2. CASE d.to # Recipient /\ held' = [held EXCEPT ![d.to][d.msg] = @ \cup d.signers]
    <3> DEFINE new == held[d.to][d.msg] \cup d.signers
    <3>1. d.to \in Members /\ new \in SUBSET Members
      BY <2>2, <1>2, <1>3
    <3>2. d.signers \subseteq Posters(d.msg)
      BY <2>2, <1>2 DEF SignedInv
    <3>3. held[d.to][d.msg] \subseteq new /\ new \subseteq Posters(d.msg)
      BY <3>1, <3>2, <1>2 DEF KnownInv
    <3>4. held' = [held EXCEPT ![d.to][d.msg] = new]
      BY <2>2
    <3> HIDE DEF new
    <3>5. /\ held' \in [Members -> [Msgs -> SUBSET Members]] /\ held'[d.to][d.msg] = new
          /\ \A k \in Members, y \in Msgs : k # d.to \/ y # d.msg => held'[k][y] = held[k][y]
      BY <3>1, <3>4, <1>2, <1>3, Placed
    <3> QED BY <3>3, <3>5 DEF KnownInv
  <2> QED BY <2>1, <2>2, <1>1
<1>5. TypeOK'
  BY <1>1, <1>4 DEF TypeOK
<1>6. KnownInv' /\ SavedInv' /\ SignedInv'
  <2> DEFINE new == {}
  <2>1. deliveries' \subseteq deliveries \cup new /\ \A c \in new : FALSE
    BY <1>1
  <2> HIDE DEF new
  <2>2. \A k \in Members : \A y \in saved'[k] : y \in Msgs /\ y \in saved[k]
    BY <1>1 DEF TypeOK
  <2>3. \A k \in Members : Range(exchanges'[k]) \subseteq {i \in Items : k \in Posters(i.msg)}
    BY <1>1, QueuedItems
  <2>4. received' \subseteq received \cup {c \in deliveries : c.to = Recipient}
    BY <1>1
  <2> QED BY <1>1, <1>4, <2>1, <2>2, <2>3, <2>4, QuietStep
<1>7. QueuedInv'
  <2>1. {c \in deliveries : c.to = Recipient} \subseteq deliveries' \cup received'
    BY <1>1
  <2> QED BY <1>1, <2>1, QuietQueues
<1> QED BY <1>5, <1>6, <1>7

\* Before anybody posts there is nothing.
LEMMA InitInv == Init => IInv
<1> SUFFICES ASSUME Init PROVE IInv
  OBVIOUS
<1> USE DEF Init
<1>1. <<>> \in Seq(Items) /\ <<>> \in Seq(Msgs)
  BY EmptySeq
<1>2. Range(<<>>) = {}
  BY DEF Range
<1>3. \A x \in Msgs : Posters(x) = {}
  BY DEF Posters
<1>4. TypeOK
  BY <1>1, BoundAssumption DEF TypeOK
<1>5. KnownInv /\ SavedInv /\ SignedInv
  BY <1>2 DEF KnownInv, SavedInv, SignedInv
<1>6. QueuedInv
  BY <1>3 DEF QueuedInv, SentInv, AdmittedInv, First
<1> QED BY <1>4, <1>5, <1>6 DEF IInv

\* A step that changes nothing keeps the invariant.
LEMMA StutterInv ==
  ASSUME IInv, UNCHANGED vars
  PROVE  IInv'
<1> USE DEF vars, agents, clients
<1>1. \A x, w : Posters(x)' = Posters(x) /\ Of(w, x)' = Of(w, x)
  BY DEF Posters, Of
<1>2. TypeOK' /\ KnownInv' /\ SavedInv' /\ SignedInv'
  BY <1>1 DEF IInv, TypeOK, KnownInv, SavedInv, SignedInv
<1>3. \A x, p : First(p, x)' <=> First(p, x)
  BY <1>1 DEF First
<1>4. QueuedInv'
  BY <1>1, <1>3 DEF IInv, QueuedInv, SentInv, AdmittedInv
<1> QED BY <1>2, <1>4 DEF IInv

\* Every reachable state satisfies the inductive invariant.
THEOREM Invariance == Spec => []IInv
<1>1. ASSUME IInv, [Next]_vars
      PROVE  IInv'
  <2>1. ASSUME NEW m \in Members,
               ExchangeSender(m) \/ Granter(m) \/ Admitter(m) \/ Stop(m)
        PROVE  IInv'
    BY <1>1, <2>1, SenderInv, GranterInv, AdmitterInv, HaltInv DEF Stop
  <2>2. ASSUME NEW m \in Members, NEW x \in Msgs,
               Post(m, x) \/ Save(m, x) \/ \E n \in Members : Request(m, x, n)
        PROVE  IInv'
    BY <1>1, <2>2, PostInv, SaveInv, RequestInv
  <2>3. CASE \E d \in deliveries : Deliver(d)
    BY <1>1, <2>3, DeliverInv
  <2>4. CASE UNCHANGED vars
    BY <1>1, <2>4, StutterInv
  <2> QED BY <1>1, <2>1, <2>2, <2>3, <2>4 DEF Next
<1> QED BY <1>1, InitInv, PTL DEF Spec

\* Every variable of Exchanges keeps its type.
THEOREM TypeCorrect == Spec => []TypeOK
<1>1. IInv => TypeOK
  BY DEF IInv
<1> QED BY <1>1, Invariance, PTL

\* A credential is parsed when its admit is complete.
ParsedInv == \A m \in Members, x \in Msgs : <<m, x>> \in credentials => x \in saved[m]

\* What an agent verified, it has verified for good, even when it stops; and it parses a credential
\* after that.
LEMMA SavedGrows ==
  ASSUME TypeOK, [Next]_vars
  PROVE  /\ \A m \in Members : saved[m] \subseteq saved'[m] /\ ops[m] \subseteq ops'[m]
         /\ \A m \in Members, x \in Msgs :
              <<m, x>> \in credentials' => <<m, x>> \in credentials \/ x \in saved[m]
<1> USE DEF TypeOK, agents, clients
<1>1. ASSUME NEW n \in Members, NEW y \in Msgs, Save(n, y)
      PROVE  /\ \A m \in Members : saved[m] \subseteq saved'[m] /\ ops' = ops
             /\ credentials' = credentials
  BY <1>1 DEF Save
<1>2. ASSUME NEW n \in Members, NEW y \in Msgs, Post(n, y)
      PROVE  /\ saved' = saved /\ \A m \in Members : ops[m] \subseteq ops'[m]
             /\ credentials' = credentials
  <2>1. Posted(n, y) /\ (UNCHANGED ops \/ Submit(n, y))
    BY <1>2 DEF Post, PostExchange, PostChallenge, PostNegotiation, PostGrant, PostAdmit
  <2>2. saved' = saved /\ credentials' = credentials
    BY <2>1 DEF Posted
  <2>3. CASE Submit(n, y)
    <3>1. ops' = [ops EXCEPT ![n] = @ \cup {y}]
      BY <2>3 DEF Submit
    <3> QED BY <2>2, <3>1
  <2> QED BY <2>1, <2>2, <2>3
<1>3. ASSUME NEW n \in Members, Admitter(n)
      PROVE  /\ saved' = saved /\ ops' = ops
             /\ \A m \in Members, x \in Msgs :
                  <<m, x>> \in credentials' => <<m, x>> \in credentials \/ x \in saved[m]
  <2> DEFINE y == Head(admits[n])
  <2>1. CASE AdmitterParses(n, y)
    BY <2>1 DEF AdmitterParses, Admitted
  <2>2. CASE AdmitterWaits(n, y) \/ AdmitterRaises(n, y)
    BY <2>2 DEF AdmitterWaits, AdmitterRaises, Halt
  <2> QED BY <1>3, <2>1, <2>2 DEF Admitter
<1>4. CASE UNCHANGED <<saved, ops, credentials>>
  BY <1>4
<1> QED BY <1>1, <1>2, <1>3, <1>4
        DEF Next, ExchangeSender, Granter, Stop, Halt, Request, Deliver, vars

LEMMA Parsed == Spec => []ParsedInv
<1>1. Init => ParsedInv
  BY DEF Init, ParsedInv
<1>2. TypeOK /\ ParsedInv /\ [Next]_vars => ParsedInv'
  BY SavedGrows DEF ParsedInv
<1> QED BY <1>1, <1>2, TypeCorrect, PTL DEF Spec

\* Whatever the agents know of each other, what the recipient gets carries the signatures of
\* enough members that posted the message themselves (ExchangeSender.recur, GrantDoer.postGrant);
\* so does what an agent reports done (Monitor.status) or parses (Admitter.recur).
THEOREM Signed == Spec => []SentIsSigned
<1>1. IInv /\ ParsedInv => SentIsSigned
  <2> SUFFICES ASSUME IInv, ParsedInv PROVE SentIsSigned
    OBVIOUS
  <2>1. ASSUME NEW d \in received
        PROVE  IF d.what = "exn"
               THEN d.signers \subseteq Posters(d.msg) /\ Cardinality(d.signers) >= Threshold[d.msg]
               ELSE d.from \in Posters(d.msg) /\ Cardinality(Posters(d.msg)) >= Threshold[d.msg]
    BY DEF IInv, SignedInv
  <2>2. ASSUME NEW m \in Members, NEW x \in Msgs, Done(m, x) \/ <<m, x>> \in credentials
        PROVE  held[m][x] \subseteq Posters(x) /\ Cardinality(held[m][x]) >= Threshold[x]
    BY <2>2 DEF IInv, KnownInv, SavedInv, ParsedInv, Done
  <2> QED BY <2>1, <2>2 DEF SentIsSigned
<1> QED BY <1>1, Invariance, Parsed, PTL

\* An exchange operation that is done (Monitor.status) stays so, even when its agent stops.
THEOREM DoneStays == Spec => [][\A m \in Members, x \in Msgs : Done(m, x) => Done(m, x)']_vars
<1>1. TypeOK /\ [Next]_vars => [\A m \in Members, x \in Msgs : Done(m, x) => Done(m, x)']_vars
  BY SavedGrows DEF Done
<1> QED BY <1>1, TypeCorrect, PTL DEF Spec

\* Each member decides by what it knows itself who sends (Exchanger.lead), and yet, unless an
\* agent stops, no posted message is left to nobody.
THEOREM NoneDropped == Spec => []NothingDropped
<1>1. IInv => NothingDropped
  <2> SUFFICES ASSUME IInv, stops = 0, NEW x \in Msgs, Posters(x) # {}
               PROVE  /\ Reachable(Posters(x), x) =>
                           \/ Of("exn", x) # {}
                           \/ \E m \in Posters(x) : Item(x, Recipient) \in Range(exchanges[m])
                      /\ Kind[x] = "grant" /\ Fine(Posters(x), x) =>
                           Of("artifacts", x) # {} \/ \E m \in Posters(x) : x \in grants[m]
                      /\ Kind[x] = "admit" =>
                           \A m \in Posters(x) : Fine({m}, x) =>
                             <<m, x>> \in credentials \/ x \in Range(admits[m])
    BY DEF NothingDropped
  <2>1. SentInv /\ AdmittedInv /\ Posters(x) \subseteq Members
    BY DEF IInv, QueuedInv, Posters
  <2>2. PICK p \in Posters(x) : \A n \in Posters(x) : p <= n
    BY <2>1, LeastMember
  <2>3. First(p, x) /\ p \in Members
    BY <2>1, <2>2 DEF First
  <2>4. (Reachable(Posters(x), x) => Reachable({p}, x)) /\ (Fine(Posters(x), x) => Fine({p}, x))
    BY <2>2 DEF Reachable, Fine
  <2> QED BY <2>1, <2>2, <2>3, <2>4 DEF SentInv, AdmittedInv
<1> QED BY <1>1, Invariance, PTL

=============================================================================
