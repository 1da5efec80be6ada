---------------------------- MODULE ImportsProofs ----------------------------
(***************************************************************************)
(* For any finite sets of links and workers, any identity keys and answers *)
(* of the resolver: what the locks of SaveResolved and Create guarantee.   *)
(***************************************************************************)
EXTENDS Imports, FiniteSetTheorems, TLAPS

(* The inductive invariant. *)

\* What an execution that ends well leaves its import.
HasRun(i) == /\ episodeOf[i] # None
             /\ runs[episodeOf[i]] # {} /\ sources[episodeOf[i]] # {}

\* What an execution relies on at its statement: x is exec[w].
Placed(x) ==
  /\ x.at # "idle" => x.import \in Import
  /\ x.row = "import" <=> x.at \in {"identity", "find", "save"}
  /\ x.row = "episode" <=> x.at \in {"latest", "insert"}
  /\ x.began # 0 <=> x.at \in {"create", "latest", "insert"}
  /\ x.at \in {"import", "identity", "find", "save"} => x.keys \in Resolutions[x.import]
  /\ x.at \in {"identity", "find", "save"} => episodeOf[x.import] = None
  /\ x.at = "save" => x.episode = FirstOwner(x.keys)
  /\ x.at \in {"begin", "create", "latest", "insert"} =>
       x.episode # None /\ x.episode = episodeOf[x.import]
  /\ x.at \in {"create", "latest", "insert"} => \A r \in runs[x.episode] : r.created # x.began
  /\ x.at \in {"latest", "insert"} => sources[x.episode] # {}
  /\ x.at = "insert" => LatestRun(x.episode) \in {None, "failed"}
  /\ x.at = "ok" => HasRun(x.import)

\* Keys are locked in ascending order, and all of them when the episode is looked up.
Ordered(x) ==
  /\ x.locked \subseteq ToSet(x.keys)
  /\ \A k \in x.locked, l \in ToSet(x.keys) \ x.locked : k < l
  /\ x.locked # {} => x.at \in {"identity", "find", "save"}
  /\ x.at \in {"find", "save"} => x.locked = ToSet(x.keys)

\* A lock has one holder, and no two Creates of an episode began at one time:
\* x and y are of different workers.
Apart(x, y) ==
  /\ x.locked \cap y.locked = {}
  /\ ~(x.row = "import" /\ y.row = "import" /\ x.import = y.import)
  /\ ~(x.row = "episode" /\ y.row = "episode" /\ x.episode = y.episode)
  /\ ~(x.began # 0 /\ x.began = y.began /\ x.episode = y.episode)

Exclusive == \A v, w \in Worker : v # w => Apart(exec[v], exec[w])

\* Attempts are counted to the end.
Attempted ==
  \A i \in Import :
    /\ job[i] = "none" => attempt[i] = 0
    /\ job[i] = "queued" => attempt[i] < MaxAttempts

\* An import creates one episode at most.
Attached == {i \in Import : episodeOf[i] # None}

EpisodesCounted == episodes <= Cardinality(Attached)

\* Runs have their own dates, one of them at most is active, and only an active
\* one is being written.
RunsDated ==
  \A e \in Episode :
    /\ IsFiniteSet(runs[e])
    /\ \A r, q \in runs[e] : r.created = q.created => r = q
    /\ \A r, q \in Active(e) : r = q
    /\ writing[e] # None => Active(e) # {}

Succeeded == \A i \in Import : job[i] = "succeeded" => HasRun(i)

IInv ==
  /\ TypeOK
  /\ \A w \in Worker : Placed(exec[w]) /\ Ordered(exec[w])
  /\ Exclusive /\ Attempted /\ EpisodesCounted /\ RunsDated
  /\ OwnsItsIdentity /\ HiddenByFailureOnly /\ Succeeded
-----------------------------------------------------------------------------
(* Operators of the model. *)

LEMMA ImportCount == IsFiniteSet(Import) /\ Cardinality(Import) \in Nat
  BY FS_CardinalityType, ImportsAssumption

LEMMA KeyListFacts ==
  ASSUME NEW i \in Import, NEW ks \in Resolutions[i]
  PROVE  /\ ks \in Seq(Key) /\ ks # <<>>
         /\ Head(ks) \in ToSet(ks) /\ ToSet(ks) \subseteq Key
         /\ DOMAIN ks = 1..Len(ks) /\ 1 \in DOMAIN ks /\ Head(ks) = ks[1]
  BY ImportsAssumption DEF ToSet

\* A set of numbers has a least one.
LEMMA LeastNumber ==
  ASSUME NEW S \in SUBSET Nat, S # {}
  PROVE  \E m \in S : \A n \in S : m <= n
<1>1. PICK m \in S : \A n \in S : ~(<<n, m>> \in OpToRel(<, Nat))
  BY NatLessThanWellFounded, WFMin
<1>2. \A n \in S : ~(n < m)
  BY <1>1 DEF OpToRel
<1> QED
  BY <1>2

\* A finite set of numbers has a greatest one.
LEMMA GreatestNumber ==
  ASSUME NEW S \in SUBSET Nat, IsFiniteSet(S), S # {}
  PROVE  \E m \in S : \A n \in S : n <= m
<1> DEFINE Above(m) == {n \in S : n > m}
           sizes == {Cardinality(Above(m)) : m \in S}
<1>1. \A m \in S : IsFiniteSet(Above(m)) /\ Cardinality(Above(m)) \in Nat
  <2> SUFFICES ASSUME NEW m \in S
               PROVE  IsFiniteSet(Above(m)) /\ Cardinality(Above(m)) \in Nat
    OBVIOUS
  <2>1. Above(m) \in SUBSET S
    OBVIOUS
  <2>2. IsFiniteSet(Above(m))
    BY <2>1, FS_Subset
  <2> QED
    BY <2>2, FS_CardinalityType
<1>2. sizes \in SUBSET Nat /\ sizes # {}
  BY <1>1
<1>3. PICK m \in S : \A n \in S : Cardinality(Above(m)) <= Cardinality(Above(n))
  <2>1. PICK k \in sizes : \A l \in sizes : k <= l
    BY <1>2, LeastNumber
  <2> HIDE DEF Above
  <2>2. PICK m \in S : k = Cardinality(Above(m))
    BY <2>1
  <2>3. \A n \in S : Cardinality(Above(n)) \in sizes
    OBVIOUS
  <2> HIDE DEF sizes
  <2> QED
    BY <2>1, <2>2, <2>3
<1>4. ASSUME NEW n \in S, n > m PROVE FALSE
  <2>1. Above(n) \in SUBSET Above(m) /\ n \in Above(m) /\ n \notin Above(n)
    <3>1. \A k \in S : k \in Nat
      OBVIOUS
    <3>2. \A k \in S : k > n => k > m
      BY <1>4, <3>1
    <3>3. ~(n > n)
      BY <3>1
    <3> QED
      BY <1>4, <3>2, <3>3
  <2>2. Cardinality(Above(n)) <= Cardinality(Above(m)) /\ Cardinality(Above(n)) # Cardinality(Above(m))
    <3> HIDE DEF Above
    <3> QED
      BY <1>1, <2>1, FS_Subset
  <2> HIDE DEF Above
  <2>3. /\ Cardinality(Above(m)) \in Nat /\ Cardinality(Above(n)) \in Nat
        /\ Cardinality(Above(m)) <= Cardinality(Above(n))
    BY <1>1, <1>3
  <2> QED
    BY <2>2, <2>3
<1>5. \A n \in S : n <= m
  BY <1>4
<1> QED
  BY <1>5

LEMMA FiniteImage ==
  ASSUME NEW S, IsFiniteSet(S), NEW T, NEW f \in [S -> T]
  PROVE  IsFiniteSet({f[x] : x \in S})
<1>1. f \in Surjection(S, {f[x] : x \in S})
  BY DEF Surjection
<1> QED
  BY <1>1, FS_Surjection

\* The latest run is there when any is, and its status is what Create reads.
LEMMA LatestFacts ==
  ASSUME TypeOK, RunsDated, NEW e \in Episode
  PROVE  /\ runs[e] # {} => /\ Latest(e) \in runs[e] /\ LatestRun(e) = Latest(e).status
                            /\ \A q \in runs[e] : q.created <= Latest(e).created
         /\ LatestRun(e) \in RunStatuses \cup {None}
         /\ LatestRun(e) = None <=> runs[e] = {}
<1>1. e # None /\ None \notin RunStatuses
  BY ImportsAssumption, ImportCount DEF Episode, RunStatuses
<1>2. CASE runs[e] = {}
  BY <1>1, <1>2 DEF LatestRun
<1>3. CASE runs[e] # {}
  <2> DEFINE f == [r \in runs[e] |-> r.created]
             S == {f[r] : r \in runs[e]}
  <2>1. f \in [runs[e] -> Nat] /\ IsFiniteSet(runs[e])
    BY DEF TypeOK, Run, RunsDated
  <2>2. IsFiniteSet(S) /\ S \in SUBSET Nat /\ S # {}
    <3>1. IsFiniteSet(S)
      <4> HIDE DEF f
      <4> QED
        BY <2>1, FiniteImage
    <3> QED
      BY <1>3, <2>1, <3>1
  <2>3. PICK m \in S : \A n \in S : n <= m
    BY <2>2, GreatestNumber
  <2>4. \E r \in runs[e] : \A q \in runs[e] : q.created <= r.created
    BY <2>3
  <2>5. Latest(e) \in runs[e] /\ \A q \in runs[e] : q.created <= Latest(e).created
    BY <2>4 DEF Latest
  <2>6. LatestRun(e) = Latest(e).status
    BY <1>1, <1>3 DEF LatestRun
  <2>7. Latest(e).status \in RunStatuses
    BY <2>5 DEF TypeOK, Run
  <2> QED
    BY <1>1, <1>3, <2>5, <2>6, <2>7
<1> QED
  BY <1>2, <1>3

\* now() of a Create is later than every date there is.
LEMMA BeginsLast ==
  ASSUME IInv, NEW w \in Worker, NEW e \in Episode, exec[w].episode = e
  PROVE  /\ Max(Times(e)) + 1 \in Nat \ {0}
         /\ \A r \in runs[e] : r.created < Max(Times(e)) + 1
         /\ \A v \in Worker : exec[v].episode = e => exec[v].began < Max(Times(e)) + 1
<1> DEFINE at == {v \in Worker : exec[v].episode = e}
           f == [r \in runs[e] |-> r.created]
           g == [v \in at |-> exec[v].began]
           dates == {f[r] : r \in runs[e]}
           begins == {g[v] : v \in at}
<1>1. f \in [runs[e] -> Nat] /\ IsFiniteSet(dates)
  <2>1. f \in [runs[e] -> Nat] /\ IsFiniteSet(runs[e])
    BY DEF IInv, TypeOK, Run, RunsDated
  <2> HIDE DEF f
  <2> QED
    BY <2>1, FiniteImage
<1>2. g \in [at -> Nat] /\ IsFiniteSet(begins)
  <2>1. IsFiniteSet(at)
    BY FS_Subset, ImportsAssumption
  <2>2. g \in [at -> Nat]
    BY DEF IInv, TypeOK, Execution
  <2> HIDE DEF g, at
  <2> QED
    BY <2>1, <2>2, FiniteImage
<1>3. dates \in SUBSET Nat /\ begins \in SUBSET Nat
  BY <1>1, <1>2
<1>4. Times(e) = dates \cup begins
  BY DEF Times
<1>5. exec[w].began \in Times(e)
  BY DEF Times
<1>6. IsFiniteSet(Times(e))
  <2> HIDE DEF dates, begins
  <2> QED
    BY <1>1, <1>2, <1>4, FS_Union
<1>7. Times(e) \in SUBSET Nat
  BY <1>3, <1>4
<1>8. PICK m \in Times(e) : \A n \in Times(e) : n <= m
  BY <1>5, <1>6, <1>7, GreatestNumber
<1>9. Max(Times(e)) \in Times(e) /\ \A n \in Times(e) : Max(Times(e)) >= n
  <2>1. \A n \in Times(e) : m >= n
    BY <1>7, <1>8
  <2> QED
    BY <2>1 DEF Max
<1>10. Max(Times(e)) \in Nat
  BY <1>7, <1>9
<1>11. \A n \in Times(e) : n \in Nat /\ n < Max(Times(e)) + 1
  BY <1>7, <1>9, <1>10
<1>12. /\ \A r \in runs[e] : r.created \in Times(e)
       /\ \A v \in Worker : exec[v].episode = e => exec[v].began \in Times(e)
  BY DEF Times
<1> QED
  BY <1>10, <1>11, <1>12

\* The first key that has an owner decides.
LEMMA FirstOwnerFound ==
  ASSUME TypeOK, NEW i \in Import, NEW ks \in Resolutions[i]
  PROVE  /\ FirstOwner(ks) \in Episode \cup {None}
         /\ owner[Head(ks)] # None => FirstOwner(ks) = owner[Head(ks)]
<1> DEFINE owned == {n \in DOMAIN ks : owner[ks[n]] # None}
<1>1. CASE owned = {}
  BY <1>1, KeyListFacts DEF FirstOwner
<1>2. CASE owned # {}
  <2>1. owned \in SUBSET Nat
    BY KeyListFacts
  <2>2. PICK m \in owned : \A n \in owned : m <= n
    BY <1>2, <2>1, LeastNumber
  <2>3. Min(owned) \in owned /\ \A n \in owned : Min(owned) <= n
    BY <2>2 DEF Min
  <2>4. FirstOwner(ks) = owner[ks[Min(owned)]]
    BY <1>2 DEF FirstOwner
  <2>5. owner[ks[Min(owned)]] \in Episode
    BY <2>3, KeyListFacts DEF TypeOK
  <2>6. ASSUME 1 \in owned PROVE Min(owned) = 1
    <3>1. Len(ks) \in Nat /\ Min(owned) \in 1..Len(ks) /\ Min(owned) <= 1
      BY <2>3, <2>6, KeyListFacts
    <3> HIDE DEF owned
    <3> QED
      BY <3>1
  <2> QED
    BY <2>4, <2>5, <2>6, KeyListFacts
<1> QED
  BY <1>1, <1>2

LEMMA FirstOwnerKept ==
  ASSUME NEW i \in Import, NEW ks \in Resolutions[i],
         \A k \in ToSet(ks) : owner'[k] = owner[k]
  PROVE  FirstOwner(ks)' = FirstOwner(ks)
<1>1. \A n \in DOMAIN ks : owner'[ks[n]] = owner[ks[n]]
  BY DEF ToSet
<1>2. {n \in DOMAIN ks : owner'[ks[n]] # None} = {n \in DOMAIN ks : owner[ks[n]] # None}
  BY <1>1
<1>3. CASE {n \in DOMAIN ks : owner[ks[n]] # None} = {}
  BY <1>2, <1>3 DEF FirstOwner
<1>4. CASE {n \in DOMAIN ks : owner[ks[n]] # None} # {}
  <2> DEFINE owned == {n \in DOMAIN ks : owner[ks[n]] # None}
  <2>1. owned \in SUBSET Nat
    BY KeyListFacts
  <2>2. PICK m \in owned : \A n \in owned : m <= n
    BY <1>4, <2>1, LeastNumber
  <2>3. Min(owned) \in DOMAIN ks
    BY <2>2 DEF Min
  <2> QED
    BY <1>1, <1>2, <1>4, <2>3 DEF FirstOwner
<1> QED
  BY <1>3, <1>4

\* The next key to lock follows those that are locked.
LEMMA NextKeyLeast ==
  ASSUME NEW w, ToSet(exec[w].keys) \subseteq Nat, exec[w].locked \subseteq ToSet(exec[w].keys),
         ToSet(exec[w].keys) # exec[w].locked
  PROVE  /\ NextKey(w) \in ToSet(exec[w].keys) \ exec[w].locked
         /\ \A l \in ToSet(exec[w].keys) \ exec[w].locked : NextKey(w) <= l
  BY LeastNumber DEF NextKey
-----------------------------------------------------------------------------
(* Steps of an execution. *)

\* Worker w executes x now, and what the others rely on still holds.
LEMMA Moves ==
  ASSUME IInv, NEW w \in Worker, NEW x \in Execution, exec' = [exec EXCEPT ![w] = x],
         Placed(x)', Ordered(x), \A v \in Worker \ {w} : Apart(x, exec[v]),
         \A v \in Worker \ {w} : \A y \in {exec[v]} : Placed(y)'
  PROVE  /\ (exec \in [Worker -> Execution])'
         /\ (\A v \in Worker : Placed(exec[v]) /\ Ordered(exec[v]))'
         /\ Exclusive'
<1>1. /\ exec \in [Worker -> Execution]
      /\ exec'[w] = x /\ \A v \in Worker \ {w} : exec'[v] = exec[v]
  BY DEF IInv, TypeOK
<1>2. (exec \in [Worker -> Execution])'
  BY <1>1
<1>3. ASSUME NEW v \in Worker PROVE (Placed(exec[v]) /\ Ordered(exec[v]))'
  <2>1. PICK y : y = exec'[v]
    OBVIOUS
  <2>2. Placed(y)' /\ Ordered(y)
    BY <1>1, <2>1 DEF IInv
  <2> QED
    BY <2>1, <2>2 DEF Placed, Ordered
<1>4. Exclusive'
  BY <1>1 DEF IInv, Exclusive, Apart
<1> QED
  BY <1>2, <1>3, <1>4

\* Nothing of what executions rely on has changed.
LEMMA PlacedUnchanged ==
  ASSUME UNCHANGED <<saved, run>>, NEW x, Placed(x)
  PROVE  Placed(x)'
<1>1. /\ FirstOwner(x.keys)' = FirstOwner(x.keys)
      /\ LatestRun(x.episode)' = LatestRun(x.episode)
  BY DEF FirstOwner, LatestRun, Latest, saved, run
<1> QED
  BY <1>1 DEF Placed, HasRun, saved, run

LEMMA SameRuns ==
  ASSUME NEW e, runs'[e] = runs[e]
  PROVE  /\ LatestRun(e)' = LatestRun(e) /\ Active(e)' = Active(e)
         /\ \A r : Newer(e, r)' = Newer(e, r)
<1>1. LatestRun(e)' = LatestRun(e)
  BY DEF LatestRun, Latest
<1>2. Active(e)' = Active(e)
  BY DEF Active
<1>3. \A r : Newer(e, r)' = Newer(e, r)
  BY DEF Newer
<1> QED
  BY <1>1, <1>2, <1>3

LEMMA RunsUnchanged ==
  ASSUME IInv, UNCHANGED runs,
         \A e \in Episode : writing'[e] # None => writing[e] # None \/ Active(e) # {}
  PROVE  RunsDated' /\ HiddenByFailureOnly'
<1>1. \A e : Active(e)' = Active(e)
  BY DEF Active
<1>2. \A e, r : Newer(e, r)' = Newer(e, r)
  BY DEF Newer
<1>3. RunsDated'
  BY <1>1 DEF IInv, RunsDated
<1> QED
  BY <1>2, <1>3 DEF IInv, HiddenByFailureOnly

\* A step of an execution that writes nothing.
LEMMA ReadIInv ==
  ASSUME IInv, NEW w \in Worker, NEW x \in Execution, exec' = [exec EXCEPT ![w] = x],
         UNCHANGED <<table, saved, run>>,
         Placed(x), Ordered(x), \A v \in Worker \ {w} : Apart(x, exec[v])
  PROVE  IInv'
<1>1. Placed(x)'
  BY PlacedUnchanged
<1>2. \A v \in Worker \ {w} : \A y \in {exec[v]} : Placed(y)'
  BY PlacedUnchanged DEF IInv
<1>3. /\ (exec \in [Worker -> Execution])'
      /\ (\A v \in Worker : Placed(exec[v]) /\ Ordered(exec[v]))'
      /\ Exclusive'
  BY <1>1, <1>2, Moves
<1>4. TypeOK'
  BY <1>3 DEF IInv, TypeOK, table, saved, run
<1>5. Attempted' /\ EpisodesCounted' /\ OwnsItsIdentity'
  BY DEF IInv, Attempted, EpisodesCounted, Attached, OwnsItsIdentity, table, saved
<1>6. RunsDated' /\ HiddenByFailureOnly'
  BY RunsUnchanged DEF IInv, run
<1>7. Succeeded'
  BY DEF IInv, Succeeded, HasRun, table, saved, run
<1> QED
  BY <1>3, <1>4, <1>5, <1>6, <1>7 DEF IInv

\* Outside of transactions a worker holds nothing, and knows no keys.
LEMMA OutsidePlaced ==
  ASSUME NEW s \in Steps, NEW i \in Import \cup {None}, NEW e \in Episode \cup {None}
  PROVE  LET x == Outside(s, i, e) IN
         /\ x \in Execution /\ Ordered(x) /\ \A y : Apart(x, y)
         /\ x.row = None /\ x.at = s /\ x.import = i /\ x.episode = e /\ x.began = 0
<1> DEFINE x == Outside(s, i, e)
<1>1. /\ x.row = None /\ x.at = s /\ x.import = i /\ x.episode = e
      /\ x.keys = <<>> /\ x.locked = {} /\ x.began = 0
  BY DEF Outside
<1>2. x \in Execution
  BY DEF Outside, Execution
<1> HIDE DEF x
<1>3. ToSet(<<>>) = {}
  BY DEF ToSet
<1>4. Ordered(x) /\ \A y : Apart(x, y)
  BY <1>1, <1>3, ImportsAssumption DEF Ordered, Apart
<1> QED
  BY <1>1, <1>2, <1>4 DEF x

LEMMA Busy ==
  ASSUME IInv, NEW w \in Worker, exec[w].at # "idle"
  PROVE  exec[w] \in Execution /\ exec[w].import \in Import
  BY DEF IInv, TypeOK, Placed

LEMMA EpisodeIsNotNone == \A e \in Episode : e # None /\ e \in Nat
  BY ImportCount, ImportsAssumption DEF Episode

\* A failure, or a run that is there already.
LEMMA ReturnIInv ==
  ASSUME IInv, NEW w \in Worker, exec[w].at # "idle",
         NEW outcome \in {"ok", "retryable", "permanent"}, Return(w, outcome),
         UNCHANGED <<table, saved, run>>,
         outcome = "ok" => /\ exec[w].at = "latest"
                           /\ runs[exec[w].episode] # {}
  PROVE  IInv'
<1> DEFINE x == Outside(outcome, exec[w].import, None)
<1>1. exec' = [exec EXCEPT ![w] = x]
  BY DEF Return
<1> HIDE DEF x
<1>2. /\ x \in Execution /\ Ordered(x) /\ \A y : Apart(x, y)
      /\ x.row = None /\ x.at = outcome /\ x.import = exec[w].import /\ x.import \in Import
      /\ x.began = 0
  BY Busy, OutsidePlaced DEF x, Steps
<1>3. Placed(x)
  <2>1. exec[w].at = "latest" =>
          /\ episodeOf[exec[w].import] = exec[w].episode /\ exec[w].episode # None
          /\ sources[exec[w].episode] # {}
    BY DEF IInv, Placed
  <2> QED
    BY <1>2, <2>1, ImportsAssumption DEF Placed, HasRun
<1> QED
  BY <1>1, <1>2, <1>3, ReadIInv

LEMMA ToCreateIInv ==
  ASSUME IInv, NEW w \in Worker, exec[w].at # "idle", episodeOf[exec[w].import] # None,
         ToCreate(w, episodeOf[exec[w].import]),
         UNCHANGED <<table, saved, run>>
  PROVE  IInv'
<1> DEFINE e == episodeOf[exec[w].import]
           x == Outside("begin", exec[w].import, e)
<1>1. exec' = [exec EXCEPT ![w] = x]
  BY DEF ToCreate
<1> HIDE DEF x
<1>2. e \in Episode /\ exec[w].import \in Import
  BY Busy DEF IInv, TypeOK
<1>3. /\ x \in Execution /\ Ordered(x) /\ \A y : Apart(x, y)
      /\ x.row = None /\ x.at = "begin" /\ x.import = exec[w].import /\ x.episode = e
      /\ x.began = 0
  BY <1>2, OutsidePlaced DEF x, Steps
<1>4. Placed(x)
  BY <1>2, <1>3, ImportsAssumption DEF Placed
<1> QED
  BY <1>1, <1>3, <1>4, ReadIInv
\* Statements that change their own execution only; the others keep their locks.
LEMMA ClaimIInv ==
  ASSUME IInv, NEW w \in Worker, NEW i \in Import, Claim(w, i)
  PROVE  IInv'
<1> DEFINE x == Outside("get", i, None)
<1>1. exec' = [exec EXCEPT ![w] = x] /\ UNCHANGED <<saved, run>>
  BY DEF Claim
<1> HIDE DEF x
<1>2. /\ x \in Execution /\ Ordered(x) /\ \A y : Apart(x, y)
      /\ x.row = None /\ x.at = "get" /\ x.import = i /\ x.began = 0
  BY OutsidePlaced DEF x, Steps
<1>3. Placed(x)
  BY <1>2, ImportsAssumption DEF Placed
<1>4. Placed(x)' /\ \A v \in Worker \ {w} : \A y \in {exec[v]} : Placed(y)'
  BY <1>1, <1>3, PlacedUnchanged DEF IInv
<1>5. /\ (exec \in [Worker -> Execution])'
      /\ (\A v \in Worker : Placed(exec[v]) /\ Ordered(exec[v]))'
      /\ Exclusive'
  BY <1>1, <1>2, <1>4, Moves
<1>6. attempt[i] + 1 \in 0..MaxAttempts
  BY ImportsAssumption DEF Claim, IInv, TypeOK, Attempted
<1>7. TypeOK'
  BY <1>1, <1>5, <1>6 DEF Claim, IInv, TypeOK, saved, run, JobStatuses
<1>8. Attempted'
  BY DEF Claim, IInv, TypeOK, Attempted
<1>9. EpisodesCounted' /\ OwnsItsIdentity'
  BY <1>1 DEF IInv, EpisodesCounted, Attached, OwnsItsIdentity, saved
<1>10. RunsDated' /\ HiddenByFailureOnly'
  BY <1>1, RunsUnchanged DEF run
<1>11. Succeeded'
  BY <1>1 DEF Claim, IInv, TypeOK, Succeeded, HasRun, saved, run
<1> QED
  BY <1>5, <1>7, <1>8, <1>9, <1>10, <1>11 DEF IInv

LEMMA GetIInv ==
  ASSUME IInv, NEW w \in Worker, Get(w)
  PROVE  IInv'
<1> USE DEF Get
<1>1. CASE episodeOf[exec[w].import] = None
  <2> DEFINE x == [exec[w] EXCEPT !.at = "resolve"]
  <2>1. exec' = [exec EXCEPT ![w] = x]
    BY <1>1 DEF To
  <2>2. exec[w] \in Execution /\ exec[w].import \in Import
    BY Busy
  <2>3. /\ x \in Execution /\ x.at = "resolve" /\ x.import = exec[w].import
        /\ x.row = exec[w].row /\ x.locked = exec[w].locked /\ x.keys = exec[w].keys
        /\ x.began = exec[w].began
    BY <2>2 DEF Execution, Steps
  <2> HIDE DEF x
  <2>4. Placed(x) /\ Ordered(x) /\ \A v \in Worker \ {w} : Apart(x, exec[v])
    <3>1. /\ exec[w].row \notin {"import", "episode"} /\ exec[w].locked = {}
          /\ exec[w].began = 0
      BY DEF IInv, Placed, Ordered
    <3> QED
      BY <2>2, <2>3, <3>1 DEF Placed, Ordered, Apart
  <2> QED
    BY <2>1, <2>3, <2>4, ReadIInv
<1>2. CASE episodeOf[exec[w].import] # None
  BY <1>2, ToCreateIInv
<1> QED
  BY <1>1, <1>2

LEMMA ResolveIInv ==
  ASSUME IInv, NEW w \in Worker, Resolve(w)
  PROVE  IInv'
<1> USE DEF Resolve
<1>1. exec[w] \in Execution /\ exec[w].import \in Import
  BY Busy
<1>2. PICK ks \in Resolutions[exec[w].import] :
        exec' = [exec EXCEPT ![w].at = "import", ![w].keys = ks]
  OBVIOUS
<1> DEFINE x == [exec[w] EXCEPT !.at = "import", !.keys = ks]
<1>3. exec' = [exec EXCEPT ![w] = x]
  BY <1>2 DEF IInv, TypeOK
<1>4. ks \in KeyLists
  BY <1>1 DEF KeyLists
<1>5. /\ x \in Execution /\ x.at = "import" /\ x.import = exec[w].import
      /\ x.row = exec[w].row /\ x.locked = exec[w].locked /\ x.keys = ks
      /\ x.began = exec[w].began
  BY <1>1, <1>4 DEF Execution, Steps
<1> HIDE DEF x
<1>6. Placed(x) /\ Ordered(x) /\ \A v \in Worker \ {w} : Apart(x, exec[v])
  <2>1. /\ exec[w].row \notin {"import", "episode"} /\ exec[w].locked = {}
        /\ exec[w].began = 0
    BY DEF IInv, Placed, Ordered
  <2> QED
    BY <1>1, <1>5, <2>1 DEF Placed, Ordered, Apart
<1> QED
  BY <1>3, <1>5, <1>6, ReadIInv

\* GetImportForResolve: the import keeps its episode while the row is locked.
LEMMA LockImportIInv ==
  ASSUME IInv, NEW w \in Worker, LockImport(w)
  PROVE  IInv'
<1> USE DEF LockImport
<1>1. CASE episodeOf[exec[w].import] = None
  <2> DEFINE x == [exec[w] EXCEPT !.at = "identity", !.row = "import"]
  <2>1. exec' = [exec EXCEPT ![w] = x]
    BY <1>1 DEF Lock, IInv, TypeOK
  <2>2. exec[w] \in Execution /\ exec[w].import \in Import
    BY Busy
  <2>3. /\ x \in Execution /\ x.at = "identity" /\ x.import = exec[w].import
        /\ x.row = "import" /\ x.locked = exec[w].locked /\ x.keys = exec[w].keys
        /\ x.began = exec[w].began
    BY <2>2 DEF Execution, Steps
  <2> HIDE DEF x
  <2>4. /\ exec[w].locked = {} /\ exec[w].keys \in Resolutions[exec[w].import]
        /\ exec[w].began = 0
    BY DEF IInv, Placed, Ordered
  <2>5. \A v \in Worker \ {w} : Apart(x, exec[v])
    BY <2>3, <2>4 DEF Apart, ImportFree, HoldsImport
  <2>6. Placed(x) /\ Ordered(x)
    BY <1>1, <2>2, <2>3, <2>4 DEF Placed, Ordered
  <2> QED
    BY <2>1, <2>3, <2>5, <2>6, ReadIInv
<1>2. CASE episodeOf[exec[w].import] # None
  BY <1>2, ToCreateIInv
<1> QED
  BY <1>1, <1>2

\* The advisory locks, in ascending order.
LEMMA LockIdentityIInv ==
  ASSUME IInv, NEW w \in Worker, LockIdentity(w)
  PROVE  IInv'
<1> USE DEF LockIdentity
<1>1. /\ exec[w] \in Execution /\ exec[w].import \in Import
      /\ Placed(exec[w]) /\ Ordered(exec[w])
  BY Busy DEF IInv
<1>2. /\ exec[w].row = "import" /\ exec[w].keys \in Resolutions[exec[w].import]
      /\ exec[w].began = 0
  BY <1>1 DEF Placed
<1>3. CASE ToSet(exec[w].keys) = exec[w].locked
  <2> DEFINE x == [exec[w] EXCEPT !.at = "find"]
  <2>1. exec' = [exec EXCEPT ![w] = x]
    BY <1>3 DEF To
  <2>2. /\ x \in Execution /\ x.at = "find" /\ x.import = exec[w].import
        /\ x.row = "import" /\ x.locked = exec[w].locked /\ x.keys = exec[w].keys
        /\ x.began = 0
    BY <1>1, <1>2 DEF Execution, Steps
  <2> HIDE DEF x
  <2>3. \A v \in Worker \ {w} : Apart(x, exec[v])
    BY <1>2, <2>2 DEF Apart, IInv, Exclusive
  <2>4. Placed(x) /\ Ordered(x)
    BY <1>1, <1>2, <1>3, <2>2 DEF Placed, Ordered
  <2> QED
    BY <2>1, <2>2, <2>3, <2>4, ReadIInv
<1>4. CASE ToSet(exec[w].keys) # exec[w].locked
  <2> DEFINE k == NextKey(w)
             x == [exec[w] EXCEPT !.locked = @ \cup {k}]
  <2>1. ToSet(exec[w].keys) \subseteq Key
    BY <1>1, <1>2, KeyListFacts
  <2>2. /\ k \in ToSet(exec[w].keys) \ exec[w].locked
        /\ \A l \in ToSet(exec[w].keys) \ exec[w].locked : k <= l
    BY <1>1, <1>4, <2>1, NextKeyLeast, ImportsAssumption DEF Ordered
  <2> HIDE DEF k
  <2>3. exec' = [exec EXCEPT ![w] = x] /\ KeyFree(w, k)
    BY <1>4 DEF k
  <2>4. /\ x \in Execution /\ x.at = "identity" /\ x.import = exec[w].import
        /\ x.row = "import" /\ x.locked = exec[w].locked \cup {k} /\ x.keys = exec[w].keys
        /\ x.began = 0
    BY <1>1, <1>2, <2>1, <2>2 DEF Execution
  <2> HIDE DEF x
  <2>5. \A v \in Worker \ {w} : Apart(x, exec[v])
    BY <1>2, <2>3, <2>4 DEF Apart, IInv, Exclusive, KeyFree
  <2>6. Ordered(x)
    <3>1. \A l \in ToSet(exec[w].keys) : l \in Nat
      BY <2>1, ImportsAssumption
    <3> QED
      BY <1>1, <2>2, <2>4, <3>1 DEF Ordered
  <2>7. Placed(x)
    BY <1>1, <1>2, <2>4 DEF Placed
  <2> QED
    BY <2>3, <2>4, <2>5, <2>6, <2>7, ReadIInv
<1> QED
  BY <1>3, <1>4

LEMMA FindEpisodeIInv ==
  ASSUME IInv, NEW w \in Worker, FindEpisode(w)
  PROVE  IInv'
<1> USE DEF FindEpisode
<1>1. /\ exec[w] \in Execution /\ exec[w].import \in Import
      /\ Placed(exec[w]) /\ Ordered(exec[w])
  BY Busy DEF IInv
<1>2. /\ exec[w].row = "import" /\ exec[w].keys \in Resolutions[exec[w].import]
      /\ exec[w].began = 0
  BY <1>1 DEF Placed
<1> DEFINE e == FirstOwner(exec[w].keys)
           x == [exec[w] EXCEPT !.at = "save", !.episode = e]
<1>3. e \in Episode \cup {None}
  BY <1>1, <1>2, FirstOwnerFound DEF IInv
<1>4. exec' = [exec EXCEPT ![w] = x]
  BY DEF IInv, TypeOK
<1> HIDE DEF e
<1>5. /\ x \in Execution /\ x.at = "save" /\ x.import = exec[w].import /\ x.episode = e
      /\ x.row = "import" /\ x.locked = exec[w].locked /\ x.keys = exec[w].keys
      /\ x.began = 0
  BY <1>1, <1>2, <1>3 DEF Execution, Steps
<1> HIDE DEF x
<1>6. \A v \in Worker \ {w} : Apart(x, exec[v])
  BY <1>2, <1>5 DEF Apart, IInv, Exclusive
<1>7. Placed(x) /\ Ordered(x)
  BY <1>1, <1>2, <1>5 DEF Placed, Ordered, e
<1> QED
  BY <1>4, <1>5, <1>6, <1>7, ReadIInv
\* What is attached stays attached, and what is said of executions is about that.
LEMMA PlacedKept ==
  ASSUME NEW x, Placed(x),
         \A i \in Import : episodeOf[i] # None => episodeOf'[i] = episodeOf[i],
         x.at \in {"identity", "find", "save"} => episodeOf'[x.import] = episodeOf[x.import],
         x.at = "save" => FirstOwner(x.keys)' = FirstOwner(x.keys),
         \A i \in Import : episodeOf[i] # None =>
           /\ sources[episodeOf[i]] # {} => sources'[episodeOf[i]] # {}
           /\ runs[episodeOf[i]] # {} => runs'[episodeOf[i]] # {},
         x.at \in {"create", "latest", "insert"} =>
           \A r \in runs'[x.episode] : r.created # x.began,
         x.at = "insert" => LatestRun(x.episode)' = LatestRun(x.episode)
  PROVE  Placed(x)'
<1>1. x.at = "ok" => HasRun(x.import)'
  BY DEF Placed, HasRun
<1> QED
  BY <1>1 DEF Placed

\* SaveResolved: of the executions that know one of its keys, or its import, it
\* is the only one to have got this far.
LEMMA SaveIInv ==
  ASSUME IInv, NEW w \in Worker, Save(w)
  PROVE  IInv'
<1> USE DEF Save
<1>1. /\ exec[w] \in Execution /\ exec[w].import \in Import
      /\ Placed(exec[w]) /\ Ordered(exec[w])
  BY Busy DEF IInv
<1> DEFINE found == exec[w].episode
<1>2. PICK i \in Import : i = exec[w].import
  BY <1>1
<1>3. PICK ks \in Resolutions[i] : ks = exec[w].keys
  BY <1>1, <1>2 DEF Placed
<1>4. PICK e : e = IF found = None THEN episodes + 1 ELSE found
  OBVIOUS
<1>5. /\ episodeOf[i] = None /\ found = FirstOwner(ks) /\ exec[w].row = "import"
      /\ exec[w].locked = ToSet(ks)
  BY <1>1, <1>2, <1>3 DEF Placed, Ordered
<1>6. /\ IsFiniteSet(Attached) /\ Cardinality(Attached) \in Nat
      /\ Cardinality(Attached) + 1 <= Cardinality(Import)
      /\ Cardinality(Attached \cup {i}) = Cardinality(Attached) + 1
  <2>1. Attached \subseteq Import /\ i \notin Attached
    BY <1>5 DEF Attached
  <2>2. IsFiniteSet(Attached)
    BY <2>1, ImportsAssumption, FS_Subset
  <2>3. Cardinality(Attached \cup {i}) = Cardinality(Attached) + 1
    BY <2>1, <2>2, FS_AddElement
  <2>4. Attached \cup {i} \subseteq Import
    BY <2>1
  <2>5. Cardinality(Attached \cup {i}) <= Cardinality(Import)
    BY <2>4, ImportsAssumption, FS_Subset
  <2> QED
    BY <2>2, <2>3, <2>5, FS_CardinalityType
<1>7. found \in Episode \cup {None}
  BY <1>5, FirstOwnerFound DEF IInv
<1>8. e \in Episode /\ e # None
  BY <1>4, <1>6, <1>7, EpisodeIsNotNone, ImportCount DEF Episode, IInv, TypeOK, EpisodesCounted
<1>9. /\ episodeOf' = [episodeOf EXCEPT ![i] = e]
      /\ sources' = [sources EXCEPT ![e] = @ \cup {i}]
      /\ owner' = [k \in Key |-> IF k \in ToSet(ks) /\ owner[k] = None THEN e ELSE owner[k]]
      /\ episodes' = IF found = None THEN episodes + 1 ELSE episodes
      /\ exec' = [exec EXCEPT ![w] = Outside("begin", i, e)]
      /\ UNCHANGED <<table, run>>
  BY <1>2, <1>3, <1>4
     DEF CreateEpisode, EnrichEpisode, AddEpisodeIdentityKeys, AddEpisodeSource,
         SetImportEpisode, ToCreate
<1>10. /\ \A j \in Import : j # i => episodeOf'[j] = episodeOf[j]
       /\ episodeOf'[i] = e
       /\ \A d \in Episode : sources[d] # {} => sources'[d] # {}
       /\ \A k \in Key : k \notin ToSet(ks) \/ owner[k] # None => owner'[k] = owner[k]
       /\ \A k \in ToSet(ks) : k \in Key /\ (owner[k] = None => owner'[k] = e)
       /\ runs' = runs /\ \A d : LatestRun(d)' = LatestRun(d)
  BY <1>8, <1>9, KeyListFacts, ImportsAssumption DEF IInv, TypeOK, LatestRun, Latest, run
<1>11. \A v \in Worker \ {w} : \A y \in {exec[v]} : Placed(y)'
  <2> SUFFICES ASSUME NEW v \in Worker \ {w}, NEW y, y = exec[v]
               PROVE  Placed(y)'
    OBVIOUS
  <2>1. Placed(y) /\ Ordered(y) /\ Apart(exec[w], y)
    BY DEF IInv, Exclusive
  <2>2. y.at \in {"identity", "find", "save"} => y.import # i /\ y.import \in Import
    BY <1>2, <1>5, <2>1 DEF Apart, Placed
  <2>3. y.at = "save" => FirstOwner(y.keys)' = FirstOwner(y.keys)
    <3> SUFFICES ASSUME y.at = "save" PROVE FirstOwner(y.keys)' = FirstOwner(y.keys)
      OBVIOUS
    <3>1. y.import \in Import /\ y.keys \in Resolutions[y.import]
      BY <2>1 DEF Placed
    <3>2. ToSet(y.keys) \cap ToSet(ks) = {} /\ ToSet(y.keys) \subseteq Key
      BY <1>5, <2>1, <3>1, KeyListFacts DEF Apart, Ordered
    <3>3. \A k \in ToSet(y.keys) : owner'[k] = owner[k]
      BY <1>10, <3>2
    <3> QED
      BY <3>1, <3>3, FirstOwnerKept
  <2>4. \A j \in Import : episodeOf[j] # None =>
          episodeOf[j] \in Episode /\ episodeOf'[j] = episodeOf[j]
    BY <1>5, <1>10 DEF IInv, TypeOK
  <2>5. y.at \in {"create", "latest", "insert"} =>
          \A r \in runs'[y.episode] : r.created # y.began
    BY <1>10, <2>1 DEF Placed
  <2> QED
    BY <1>10, <2>1, <2>2, <2>3, <2>4, <2>5, PlacedKept
<1>12. PICK x : x = Outside("begin", i, e)
  OBVIOUS
<1>13. /\ x \in Execution /\ Ordered(x) /\ \A y : Apart(x, y)
       /\ x.row = None /\ x.at = "begin" /\ x.import = i /\ x.episode = e /\ x.began = 0
  BY <1>8, <1>12, OutsidePlaced DEF Steps
<1>14. Placed(x)'
  BY <1>8, <1>10, <1>13, ImportsAssumption DEF Placed
<1>15. /\ (exec \in [Worker -> Execution])'
       /\ (\A v \in Worker : Placed(exec[v]) /\ Ordered(exec[v]))'
       /\ Exclusive'
  BY <1>9, <1>11, <1>12, <1>13, <1>14, Moves
<1>16. episodes' \in 0..Cardinality(Import) /\ EpisodesCounted'
  <2>1. Attached' = Attached \cup {i}
    BY <1>8, <1>10 DEF Attached
  <2> QED
    BY <1>6, <1>9, <2>1, ImportCount DEF EpisodesCounted, IInv, TypeOK
<1>17. TypeOK'
  <2>1. owner' \in [Key -> Episode \cup {None}]
    BY <1>8, <1>9 DEF IInv, TypeOK
  <2>2. episodeOf' \in [Import -> Episode \cup {None}] /\ sources' \in [Episode -> SUBSET Import]
    BY <1>8, <1>9 DEF IInv, TypeOK
  <2> QED
    BY <1>9, <1>15, <1>16, <2>1, <2>2 DEF IInv, TypeOK, table, run
<1>18. OwnsItsIdentity'
  <2> SUFFICES ASSUME NEW j \in Import, episodeOf'[j] # None
               PROVE  \E ls \in Resolutions[j] : owner'[Head(ls)] = episodeOf'[j]
    BY DEF OwnsItsIdentity
  <2>1. CASE j = i
    <3>1. Head(ks) \in ToSet(ks) /\ Head(ks) \in Key
      BY KeyListFacts
    <3>2. owner[Head(ks)] # None => e = owner[Head(ks)]
      BY <1>4, <1>5, FirstOwnerFound DEF IInv
    <3>3. owner'[Head(ks)] = e
      BY <1>10, <3>1, <3>2
    <3> QED
      BY <1>10, <2>1, <3>3
  <2>2. CASE j # i
    <3>1. episodeOf[j] # None /\ episodeOf'[j] = episodeOf[j]
      BY <1>10, <2>2
    <3>2. PICK ls \in Resolutions[j] : owner[Head(ls)] = episodeOf[j]
      BY <3>1 DEF IInv, OwnsItsIdentity
    <3>3. Head(ls) \in Key
      BY KeyListFacts
    <3> QED
      BY <1>10, <3>1, <3>2, <3>3
  <2> QED
    BY <2>1, <2>2
<1>19. Succeeded'
  <2> SUFFICES ASSUME NEW j \in Import, job'[j] = "succeeded" PROVE HasRun(j)'
    BY DEF Succeeded
  <2>1. HasRun(j) /\ j # i
    BY <1>5, <1>9 DEF IInv, Succeeded, HasRun, table
  <2>2. episodeOf[j] \in Episode /\ episodeOf'[j] = episodeOf[j]
    BY <1>10, <2>1 DEF HasRun, IInv, TypeOK
  <2> QED
    BY <1>10, <2>1, <2>2 DEF HasRun
<1>20. Attempted' /\ RunsDated' /\ HiddenByFailureOnly'
  BY <1>9, RunsUnchanged DEF IInv, Attempted, table, run
<1> QED
  BY <1>15, <1>16, <1>17, <1>18, <1>19, <1>20 DEF IInv
\* The BEGIN of Create: no run and no other Create has its date.
LEMMA BeginIInv ==
  ASSUME IInv, NEW w \in Worker, Begin(w)
  PROVE  IInv'
<1> USE DEF Begin
<1>1. /\ exec[w] \in Execution /\ exec[w].import \in Import
      /\ Placed(exec[w]) /\ Ordered(exec[w])
  BY Busy DEF IInv
<1>2. PICK e \in Episode : e = exec[w].episode
  BY <1>1 DEF Placed, IInv, TypeOK, Execution
<1>3. PICK now \in Nat \ {0} :
        /\ now = Max(Times(e)) + 1
        /\ \A r \in runs[e] : r.created < now
        /\ \A v \in Worker : exec[v].episode = e => exec[v].began < now
  BY <1>2, BeginsLast
<1> DEFINE x == [exec[w] EXCEPT !.at = "create", !.began = now]
<1>4. exec' = [exec EXCEPT ![w] = x]
  BY <1>2, <1>3 DEF IInv, TypeOK
<1>5. /\ x \in Execution /\ x.at = "create" /\ x.import = exec[w].import
      /\ x.row = exec[w].row /\ x.locked = exec[w].locked /\ x.keys = exec[w].keys
      /\ x.episode = e /\ x.began = now
  BY <1>1, <1>2 DEF Execution, Steps
<1> HIDE DEF x
<1>6. exec[w].locked = {} /\ exec[w].row \notin {"import", "episode"}
  BY <1>1 DEF Placed, Ordered
<1>7. \A r \in runs[e] : r.created # now
  BY <1>3 DEF IInv, TypeOK, Run
<1>8. \A v \in Worker : exec[v].episode = e => exec[v].began # now
  BY <1>3 DEF IInv, TypeOK, Execution
<1>9. \A v \in Worker \ {w} : Apart(x, exec[v])
  BY <1>5, <1>6, <1>8 DEF Apart
<1>10. Placed(x) /\ Ordered(x)
  BY <1>1, <1>2, <1>5, <1>6, <1>7 DEF Placed, Ordered
<1> QED
  BY <1>4, <1>5, <1>9, <1>10, ReadIInv

\* Create: the episode stays locked until the run is inserted, or is there.
LEMMA LockEpisodeIInv ==
  ASSUME IInv, NEW w \in Worker, LockEpisode(w)
  PROVE  IInv'
<1> USE DEF LockEpisode
<1>1. /\ exec[w] \in Execution /\ exec[w].import \in Import
      /\ Placed(exec[w]) /\ Ordered(exec[w])
  BY Busy DEF IInv
<1>2. CASE sources[exec[w].episode] = {}
  BY <1>2, ReturnIInv
<1>3. CASE sources[exec[w].episode] # {}
  <2> DEFINE x == [exec[w] EXCEPT !.at = "latest", !.row = "episode"]
  <2>1. exec' = [exec EXCEPT ![w] = x]
    BY <1>3 DEF Lock, IInv, TypeOK
  <2>2. /\ x \in Execution /\ x.at = "latest" /\ x.import = exec[w].import
        /\ x.row = "episode" /\ x.locked = exec[w].locked /\ x.keys = exec[w].keys
        /\ x.episode = exec[w].episode /\ x.began = exec[w].began
    BY <1>1 DEF Execution, Steps
  <2> HIDE DEF x
  <2>3. exec[w].locked = {}
    BY <1>1 DEF Ordered
  <2>4. \A v \in Worker \ {w} : Apart(x, exec[v])
    BY <2>2, <2>3 DEF Apart, EpisodeFree, HoldsEpisode, IInv, Exclusive
  <2>5. Placed(x) /\ Ordered(x)
    BY <1>1, <1>3, <2>2, <2>3 DEF Placed, Ordered
  <2> QED
    BY <2>1, <2>2, <2>4, <2>5, ReadIInv
<1> QED
  BY <1>2, <1>3

LEMMA GetLatestIInv ==
  ASSUME IInv, NEW w \in Worker, GetLatest(w)
  PROVE  IInv'
<1> USE DEF GetLatest
<1>1. /\ exec[w] \in Execution /\ exec[w].import \in Import
      /\ Placed(exec[w]) /\ Ordered(exec[w])
  BY Busy DEF IInv
<1>2. exec[w].episode \in Episode /\ exec[w].row = "episode"
  BY <1>1 DEF Placed, IInv, TypeOK
<1>3. CASE LatestRun(exec[w].episode) \in {"open", "completed"}
  <2>1. runs[exec[w].episode] # {}
    BY <1>2, <1>3, LatestFacts, ImportsAssumption DEF IInv
  <2> QED
    BY <1>3, <2>1, ReturnIInv
<1>4. CASE LatestRun(exec[w].episode) \notin {"open", "completed"}
  <2> DEFINE x == [exec[w] EXCEPT !.at = "insert"]
  <2>1. exec' = [exec EXCEPT ![w] = x]
    BY <1>4 DEF To
  <2>2. /\ x \in Execution /\ x.at = "insert" /\ x.import = exec[w].import
        /\ x.row = "episode" /\ x.locked = exec[w].locked /\ x.keys = exec[w].keys
        /\ x.episode = exec[w].episode /\ x.began = exec[w].began
    BY <1>1, <1>2 DEF Execution, Steps
  <2> HIDE DEF x
  <2>3. LatestRun(exec[w].episode) \in {None, "failed"}
    BY <1>2, <1>4, LatestFacts DEF IInv, RunStatuses
  <2>4. \A v \in Worker \ {w} : Apart(x, exec[v])
    BY <1>2, <2>2 DEF Apart, IInv, Exclusive
  <2>5. Placed(x) /\ Ordered(x)
    BY <1>1, <2>2, <2>3 DEF Placed, Ordered
  <2> QED
    BY <2>1, <2>2, <2>4, <2>5, ReadIInv
<1> QED
  BY <1>3, <1>4

\* The INSERT finds the episode as GetLatest has read it.
LEMMA CreateRunIInv ==
  ASSUME IInv, NEW w \in Worker, CreateRun(w)
  PROVE  IInv'
<1> USE DEF CreateRun
<1>1. /\ exec[w] \in Execution /\ exec[w].import \in Import
      /\ Placed(exec[w]) /\ Ordered(exec[w])
  BY Busy DEF IInv
<1>2. PICK e \in Episode : e = exec[w].episode
  BY <1>1 DEF Placed, IInv, TypeOK
<1>3. PICK i \in Import : i = exec[w].import
  BY <1>1
<1>4. CASE Active(e) # {}
  BY <1>2, <1>4, ReturnIInv DEF run
<1>5. CASE Active(e) = {}
  <2>1. /\ LatestRun(e) \in {None, "failed"} /\ writing[e] = None
        /\ sources[e] # {} /\ episodeOf[i] = e /\ e # None
        /\ exec[w].row = "episode" /\ exec[w].began # 0
        /\ \A r \in runs[e] : r.created # exec[w].began
    BY <1>1, <1>2, <1>3 DEF Placed, IndexFree
  <2>2. PICK new \in Run : new = [created |-> exec[w].began, status |-> "open"]
    BY <1>1, <2>1 DEF Execution, Run, RunStatuses
  <2>3. /\ runs' = [runs EXCEPT ![e] = @ \cup {new}]
        /\ exec' = [exec EXCEPT ![w] = Outside("ok", i, None)]
        /\ UNCHANGED <<table, saved, writing>>
    BY <1>2, <1>3, <1>5, <2>2 DEF Return
  <2>4. /\ runs'[e] = runs[e] \cup {new} /\ new.status = "open" /\ new.created = exec[w].began
        /\ \A r \in runs[e] : r.created # new.created
        /\ \A d \in Episode : d # e => runs'[d] = runs[d]
    BY <2>1, <2>2, <2>3 DEF IInv, TypeOK
  <2>5. \A d \in Episode : d # e => /\ LatestRun(d)' = LatestRun(d)
                                    /\ Active(d)' = Active(d)
                                    /\ \A r : Newer(d, r)' = Newer(d, r)
    BY <2>4, SameRuns
  <2>6. \A v \in Worker \ {w} : \A y \in {exec[v]} : Placed(y)'
    <3> SUFFICES ASSUME NEW v \in Worker \ {w}, NEW y, y = exec[v]
                 PROVE  Placed(y)'
      OBVIOUS
    <3>1. Placed(y) /\ Apart(exec[w], y)
      BY DEF IInv, Exclusive
    <3>2. UNCHANGED <<episodeOf, sources, owner>>
      BY <2>3 DEF saved
    <3>3. FirstOwner(y.keys)' = FirstOwner(y.keys)
      BY <3>2 DEF FirstOwner
    <3>4. y.at = "insert" => LatestRun(y.episode)' = LatestRun(y.episode)
      <4>1. y.at = "insert" => y.episode # e /\ y.episode \in Episode
        BY <1>2, <2>1, <3>1 DEF Apart, Placed, IInv, TypeOK
      <4> QED
        BY <2>5, <4>1
    <3>5. \A j \in Import : episodeOf[j] # None => episodeOf[j] \in Episode
      BY DEF IInv, TypeOK
    <3>6. \A d \in Episode : runs[d] # {} => runs'[d] # {}
      BY <2>4
    <3>7. y.at \in {"create", "latest", "insert"} =>
            \A r \in runs'[y.episode] : r.created # y.began
      <4>1. CASE y.episode = e
        BY <1>2, <2>1, <2>4, <3>1, <4>1 DEF Placed, Apart
      <4>2. CASE y.episode # e
        <5>1. y.at \in {"create", "latest", "insert"} => y.episode \in Episode
          BY <3>1 DEF Placed, IInv, TypeOK
        <5> QED
          BY <2>4, <3>1, <4>2, <5>1 DEF Placed
      <4> QED
        BY <4>1, <4>2
    <3> QED
      BY <3>1, <3>2, <3>3, <3>4, <3>5, <3>6, <3>7, PlacedKept
  <2>7. PICK x : x = Outside("ok", i, None)
    OBVIOUS
  <2>8. /\ x \in Execution /\ Ordered(x) /\ \A y : Apart(x, y)
        /\ x.row = None /\ x.at = "ok" /\ x.import = i /\ x.began = 0
    BY <2>7, OutsidePlaced DEF Steps
  <2>9. Placed(x)'
    BY <2>1, <2>3, <2>4, <2>8, ImportsAssumption DEF Placed, HasRun, saved
  <2>10. /\ (exec \in [Worker -> Execution])'
         /\ (\A v \in Worker : Placed(exec[v]) /\ Ordered(exec[v]))'
         /\ Exclusive'
    BY <2>3, <2>6, <2>7, <2>8, <2>9, Moves
  <2>11. TypeOK'
    <3>1. runs' \in [Episode -> SUBSET Run]
      BY <2>3 DEF IInv, TypeOK
    <3> QED
      BY <2>3, <2>10, <3>1 DEF IInv, TypeOK, table, saved
  <2>12. RunsDated'
    <3> SUFFICES ASSUME NEW d \in Episode
                 PROVE  /\ IsFiniteSet(runs'[d])
                        /\ \A r, q \in runs'[d] : r.created = q.created => r = q
                        /\ \A r, q \in Active(d)' : r = q
                        /\ writing'[d] # None => Active(d)' # {}
      BY DEF RunsDated
    <3>1. CASE d = e
      <4>1. IsFiniteSet(runs'[e])
        BY <2>4, FS_AddElement DEF IInv, RunsDated
      <4>2. \A r, q \in runs'[e] : r.created = q.created => r = q
        BY <2>4 DEF IInv, RunsDated
      <4>3. Active(e)' = {new}
        BY <1>5, <2>4 DEF Active
      <4> QED
        BY <3>1, <4>1, <4>2, <4>3
    <3>2. CASE d # e
      BY <2>3, <2>4, <2>5, <3>2 DEF IInv, RunsDated
    <3> QED
      BY <3>1, <3>2
  <2>13. HiddenByFailureOnly'
    <3>1. runs[e] # {} => /\ Latest(e) \in runs[e] /\ Latest(e).status = "failed"
                          /\ \A q \in runs[e] : q.created <= Latest(e).created
      BY <2>1, LatestFacts DEF IInv
    <3>2. \A r \in runs'[e] : r.created \in Nat
      BY <2>11 DEF TypeOK, Run
    <3> SUFFICES ASSUME NEW d \in Episode, NEW r \in runs'[d], r.status # "failed",
                        Newer(d, r)' # {}
                 PROVE  \E q \in Newer(d, r)' : q.status = "failed"
      BY DEF HiddenByFailureOnly
    <3>3. CASE d # e
      BY <2>4, <2>5, <3>3 DEF IInv, HiddenByFailureOnly
    <3>4. CASE d = e
      <4>1. PICK q \in runs'[e] : q.created > r.created
        BY <3>4 DEF Newer
      <4>2. runs[e] # {} /\ Latest(e) \in runs'[e]
        BY <2>4, <3>1, <3>2, <3>4, <4>1
      <4>3. CASE r = new
        <5>1. q \in runs[e]
          BY <2>4, <3>2, <4>1, <4>3
        <5>2. Latest(e).created > r.created
          BY <3>1, <3>2, <3>4, <4>1, <4>2, <5>1
        <5> QED
          BY <3>1, <3>4, <4>2, <5>2 DEF Newer
      <4>4. CASE r # new
        <5>1. r \in runs[e] /\ r # Latest(e)
          BY <2>4, <3>1, <3>4, <4>2, <4>4
        <5>2. r.created <= Latest(e).created /\ r.created # Latest(e).created
          BY <3>1, <5>1 DEF IInv, RunsDated
        <5>3. Latest(e).created > r.created
          BY <3>2, <3>4, <4>2, <5>2
        <5> QED
          BY <3>1, <3>4, <4>2, <5>3 DEF Newer
      <4> QED
        BY <4>3, <4>4
    <3> QED
      BY <3>3, <3>4
  <2>14. Succeeded'
    <3>1. \A d \in Episode : runs[d] # {} => runs'[d] # {}
      BY <2>4
    <3>2. \A j \in Import : HasRun(j) => HasRun(j)'
      BY <2>3, <3>1 DEF HasRun, IInv, TypeOK, saved
    <3> QED
      BY <2>3, <3>2 DEF IInv, Succeeded, table
  <2>15. Attempted' /\ EpisodesCounted' /\ OwnsItsIdentity'
    BY <2>3 DEF IInv, Attempted, EpisodesCounted, Attached, OwnsItsIdentity, table, saved
  <2> QED
    BY <2>10, <2>11, <2>12, <2>13, <2>14, <2>15 DEF IInv
<1> QED
  BY <1>4, <1>5
-----------------------------------------------------------------------------
(* The transactions of a run. *)

\* Only the mark of the transaction changes.
LEMMA MarkIInv ==
  ASSUME IInv, NEW e \in Episode, NEW status \in RunStatuses \cup {None},
         writing' = [writing EXCEPT ![e] = status], status # None => Active(e) # {},
         UNCHANGED <<table, saved, runs, exec>>
  PROVE  IInv'
<1>1. \A w \in Worker : (Placed(exec[w]) /\ Ordered(exec[w]))'
  <2> SUFFICES ASSUME NEW w \in Worker PROVE (Placed(exec[w]) /\ Ordered(exec[w]))'
    OBVIOUS
  <2>1. PICK y : y = exec[w]
    OBVIOUS
  <2>2. Placed(y) /\ Ordered(y)
    BY <2>1 DEF IInv
  <2>3. /\ UNCHANGED <<episodeOf, sources, owner>> /\ FirstOwner(y.keys)' = FirstOwner(y.keys)
        /\ LatestRun(y.episode)' = LatestRun(y.episode)
    BY DEF saved, FirstOwner, LatestRun, Latest
  <2>4. y.at \in {"create", "latest", "insert"} =>
          \A r \in runs'[y.episode] : r.created # y.began
    BY <2>2 DEF Placed
  <2>5. Placed(y)'
    BY <2>2, <2>3, <2>4, PlacedKept
  <2> QED
    BY <2>1, <2>2, <2>5 DEF Placed, Ordered
<1>2. TypeOK'
  BY DEF IInv, TypeOK, table, saved
<1>3. RunsDated' /\ HiddenByFailureOnly'
  <2>1. \A d \in Episode : writing'[d] # None => writing[d] # None \/ Active(d) # {}
    BY DEF IInv, TypeOK
  <2> QED
    BY <2>1, RunsUnchanged
<1>4. Exclusive' /\ Attempted' /\ EpisodesCounted' /\ OwnsItsIdentity' /\ Succeeded'
  BY DEF IInv, Exclusive, Apart, Attempted, EpisodesCounted, Attached, OwnsItsIdentity,
         Succeeded, HasRun, table, saved
<1> QED
  BY <1>1, <1>2, <1>3, <1>4 DEF IInv

LEMMA WriteIInv ==
  ASSUME IInv, NEW e \in Episode, Plan(e) \/ EndRun(e) \/ RollBack(e)
  PROVE  IInv'
<1>1. ASSUME NEW status \in RunStatuses, Write(e, status) PROVE IInv'
  BY <1>1, MarkIInv DEF Write
<1>2. RollBack(e) => IInv'
  BY MarkIInv DEF RollBack
<1> QED
  BY <1>1, <1>2 DEF Plan, EndRun, RunStatuses

\* The commit gives the active run its status: a is the run before, b after it.
LEMMA CommitStep ==
  ASSUME IInv, NEW e \in Episode, RunCommits(e)
  PROVE  \E a \in runs[e], b \in Run :
           /\ a.status = "open" /\ b.status = writing[e] /\ b.created = a.created
           /\ Active(e) = {a} /\ runs'[e] = (runs[e] \ {a}) \cup {b}
           /\ \A d \in Episode : d # e => runs'[d] = runs[d]
           /\ writing' = [writing EXCEPT ![e] = None]
           /\ UNCHANGED <<table, saved, exec>>
<1> USE DEF RunCommits
<1>1. writing[e] \in RunStatuses /\ Active(e) # {}
  BY DEF IInv, TypeOK, RunsDated
<1>2. PICK a \in Active(e) : Active(e) = {a}
  BY <1>1 DEF IInv, RunsDated
<1>3. a \in runs[e] /\ a \in Run /\ a.status = "open"
  BY <1>2 DEF Active, IInv, TypeOK
<1> DEFINE b == [a EXCEPT !.status = writing[e]]
<1>4. b \in Run /\ b.status = writing[e] /\ b.created = a.created
  BY <1>1, <1>3 DEF Run
<1>5. {[r EXCEPT !.status = writing[e]] : r \in Active(e)} = {b}
  BY <1>2
<1>6. /\ runs'[e] = (runs[e] \ {a}) \cup {b}
      /\ \A d \in Episode : d # e => runs'[d] = runs[d]
  BY <1>2, <1>5 DEF IInv, TypeOK
<1> QED
  BY <1>2, <1>3, <1>4, <1>6

\* Nobody is about to insert, or the episode would not be free.
LEMMA RunCommitsIInv ==
  ASSUME IInv, NEW e \in Episode, RunCommits(e)
  PROVE  IInv'
<1>1. EpisodeFree(e)
  BY DEF RunCommits
<1>2. PICK a \in runs[e], b \in Run :
        /\ a.status = "open" /\ b.status = writing[e] /\ b.created = a.created
        /\ Active(e) = {a} /\ runs'[e] = (runs[e] \ {a}) \cup {b}
        /\ \A d \in Episode : d # e => runs'[d] = runs[d]
        /\ writing' = [writing EXCEPT ![e] = None]
        /\ UNCHANGED <<table, saved, exec>>
  BY CommitStep
<1>3. \A d \in Episode : d # e => /\ LatestRun(d)' = LatestRun(d)
                                  /\ Active(d)' = Active(d)
                                  /\ \A r : Newer(d, r)' = Newer(d, r)
  BY <1>2, SameRuns
<1>4. \A w \in Worker : (Placed(exec[w]) /\ Ordered(exec[w]))'
  <2> SUFFICES ASSUME NEW w \in Worker PROVE (Placed(exec[w]) /\ Ordered(exec[w]))'
    OBVIOUS
  <2>1. PICK y : y = exec[w]
    OBVIOUS
  <2>2. Placed(y) /\ Ordered(y)
    BY <2>1 DEF IInv
  <2>3. UNCHANGED <<episodeOf, sources, owner>> /\ FirstOwner(y.keys)' = FirstOwner(y.keys)
    BY <1>2 DEF saved, FirstOwner
  <2>4. y.at \in {"create", "latest", "insert"} => y.episode \in Episode
    BY <2>1, <2>2 DEF Placed, IInv, TypeOK
  <2>5. y.at = "insert" => LatestRun(y.episode)' = LatestRun(y.episode)
    <3>1. y.at = "insert" => y.episode # e
      BY <1>1, <2>1, <2>2 DEF Placed, EpisodeFree, HoldsEpisode
    <3> QED
      BY <1>3, <2>4, <3>1
  <2>6. \A j \in Import : episodeOf[j] # None => episodeOf[j] \in Episode
    BY DEF IInv, TypeOK
  <2>7. \A d \in Episode : runs[d] # {} => runs'[d] # {}
    BY <1>2
  <2>8. y.at \in {"create", "latest", "insert"} =>
          \A r \in runs'[y.episode] : r.created # y.began
    BY <1>2, <2>2, <2>4 DEF Placed
  <2>9. Placed(y)'
    BY <2>2, <2>3, <2>5, <2>6, <2>7, <2>8, PlacedKept
  <2> QED
    BY <1>2, <2>1, <2>2, <2>9 DEF Placed, Ordered
<1>5. TypeOK'
  <2>1. runs' \in [Episode -> SUBSET Run]
    BY <1>2 DEF RunCommits, IInv, TypeOK
  <2>2. writing' \in [Episode -> RunStatuses \cup {None}]
    BY <1>2 DEF IInv, TypeOK
  <2> QED
    BY <1>2, <2>1, <2>2 DEF IInv, TypeOK, table, saved
<1>6. RunsDated'
  <2> SUFFICES ASSUME NEW d \in Episode
               PROVE  /\ IsFiniteSet(runs'[d])
                      /\ \A r, q \in runs'[d] : r.created = q.created => r = q
                      /\ \A r, q \in Active(d)' : r = q
                      /\ writing'[d] # None => Active(d)' # {}
    BY DEF RunsDated
  <2>1. CASE d = e
    <3>1. IsFiniteSet(runs'[e])
      <4>1. IsFiniteSet(runs[e] \ {a})
        BY FS_RemoveElement DEF IInv, RunsDated
      <4> QED
        BY <1>2, <4>1, FS_AddElement
    <3>2. \A r, q \in runs'[e] : r.created = q.created => r = q
      BY <1>2 DEF IInv, RunsDated
    <3>3. \A r \in Active(e)' : r = b
      BY <1>2 DEF Active
    <3>4. writing'[e] = None
      BY <1>2 DEF IInv, TypeOK
    <3> QED
      BY <2>1, <3>1, <3>2, <3>3, <3>4
  <2>2. CASE d # e
    BY <1>2, <1>3, <2>2 DEF IInv, TypeOK, RunsDated
  <2> QED
    BY <2>1, <2>2
<1>7. HiddenByFailureOnly'
  <2> SUFFICES ASSUME NEW d \in Episode, NEW r \in runs'[d], r.status # "failed",
                      Newer(d, r)' # {}
               PROVE  \E q \in Newer(d, r)' : q.status = "failed"
    BY DEF HiddenByFailureOnly
  <2>1. CASE d # e
    BY <1>2, <1>3, <2>1 DEF IInv, HiddenByFailureOnly
  <2>2. CASE d = e
    <3>1. PICK r0 \in runs[e] : r0.status # "failed" /\ r0.created = r.created
      BY <1>2, <2>2
    <3>2. PICK q \in runs'[e] : q.created > r.created
      BY <2>2 DEF Newer
    <3>3. Newer(e, r0) # {}
      BY <1>2, <3>1, <3>2 DEF Newer
    <3>4. PICK p \in Newer(e, r0) : p.status = "failed"
      BY <3>1, <3>3 DEF IInv, HiddenByFailureOnly
    <3>5. p \in runs[e] /\ p # a /\ p.created > r.created
      BY <1>2, <3>1, <3>4 DEF Newer
    <3> QED
      BY <1>2, <2>2, <3>4, <3>5 DEF Newer
  <2> QED
    BY <2>1, <2>2
<1>8. Succeeded'
  <2>1. \A d \in Episode : runs[d] # {} => runs'[d] # {}
    BY <1>2
  <2>2. \A j \in Import : HasRun(j) => HasRun(j)'
    BY <1>2, <2>1 DEF HasRun, IInv, TypeOK, saved
  <2> QED
    BY <1>2, <2>2 DEF IInv, Succeeded, table
<1>9. Exclusive' /\ Attempted' /\ EpisodesCounted' /\ OwnsItsIdentity'
  BY <1>2 DEF IInv, Exclusive, Apart, Attempted, EpisodesCounted, Attached, OwnsItsIdentity,
              table, saved
<1> QED
  BY <1>4, <1>5, <1>6, <1>7, <1>8, <1>9 DEF IInv
-----------------------------------------------------------------------------
(* The jobs table, and executions that end. *)

\* A step of the jobs table alone.
LEMMA TableIInv ==
  ASSUME IInv, UNCHANGED <<saved, run, exec>>,
         (job \in [Import -> JobStatuses])', (attempt \in [Import -> 0..MaxAttempts])',
         (lease \in [Import -> Worker \cup {None}])',
         Attempted', \A i \in Import : job'[i] = "succeeded" => job[i] = "succeeded"
  PROVE  IInv'
<1>1. \A w \in Worker : (Placed(exec[w]) /\ Ordered(exec[w]))'
  <2> SUFFICES ASSUME NEW w \in Worker PROVE (Placed(exec[w]) /\ Ordered(exec[w]))'
    OBVIOUS
  <2>1. PICK y : y = exec[w]
    OBVIOUS
  <2>2. Placed(y)' /\ Ordered(y)
    BY <2>1, PlacedUnchanged DEF IInv
  <2> QED
    BY <2>1, <2>2 DEF Placed, Ordered
<1>2. TypeOK'
  BY DEF IInv, TypeOK, saved, run
<1>3. /\ Exclusive' /\ EpisodesCounted' /\ OwnsItsIdentity'
      /\ RunsDated' /\ HiddenByFailureOnly'
  BY RunsUnchanged DEF IInv, Exclusive, Apart, EpisodesCounted, Attached, OwnsItsIdentity, saved, run
<1>4. Succeeded'
  BY DEF IInv, Succeeded, HasRun, saved, run
<1> QED
  BY <1>1, <1>2, <1>3, <1>4 DEF IInv

LEMMA AfterFailureRequeues ==
  ASSUME IInv, NEW i \in Import
  PROVE  /\ AfterFailure(i) \in {"queued", "failed"}
         /\ AfterFailure(i) = "queued" => attempt[i] < MaxAttempts
  BY DEF AfterFailure

LEMMA CreateImportIInv ==
  ASSUME IInv, NEW i \in Import, CreateImport(i)
  PROVE  IInv'
<1>1. job' \in [Import -> JobStatuses] /\ UNCHANGED <<attempt, lease>>
  BY DEF CreateImport, IInv, TypeOK, JobStatuses
<1>2. Attempted'
  BY ImportsAssumption DEF CreateImport, IInv, TypeOK, Attempted
<1>3. \A j \in Import : job'[j] = "succeeded" => job[j] = "succeeded"
  BY DEF CreateImport, IInv, TypeOK
<1> QED
  BY <1>1, <1>2, <1>3, TableIInv DEF CreateImport, IInv, TypeOK

LEMMA RequeueStaleIInv ==
  ASSUME IInv, NEW i \in Import, RequeueStale(i)
  PROVE  IInv'
<1> USE DEF RequeueStale
<1>1. /\ job' \in [Import -> JobStatuses] /\ UNCHANGED attempt
      /\ lease' \in [Import -> Worker \cup {None}]
  BY AfterFailureRequeues DEF IInv, TypeOK, JobStatuses
<1>2. Attempted'
  BY AfterFailureRequeues DEF IInv, TypeOK, Attempted
<1>3. \A j \in Import : job'[j] = "succeeded" => job[j] = "succeeded"
  BY AfterFailureRequeues DEF IInv, TypeOK
<1> QED
  BY <1>1, <1>2, <1>3, TableIInv DEF IInv, TypeOK

LEMMA RetainIInv ==
  ASSUME IInv, NEW i \in Import, Retain(i)
  PROVE  IInv'
<1> USE DEF Retain
<1>1. job' \in [Import -> JobStatuses] /\ UNCHANGED <<attempt, lease>>
  BY DEF IInv, TypeOK, JobStatuses
<1>2. Attempted'
  BY DEF IInv, TypeOK, Attempted
<1>3. \A j \in Import : job'[j] = "succeeded" => job[j] = "succeeded"
  BY DEF IInv, TypeOK
<1> QED
  BY <1>1, <1>2, <1>3, TableIInv DEF IInv, TypeOK

LEMMA IdlePlaced ==
  /\ Idle \in Execution /\ Ordered(Idle) /\ \A y : Apart(Idle, y)
  /\ Idle.at = "idle" /\ Idle.row = None /\ Idle.began = 0
  /\ Placed(Idle)
<1>1. /\ Idle \in Execution /\ Ordered(Idle) /\ \A y : Apart(Idle, y)
      /\ Idle.at = "idle" /\ Idle.row = None /\ Idle.began = 0
  BY OutsidePlaced DEF Idle, Steps
<1>2. Placed(Idle)
  BY <1>1, ImportsAssumption DEF Placed
<1> QED
  BY <1>1, <1>2

\* Only an execution that has a run for its import makes the job succeed.
LEMMA SettleIInv ==
  ASSUME IInv, NEW w \in Worker, Settle(w)
  PROVE  IInv'
<1> USE DEF Settle
<1>1. PICK i \in Import : i = exec[w].import
  BY Busy
<1>2. exec' = [exec EXCEPT ![w] = Idle] /\ UNCHANGED <<attempt, saved, run>>
  OBVIOUS
<1>3. PICK s \in {"succeeded", "queued", "failed"} :
        /\ s = "queued" => attempt[i] < MaxAttempts
        /\ s = "succeeded" => exec[w].at = "ok"
        /\ \/ UNCHANGED <<job, lease>>
           \/ job' = [job EXCEPT ![i] = s] /\ lease' = [lease EXCEPT ![i] = None]
  BY <1>1, AfterFailureRequeues
<1>4. /\ (exec \in [Worker -> Execution])'
      /\ (\A v \in Worker : Placed(exec[v]) /\ Ordered(exec[v]))'
      /\ Exclusive'
  <2>1. Placed(Idle)' /\ \A v \in Worker \ {w} : \A y \in {exec[v]} : Placed(y)'
    BY <1>2, IdlePlaced, PlacedUnchanged DEF IInv
  <2> QED
    BY <1>2, <2>1, IdlePlaced, Moves
<1>5. TypeOK'
  BY <1>2, <1>3, <1>4 DEF IInv, TypeOK, JobStatuses, saved, run
<1>6. Attempted'
  BY <1>2, <1>3 DEF IInv, TypeOK, Attempted
<1>7. EpisodesCounted' /\ RunsDated' /\ OwnsItsIdentity' /\ HiddenByFailureOnly'
  BY <1>2, RunsUnchanged DEF IInv, EpisodesCounted, Attached, OwnsItsIdentity, saved, run
<1>8. Succeeded'
  <2>1. exec[w].at = "ok" => HasRun(i)
    BY <1>1 DEF IInv, Placed
  <2>2. \A j \in Import : job'[j] = "succeeded" => HasRun(j)
    BY <1>3, <2>1 DEF IInv, TypeOK, Succeeded
  <2> QED
    BY <1>2, <2>2 DEF Succeeded, HasRun, saved, run
<1> QED
  BY <1>4, <1>5, <1>6, <1>7, <1>8 DEF IInv

LEMMA AbandonIInv ==
  ASSUME IInv, NEW w \in Worker, Abandon(w)
  PROVE  IInv'
  BY IdlePlaced, ReadIInv DEF Abandon

LEMMA FailsIInv ==
  ASSUME IInv, NEW w \in Worker, Fails(w)
  PROVE  IInv'
  BY ReturnIInv DEF Fails
-----------------------------------------------------------------------------
(* The invariant. *)

LEMMA InitIInv == Init => IInv
<1> SUFFICES ASSUME Init PROVE IInv
  OBVIOUS
<1> USE DEF Init
<1>1. \A w \in Worker : Placed(exec[w]) /\ Ordered(exec[w])
  BY IdlePlaced
<1>2. Exclusive
  BY IdlePlaced DEF Exclusive
<1>3. TypeOK
  BY IdlePlaced, ImportCount, ImportsAssumption DEF TypeOK, JobStatuses
<1>4. EpisodesCounted
  <2>1. Attached = {}
    BY DEF Attached
  <2> QED
    BY <2>1, FS_EmptySet DEF EpisodesCounted
<1>5. Attempted /\ OwnsItsIdentity /\ Succeeded
  BY ImportsAssumption DEF Attempted, OwnsItsIdentity, Succeeded
<1>6. RunsDated /\ HiddenByFailureOnly
  BY FS_EmptySet DEF RunsDated, HiddenByFailureOnly, Active
<1> QED
  BY <1>1, <1>2, <1>3, <1>4, <1>5, <1>6 DEF IInv

LEMMA StutterIInv == ASSUME IInv, UNCHANGED vars PROVE IInv'
  BY TableIInv DEF IInv, TypeOK, Attempted, vars, table

LEMMA NextIInv == ASSUME IInv, [Next]_vars PROVE IInv'
<1>1. CASE UNCHANGED vars
  BY <1>1, StutterIInv
<1>2. CASE \E i \in Import : \/ CreateImport(i) \/ RequeueStale(i) \/ Retain(i)
                             \/ \E w \in Worker : Claim(w, i)
  BY <1>2, CreateImportIInv, RequeueStaleIInv, RetainIInv, ClaimIInv
<1>3. CASE \E w \in Worker : Handle(w)
  BY <1>3, GetIInv, ResolveIInv, LockImportIInv, LockIdentityIInv, FindEpisodeIInv, SaveIInv,
     BeginIInv, LockEpisodeIInv, GetLatestIInv, CreateRunIInv DEF Handle
<1>4. CASE \E w \in Worker : Fails(w) \/ Settle(w) \/ Abandon(w)
  BY <1>4, FailsIInv, SettleIInv, AbandonIInv
<1>5. CASE \E e \in Episode : Plan(e) \/ EndRun(e) \/ RunCommits(e) \/ RollBack(e)
  BY <1>5, WriteIInv, RunCommitsIInv
<1> QED
  BY <1>1, <1>2, <1>3, <1>4, <1>5 DEF Next

LEMMA Invariance == Spec => []IInv
<1>1. Init => IInv
  BY InitIInv
<1>2. IInv /\ [Next]_vars => IInv'
  BY NextIInv
<1> QED
  BY <1>1, <1>2, PTL DEF Spec

\* Every variable keeps its type: there are never more episodes than links, and
\* no job is claimed more often than max_attempts allows.
THEOREM TypeCorrect == Spec => []TypeOK
<1>1. IInv => TypeOK
  BY DEF IInv
<1> QED
  BY <1>1, Invariance, PTL

\* Two imports that resolve to the same identity share an episode, however many
\* executions of SaveResolved overlap: the advisory locks of the keys suffice.
THEOREM IdentityOwned == Spec => []OwnsItsIdentity
<1>1. IInv => OwnsItsIdentity
  BY DEF IInv
<1> QED
  BY <1>1, Invariance, PTL

\* A run that has not failed is the latest of its episode, by created_at, or a
\* run that began after it has failed: what GetLatest has read still holds at the
\* INSERT, and a run that commits behind a newer one does so behind a failure.
THEOREM HiddenByFailure == Spec => []HiddenByFailureOnly
<1>1. IInv => HiddenByFailureOnly
  BY DEF IInv
<1> QED
  BY <1>1, Invariance, PTL

\* A resolve job that has succeeded has left its task a run, and its episode a
\* source, whichever execution settled it.
THEOREM RunLeft == Spec => []SucceededHasRun
<1>1. IInv => SucceededHasRun
  BY LatestFacts DEF IInv, TypeOK, Succeeded, HasRun, SucceededHasRun
<1> QED
  BY <1>1, Invariance, PTL
-----------------------------------------------------------------------------
(* What a step never undoes. *)

\* Only SaveResolved attaches, and it has found its import without an episode
\* under the lock of its row.
LEMMA AttachedStep ==
  ASSUME IInv, [Next]_vars
  PROVE  /\ \A i \in Import : episodeOf[i] # None => episodeOf'[i] = episodeOf[i]
         /\ \A k \in Key : owner[k] # None => owner'[k] = owner[k]
<1>1. CASE UNCHANGED saved
  BY <1>1 DEF saved
<1>2. CASE \E w \in Worker : Save(w)
  <2>1. PICK w \in Worker : Save(w)
    BY <1>2
  <2>2. exec[w].import \in Import /\ episodeOf[exec[w].import] = None
    BY <2>1 DEF Save, IInv, Placed
  <2>3. PICK e : /\ episodeOf' = [episodeOf EXCEPT ![exec[w].import] = e]
                 /\ AddEpisodeIdentityKeys(exec[w].keys, e)
    BY <2>1 DEF Save, SetImportEpisode
  <2> QED
    BY <2>2, <2>3 DEF AddEpisodeIdentityKeys, IInv, TypeOK
<1>3. UNCHANGED saved \/ \E w \in Worker : Save(w)
  BY DEF Next, vars, Handle, CreateImport, RequeueStale, Retain, Claim, Get, Resolve, LockImport,
         LockIdentity, FindEpisode, Begin, LockEpisode, GetLatest, CreateRun, Fails, Settle,
         Abandon, Plan, EndRun, Write, RunCommits, RollBack
<1> QED
  BY <1>1, <1>2, <1>3

\* What an import or a key is attached to is never replaced: a second execution
\* of the job finds the import resolved when it has its row, and a key that has
\* an owner keeps it.
THEOREM StaysAttached == Spec => AttachedForGood
<1>1. IInv /\ [Next]_vars =>
        [/\ \A i \in Import : episodeOf[i] # None => episodeOf'[i] = episodeOf[i]
         /\ \A k \in Key : owner[k] # None => owner'[k] = owner[k]]_vars
  BY AttachedStep
<1> QED
  BY <1>1, Invariance, PTL DEF Spec, AttachedForGood

LEMMA CompletedRunStays ==
  ASSUME IInv, [Next]_vars, NEW e \in Episode, LatestRun(e) = "completed"
  PROVE  LatestRun(e)' = "completed"
<1>1. CASE UNCHANGED runs
  BY <1>1 DEF LatestRun, Latest
<1>2. CASE \E w \in Worker : CreateRun(w)
  <2>1. PICK w \in Worker : CreateRun(w)
    BY <1>2
  <2>2. LatestRun(exec[w].episode) \in {None, "failed"}
    BY <2>1 DEF CreateRun, IInv, Placed
  <2>3. exec[w].episode # e
    BY <2>2, ImportsAssumption
  <2>4. runs'[e] = runs[e]
    BY <2>1, <2>3 DEF CreateRun, IInv, TypeOK
  <2> QED
    BY <2>4 DEF LatestRun, Latest
<1>3. CASE \E d \in Episode : RunCommits(d)
  <2>1. PICK d \in Episode : RunCommits(d)
    BY <1>3
  <2>2. PICK a \in runs[d], b \in Run :
          /\ a.status = "open" /\ b.created = a.created
          /\ runs'[d] = (runs[d] \ {a}) \cup {b}
          /\ \A c \in Episode : c # d => runs'[c] = runs[c]
    BY <2>1, CommitStep
  <2>3. CASE d # e
    BY <2>2, <2>3 DEF LatestRun, Latest
  <2>4. CASE d = e
    <3>1. /\ runs[e] # {} /\ e # None
          /\ Latest(e) \in runs[e] /\ Latest(e).status = "completed"
          /\ \A q \in runs[e] : q.created <= Latest(e).created
      BY EpisodeIsNotNone, LatestFacts, ImportsAssumption DEF IInv
    <3>2. PICK c \in runs[e] : c = Latest(e)
      BY <3>1
    <3>3. c \in runs'[e] /\ \A q \in runs'[e] : q.created <= c.created
      BY <2>2, <2>4, <3>1, <3>2
    <3>4. ASSUME NEW r \in runs'[e], \A q \in runs'[e] : q.created <= r.created
          PROVE  r = c
      <4>1. r.created <= c.created /\ c.created <= r.created
        BY <3>3, <3>4
      <4>2. r.created = c.created
        BY <2>2, <2>4, <4>1 DEF IInv, TypeOK, Run
      <4>3. CASE r \in runs[e]
        BY <4>2, <4>3 DEF IInv, RunsDated
      <4>4. CASE r = b
        <5>1. a = c
          BY <2>2, <2>4, <4>2, <4>4 DEF IInv, RunsDated
        <5> QED
          BY <2>2, <3>1, <3>2, <5>1
      <4> QED
        BY <2>2, <2>4, <4>3, <4>4
    <3>5. Latest(e)' = c
      BY <3>3, <3>4 DEF Latest
    <3> QED
      BY <3>1, <3>2, <3>3, <3>5 DEF LatestRun
  <2> QED
    BY <2>3, <2>4
<1>4. UNCHANGED runs \/ (\E w \in Worker : CreateRun(w)) \/ (\E d \in Episode : RunCommits(d))
  BY DEF Next, vars, run, Handle, CreateImport, RequeueStale, Retain, Claim, Get, Resolve,
         LockImport, LockIdentity, FindEpisode, Save, Begin, LockEpisode, GetLatest, Fails,
         Settle, Abandon, Plan, EndRun, Write, RollBack
<1> QED
  BY <1>1, <1>2, <1>3, <1>4

LEMMA CompletedTask ==
  ASSUME TypeOK, NEW i \in Import
  PROVE  TaskStatus(i) = "completed" <=> LatestRun(episodeOf[i]) = "completed"
  BY ImportsAssumption DEF TaskStatus

\* A task that has been reported completed is never reported otherwise: its
\* episode, and the run that was completed, stay the latest.
THEOREM StaysCompleted == Spec => CompletedStays
<1>1. ASSUME IInv, [Next]_vars, NEW i \in Import, TaskStatus(i) = "completed"
      PROVE  TaskStatus(i)' = "completed"
  <2>1. LatestRun(episodeOf[i]) = "completed"
    BY <1>1, CompletedTask DEF IInv
  <2>2. episodeOf[i] \in Episode
    BY <1>1, <2>1, ImportsAssumption DEF LatestRun, IInv, TypeOK
  <2>3. episodeOf'[i] = episodeOf[i]
    BY <1>1, <2>2, AttachedStep, EpisodeIsNotNone
  <2>4. PICK e \in Episode : e = episodeOf[i]
    BY <2>2
  <2>5. LatestRun(e)' = "completed"
    BY <1>1, <2>1, <2>4, CompletedRunStays
  <2>6. LatestRun(episodeOf[i])' = "completed"
    BY <2>3, <2>4, <2>5 DEF LatestRun
  <2> QED
    BY <2>6, ImportsAssumption DEF TaskStatus
<1>2. IInv /\ [Next]_vars =>
        [\A i \in Import : TaskStatus(i) = "completed" => TaskStatus(i)' = "completed"]_vars
  BY <1>1
<1> QED
  BY <1>2, Invariance, PTL DEF Spec, CompletedStays
-----------------------------------------------------------------------------
(* No deadlock. *)

\* Of finitely many workers one is the furthest ahead.
LEMMA FurthestAhead ==
  ASSUME NEW S \in SUBSET Worker, S # {}, \A x \in S : NextKey(x) \in Nat
  PROVE  \E x \in S : \A y \in S : NextKey(y) <= NextKey(x)
<1> DEFINE f == [x \in S |-> NextKey(x)]
           keys == {f[x] : x \in S}
<1>1. IsFiniteSet(keys)
  <2>1. IsFiniteSet(S)
    BY FS_Subset, ImportsAssumption
  <2>2. f \in [S -> Nat]
    OBVIOUS
  <2> QED
    BY <2>1, <2>2, FiniteImage
<1>2. PICK m \in keys : \A n \in keys : n <= m
  BY <1>1, GreatestNumber
<1> QED
  BY <1>2

LEMMA WorkersAreNotEpisodes == Worker \cap Episode = {}
  BY EpisodeIsNotNone, ImportsAssumption

\* An INSERT that waits at the index has seen a failed run in front of the
\* active one.
LEMMA WaitsBehindFailure ==
  ASSUME IInv, NEW x \in Worker, NEW y \in Episode, exec[x].at = "insert",
         exec[x].episode = y, writing[y] # None
  PROVE  Hidden(y)
<1>1. PICK r \in Active(y) : TRUE
  BY DEF IInv, RunsDated
<1>2. r \in runs[y] /\ r.status = "open"
  BY DEF Active
<1>3. LatestRun(y) \in {None, "failed"}
  BY DEF IInv, Placed
<1>4. /\ Latest(y) \in runs[y] /\ Latest(y).status # "open"
      /\ r.created <= Latest(y).created
  BY <1>2, <1>3, LatestFacts, ImportsAssumption DEF IInv
<1>5. r.created # Latest(y).created
  BY <1>2, <1>4 DEF IInv, RunsDated
<1>6. Latest(y).created > r.created
  BY <1>2, <1>4, <1>5 DEF IInv, TypeOK, Run
<1> QED
  BY <1>4, <1>6 DEF Hidden, Newer

\* Locks come in the order import, keys, episode, run, and keys in theirs: of
\* these transactions the one that is the furthest waits for none.
LEMMA SomeoneGoesOn ==
  ASSUME IInv, NEW T \in SUBSET (Worker \cup Episode), T # {},
         \A e \in T \cap Episode : ~Hidden(e)
  PROVE  \E x \in T : \A y \in T : ~Waits(x, y)
<1> DEFINE At(x, S) == x \in Worker /\ exec[x].at \in S
<1>1. ASSUME NEW x \in Worker, NEW y \in T,
             ~At(x, {"import", "identity", "save", "create"})
      PROVE  ~Waits(x, y)
  <2>1. CASE exec[x].at = "insert"
    BY <2>1, WaitsBehindFailure, WorkersAreNotEpisodes DEF Waits, IndexFree
  <2>2. CASE exec[x].at # "insert"
    BY <1>1, <2>2, WorkersAreNotEpisodes DEF Waits
  <2> QED
    BY <2>1, <2>2
<1>2. ASSUME NEW x, x \in Episode \/ At(x, {"save", "create"}), NEW y, Waits(x, y)
      PROVE  At(y, {"latest", "insert"})
  <2>1. y \in Worker /\ exec[y].row = "episode"
    BY <1>2, WorkersAreNotEpisodes DEF Waits, HoldsEpisode
  <2> QED
    BY <2>1 DEF IInv, Placed
<1>3. ASSUME NEW x, At(x, {"identity"}), NEW y, Waits(x, y)
      PROVE  /\ ToSet(exec[x].keys) # exec[x].locked
             /\ y \in Worker /\ NextKey(x) \in exec[y].locked
             /\ At(y, {"identity", "find", "save"})
  <2>1. /\ ToSet(exec[x].keys) # exec[x].locked
        /\ y \in Worker /\ NextKey(x) \in exec[y].locked
    BY <1>3, WorkersAreNotEpisodes DEF Waits
  <2> QED
    BY <2>1 DEF IInv, Ordered
<1>4. ASSUME NEW x, At(x, {"import"}), NEW y, Waits(x, y)
      PROVE  At(y, {"identity", "find", "save"})
  <2>1. y \in Worker /\ exec[y].row = "import"
    BY <1>4, WorkersAreNotEpisodes DEF Waits, HoldsImport
  <2> QED
    BY <2>1 DEF IInv, Placed
<1>5. ASSUME NEW x, At(x, {"identity"}), ToSet(exec[x].keys) # exec[x].locked
      PROVE  /\ NextKey(x) \in Nat
             /\ \A k \in exec[x].locked : k < NextKey(x)
  <2>1. /\ exec[x].locked \subseteq ToSet(exec[x].keys)
        /\ \A k \in exec[x].locked, l \in ToSet(exec[x].keys) \ exec[x].locked : k < l
    BY <1>5 DEF IInv, Ordered
  <2>2. exec[x].import \in Import /\ exec[x].keys \in Resolutions[exec[x].import]
    BY <1>5 DEF IInv, Placed
  <2>3. ToSet(exec[x].keys) \subseteq Nat
    BY <2>2, KeyListFacts, ImportsAssumption
  <2>4. NextKey(x) \in ToSet(exec[x].keys) \ exec[x].locked
    BY <1>5, <2>1, <2>3, NextKeyLeast
  <2> QED
    BY <2>1, <2>3, <2>4
<1>6. CASE \E x \in T : x \in Worker /\ ~At(x, {"import", "identity", "save", "create"})
  BY <1>1, <1>6
<1>7. CASE /\ \A x \in T : x \in Worker => At(x, {"import", "identity", "save", "create"})
           /\ \E x \in T : x \in Episode \/ At(x, {"save", "create"})
  <2>1. PICK x \in T : x \in Episode \/ At(x, {"save", "create"})
    BY <1>7
  <2>2. \A y \in T : ~At(y, {"latest", "insert"})
    BY <1>7
  <2> QED
    BY <1>2, <2>1, <2>2
<1>8. CASE /\ \A x \in T : At(x, {"import", "identity"})
           /\ \E x \in T : At(x, {"identity"})
  <2>1. CASE \E x \in T : At(x, {"identity"}) /\ ToSet(exec[x].keys) = exec[x].locked
    BY <1>3, <2>1
  <2>2. CASE \A x \in T : At(x, {"identity"}) => ToSet(exec[x].keys) # exec[x].locked
    <3> DEFINE S == {x \in T : At(x, {"identity"})}
    <3>1. S \in SUBSET Worker /\ S # {} /\ \A x \in S : NextKey(x) \in Nat
      BY <1>5, <1>8, <2>2
    <3>2. PICK x \in S : \A y \in S : NextKey(y) <= NextKey(x)
      BY <3>1, FurthestAhead
    <3>3. ASSUME NEW y \in T, Waits(x, y) PROVE FALSE
      <4>1. y \in S /\ NextKey(x) \in exec[y].locked
        BY <1>3, <1>8, <3>2, <3>3
      <4>2. NextKey(x) < NextKey(y) /\ NextKey(y) <= NextKey(x)
        BY <1>5, <2>2, <3>2, <4>1
      <4> QED
        BY <3>1, <3>2, <4>1, <4>2
    <3> QED
      BY <3>2, <3>3
  <2> QED
    BY <2>1, <2>2
<1>9. CASE \A x \in T : At(x, {"import"})
  BY <1>4, <1>9
<1> QED
  BY <1>6, <1>7, <1>8, <1>9

\* Of any transactions that resolve, create or end a run, one waits for none of
\* the others, unless a failed run hides the active run of their episode: but for
\* that, SaveResolved, Create and the transactions of a run cannot deadlock.
THEOREM NoDeadlock == Spec => []NoWaitCycle
<1>1. IInv => NoWaitCycle
  <2> SUFFICES ASSUME IInv, NEW T \in SUBSET (Worker \cup Episode), T # {},
                      \A e \in T \cap Episode : ~Hidden(e)
               PROVE  \E x \in T : \A y \in T : ~Waits(x, y)
    BY DEF NoWaitCycle
  <2> QED
    BY SomeoneGoesOn
<1> QED
  BY <1>1, Invariance, PTL
=============================================================================
