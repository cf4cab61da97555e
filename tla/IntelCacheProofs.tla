-------------------------- MODULE IntelCacheProofs --------------------------
(***************************************************************************)
(* Proofs about IntelCache, for every set of feeds' answers, of update     *)
(* processes and of requests: what the manifest says of the files beside   *)
(* it, that updates forget no feed, at whatever point they die, and that a *)
(* match names the last feed that has the address.                         *)
(***************************************************************************)
EXTENDS IntelCache, FiniteSetTheorems, SequenceTheorems, TLAPS

IsSeq(s) == \E T : s \in Seq(T)

Distinct(m) == \A i, j \in DOMAIN m : m[i].id = m[j].id => i = j

\* The entry e describes the file of its feed, if it is a feed of this build and
\* none of the doubtful ones: d holds the files and f the downloads.
Describes(e, doubt, d, f) ==
  e.id \in DOMAIN Builtin \ doubt =>
    /\ e.fetched_at \in DOMAIN f
    /\ f[e.fetched_at] = [id |-> e.id, rows |-> d[e.id]]
    /\ e.indicators = count_indicators(Builtin[e.id], d[e.id])

AllDescribe(m, doubt, d, f) == \A i \in DOMAIN m : Describes(m[i], doubt, d, f)

\* The feeds an update has brought home.
Done(results) == {r.id : r \in {x \in Range(results) : x.ok}}

\* The feeds of which an update's own manifest says nothing: those left in doubt
\* that it has not brought home, and the one it is writing.
Unsure(p, doubt) ==
  (doubt \ Done(p.results)) \cup (IF p.at = "data" THEN {Head(p.todo)} ELSE {})

-----------------------------------------------------------------------------

Proc(p) ==
  \/ p = Idle(p.exit)
  \/ /\ p.at \in {"fetch", "manifest"}
     /\ p = [at |-> p.at, todo |-> p.todo, manifest |-> p.manifest,
             results |-> p.results]
     /\ IsSeq(p.manifest) /\ IsSeq(p.results)
  \/ /\ p.at = "data"
     /\ p = [at |-> p.at, todo |-> p.todo, manifest |-> p.manifest,
             results |-> p.results, rows |-> p.rows]
     /\ IsSeq(p.manifest) /\ IsSeq(p.results)

Shape ==
  /\ updater = [u \in Updater |-> updater[u]]
  /\ data = [id \in DOMAIN Builtin |-> data[id]]
  /\ IsSeq(fetched)
  /\ Legible => IsSeq(manifest)
  /\ \A u \in Updater : Proc(updater[u])

\* What an update at work is about to record is true of the files.
Sound(p, doubt, d, f) ==
  p.at # "idle" =>
    /\ Distinct(p.manifest)
    /\ AllDescribe(p.manifest, Unsure(p, doubt), d, f)
    /\ p.at = "data" => Head(p.todo) \in doubt

OneUpdate ==
  \A u, v \in Updater : updater[u].at # "idle" /\ updater[v].at # "idle" => u = v

Truthful ==
  /\ OneUpdate
  /\ Legible => Distinct(manifest) /\ AllDescribe(manifest, in_doubt, data, fetched)
  /\ \A u \in Updater : Sound(updater[u], in_doubt, data, fetched)

CacheInv == Shape /\ (~overlapped => Truthful)

-----------------------------------------------------------------------------
(* Sequences.                                                              *)

\* Appending keeps what there is.
LEMMA Appended ==
  ASSUME NEW s, NEW x, IsSeq(s)
  PROVE  /\ IsSeq(Append(s, x))
         /\ Len(s) + 1 \in DOMAIN Append(s, x) /\ Append(s, x)[Len(s) + 1] = x
         /\ \A i \in DOMAIN s : i \in DOMAIN Append(s, x) /\ Append(s, x)[i] = s[i]
         /\ \A i \in DOMAIN Append(s, x) : i \in DOMAIN s \/ i = Len(s) + 1
<1>1. PICK T : s \in Seq(T)
  BY DEF IsSeq
<1>2. s \in Seq(T \cup {x})
  BY <1>1
<1>3. Append(s, x) \in Seq(T \cup {x})
  BY <1>2
<1>. QED BY <1>2, <1>3 DEF IsSeq

\* One more answer.
LEMMA DoneAppended ==
  ASSUME NEW s, NEW id, IsSeq(s)
  PROVE  /\ Done(Append(s, [id |-> id, ok |-> FALSE])) = Done(s)
         /\ Done(Append(s, [id |-> id, ok |-> TRUE])) = Done(s) \cup {id}
<1>1. ASSUME NEW x
      PROVE  Range(Append(s, x)) = Range(s) \cup {x}
  <2> DEFINE a == Append(s, x)
             n == Len(s) + 1
  <2>1. /\ n \in DOMAIN a /\ a[n] = x
        /\ \A i \in DOMAIN s : i \in DOMAIN a /\ a[i] = s[i]
        /\ \A i \in DOMAIN a : i \in DOMAIN s \/ i = n
    BY Appended
  <2> HIDE DEF a, n
  <2>2. \A y \in Range(a) : y \in Range(s) \cup {x}
    BY <2>1 DEF Range
  <2>3. \A y \in Range(s) \cup {x} : y \in Range(a)
    BY <2>1 DEF Range
  <2>4. Range(a) = Range(s) \cup {x}
    BY <2>2, <2>3
  <2>. QED BY <2>4 DEF a
<1> DEFINE failed == Append(s, [id |-> id, ok |-> FALSE])
           got == Append(s, [id |-> id, ok |-> TRUE])
<1>2. Range(failed) = Range(s) \cup {[id |-> id, ok |-> FALSE]}
  BY <1>1
<1>3. Range(got) = Range(s) \cup {[id |-> id, ok |-> TRUE]}
  BY <1>1
<1> HIDE DEF failed, got
<1>4. Done(failed) = Done(s)
  BY <1>2 DEF Done
<1>5. Done(got) = Done(s) \cup {id}
  <2> DEFINE one == [id |-> id, ok |-> TRUE]
  <2>1. one.ok /\ one.id = id
    OBVIOUS
  <2>2. Range(got) = Range(s) \cup {one}
    BY <1>3
  <2> HIDE DEF one
  <2>3. \A y \in Done(got) : y \in Done(s) \cup {id}
    BY <2>1, <2>2 DEF Done
  <2>4. \A y \in Done(s) \cup {id} : y \in Done(got)
    BY <2>1, <2>2 DEF Done
  <2>. QED BY <2>3, <2>4
<1>. QED BY <1>4, <1>5 DEF failed, got

\* An entry replaces the one of its feed, or comes last.
LEMMA EnteredKeeps ==
  ASSUME NEW m, NEW e, IsSeq(m)
  PROVE  /\ IsSeq(Entered(m, e))
         /\ Ids(Entered(m, e)) = Ids(m) \cup {e.id}
         /\ Distinct(m) => Distinct(Entered(m, e))
         /\ \A i \in DOMAIN Entered(m, e) :
              \/ Entered(m, e)[i] = e
              \/ \E j \in DOMAIN m : Entered(m, e)[i] = m[j] /\ m[j].id # e.id
<1>1. CASE e.id \in Ids(m)
  <2> DEFINE n == [i \in DOMAIN m |-> IF m[i].id = e.id THEN e ELSE m[i]]
  <2>1. Entered(m, e) = n
    BY <1>1 DEF Entered
  <2>2. IsSeq(n)
    <3>1. PICK T : m \in Seq(T)
      BY DEF IsSeq
    <3>2. Len(m) \in Nat /\ DOMAIN m = 1 .. Len(m)
      BY <3>1
    <3>3. n \in [1 .. Len(m) -> T \cup {e}]
      BY <3>1, <3>2
    <3>4. n \in Seq(T \cup {e})
      BY <3>2, <3>3, IsASeq
    <3>. QED BY <3>4 DEF IsSeq
  <2>3. \A i \in DOMAIN m : n[i].id = m[i].id
    OBVIOUS
  <2>4. Ids(n) = Ids(m)
    BY <2>3 DEF Ids
  <2>5. Distinct(m) => Distinct(n)
    BY <2>3 DEF Distinct
  <2>. QED BY <1>1, <2>1, <2>2, <2>4, <2>5
<1>2. CASE e.id \notin Ids(m)
  <2>1. Entered(m, e) = Append(m, e)
    BY <1>2 DEF Entered
  <2>2. /\ IsSeq(Append(m, e))
        /\ Len(m) + 1 \in DOMAIN Append(m, e) /\ Append(m, e)[Len(m) + 1] = e
        /\ \A i \in DOMAIN m : i \in DOMAIN Append(m, e) /\ Append(m, e)[i] = m[i]
        /\ \A i \in DOMAIN Append(m, e) : i \in DOMAIN m \/ i = Len(m) + 1
    BY Appended
  <2>3. \A i \in DOMAIN m : m[i].id # e.id
    BY <1>2 DEF Ids
  <2>4. Ids(Append(m, e)) = Ids(m) \cup {e.id}
    <3>1. \A x \in Ids(Append(m, e)) : x \in Ids(m) \cup {e.id}
      BY <2>2, Zenon DEF Ids
    <3>2. \A x \in Ids(m) \cup {e.id} : x \in Ids(Append(m, e))
      BY <2>2, Zenon DEF Ids
    <3>. QED BY <3>1, <3>2
  <2>5. Distinct(m) => Distinct(Append(m, e))
    BY <2>2, <2>3, Zenon DEF Distinct
  <2>. QED BY <2>1, <2>2, <2>3, <2>4, <2>5, Zenon
<1>. QED BY <1>1, <1>2

\* More doubt, other files of doubtful feeds and more downloads are no harm.
LEMMA StillDescribe ==
  ASSUME NEW m, NEW doubt, NEW more, NEW d, NEW after, NEW f, NEW longer,
         AllDescribe(m, doubt, d, f), doubt \subseteq more,
         \A id \in DOMAIN Builtin \ more : after[id] = d[id],
         \A i \in DOMAIN f : i \in DOMAIN longer /\ longer[i] = f[i]
  PROVE  AllDescribe(m, more, after, longer)
  BY Zenon DEF AllDescribe, Describes

-----------------------------------------------------------------------------

LEMMA InitCache == Init => CacheInv
<1> SUFFICES ASSUME Init
             PROVE  CacheInv
  OBVIOUS
<1>1. IsSeq(fetched) /\ (Legible => IsSeq(manifest))
  BY IntelCacheAssumption DEF Init, IsSeq, Legible
<1>2. \A u \in Updater : updater[u] = Idle("none")
  BY DEF Init
<1>3. Shape
  BY <1>1, <1>2 DEF Init, Shape, Proc, Idle
<1>4. OneUpdate /\ \A u \in Updater : Sound(updater[u], in_doubt, data, fetched)
  BY <1>2 DEF OneUpdate, Sound, Idle
<1>5. Legible => manifest = NewerCache
  BY DEF Init, Legible
<1>6. Distinct(NewerCache) /\ AllDescribe(NewerCache, in_doubt, data, fetched)
  BY IntelCacheAssumption DEF Distinct, AllDescribe, Describes
<1>. QED BY <1>3, <1>4, <1>5, <1>6 DEF CacheInv, Truthful

\* The analysis writes no file; at most it downloads.
LEMMA LoadKeeps ==
  ASSUME CacheInv, Load
  PROVE  CacheInv'
<1>1. /\ UNCHANGED <<data, manifest, updater, in_doubt, overlapped>>
      /\ fetched' = fetched \/ \E x : fetched' = Append(fetched, x)
  BY DEF Load, StartLoad, LoadFeed, StartLive, LiveFeed, Combine, LoadFails, files, history
<1>2. /\ IsSeq(fetched')
      /\ \A i \in DOMAIN fetched : i \in DOMAIN fetched' /\ fetched'[i] = fetched[i]
  <2>1. IsSeq(fetched)
    BY DEF CacheInv, Shape
  <2>2. CASE fetched' = fetched
    BY <2>1, <2>2 DEF IsSeq
  <2>3. ASSUME NEW x, fetched' = Append(fetched, x)
        PROVE  /\ IsSeq(fetched')
               /\ \A i \in DOMAIN fetched : i \in DOMAIN fetched' /\ fetched'[i] = fetched[i]
    BY <2>1, <2>3, Appended
  <2>. QED BY <1>1, <2>2, <2>3
<1>3. Shape'
  BY <1>1, <1>2 DEF CacheInv, Shape, Legible
<1>4. ASSUME ~overlapped
      PROVE  Truthful'
  <2>1. Truthful
    BY <1>4 DEF CacheInv
  <2>2. Legible => AllDescribe(manifest, in_doubt, data, fetched')
    BY <1>2, <2>1, StillDescribe DEF Truthful
  <2>3. ASSUME NEW u \in Updater
        PROVE  Sound(updater[u], in_doubt, data, fetched')
    BY <1>2, <2>1, StillDescribe DEF Truthful, Sound
  <2>. QED BY <1>1, <2>1, <2>2, <2>3 DEF Truthful, OneUpdate, Legible
<1>. QED BY <1>1, <1>3, <1>4 DEF CacheInv

\* One process moves on, the others stay where they are.
LEMMA ProcessMoves ==
  ASSUME CacheInv, NEW u \in Updater, NEW p, Proc(p),
         updater' = [updater EXCEPT ![u] = p]
  PROVE  /\ updater' = [v \in Updater |-> updater'[v]]
         /\ updater'[u] = p
         /\ \A v \in Updater \ {u} : updater'[v] = updater[v]
         /\ \A v \in Updater : Proc(updater'[v])
<1>1. updater = [v \in Updater |-> updater[v]] /\ \A v \in Updater : Proc(updater[v])
  BY DEF CacheInv, Shape
<1>2. /\ updater' = [v \in Updater |-> IF v = u THEN p ELSE updater[v]]
  BY <1>1
<1>. QED BY <1>1, <1>2

\* As long as no two updates are at work, it is enough that the one that moves
\* stays sound and that nobody else's feeds are touched: what the manifest says
\* of feeds in doubt does not count.
LEMMA TruthKept ==
  ASSUME CacheInv, ~overlapped, NEW u \in Updater, NEW p,
         updater'[u] = p,
         \A v \in Updater \ {u} : updater'[v] = updater[v],
         p.at # "idle" => \A v \in Updater \ {u} : updater[v].at = "idle",
         updater[u].at # "idle" \/ UNCHANGED <<data, fetched, in_doubt>>,
         Sound(p, in_doubt', data', fetched'),
         Legible' => /\ Distinct(manifest')
                     /\ AllDescribe(manifest', in_doubt', data', fetched')
  PROVE  Truthful'
<1>1. Truthful
  BY DEF CacheInv
<1>2. OneUpdate'
  BY <1>1 DEF Truthful, OneUpdate
<1>3. ASSUME NEW v \in Updater
      PROVE  Sound(updater'[v], in_doubt', data', fetched')
  <2>1. CASE v = u
    BY <2>1
  <2>2. CASE v # u
    <3>1. updater'[v] = updater[v] /\ Sound(updater[v], in_doubt, data, fetched)
      BY <1>1, <2>2 DEF Truthful
    <3>2. CASE updater[u].at # "idle"
      BY <1>1, <2>2, <3>1, <3>2 DEF Truthful, OneUpdate, Sound
    <3>3. CASE UNCHANGED <<data, fetched, in_doubt>>
      BY <3>1, <3>3
    <3>. QED BY <3>2, <3>3
  <2>. QED BY <2>1, <2>2
<1>. QED BY <1>2, <1>3 DEF Truthful

LEMMA StartUpdateKeeps ==
  ASSUME CacheInv, NEW u \in Updater, NEW only \in Requests, StartUpdate(u, only)
  PROVE  CacheInv'
<1>1. /\ UNCHANGED <<data, manifest, fetched, in_doubt, recorded>>
      /\ updater[u].at = "idle"
      /\ overlapped' = (overlapped \/ \E v \in Updater \ {u} : updater[v].at # "idle")
  BY DEF StartUpdate, files
<1>2. PICK p : /\ updater' = [updater EXCEPT ![u] = p]
               /\ \/ p = Idle("failed")
                  \/ /\ manifest # Torn
                     /\ p = [at |-> "fetch", todo |-> selected(only),
                             manifest |-> read_manifest, results |-> <<>>]
  BY DEF StartUpdate
<1>3. IsSeq(<<>>)
  BY DEF IsSeq
<1>4. manifest # Torn => IsSeq(read_manifest)
  BY <1>3 DEF CacheInv, Shape, Legible, read_manifest
<1>5. Proc(p)
  BY <1>2, <1>3, <1>4 DEF Proc, Idle
<1>6. /\ updater' = [v \in Updater |-> updater'[v]]
      /\ updater'[u] = p
      /\ \A v \in Updater \ {u} : updater'[v] = updater[v]
      /\ \A v \in Updater : Proc(updater'[v])
  BY <1>2, <1>5, ProcessMoves
<1>7. Shape'
  BY <1>1, <1>6 DEF CacheInv, Shape, Legible
<1>8. ASSUME ~overlapped'
      PROVE  Truthful'
  <2>1. ~overlapped /\ \A v \in Updater \ {u} : updater[v].at = "idle"
    BY <1>1, <1>8
  <2>2. Legible => Distinct(manifest) /\ AllDescribe(manifest, in_doubt, data, fetched)
    BY <2>1 DEF CacheInv, Truthful
  <2>3. Sound(p, in_doubt, data, fetched)
    <3>1. CASE p = Idle("failed")
      BY <3>1 DEF Sound, Idle
    <3>2. CASE /\ manifest # Torn
               /\ p = [at |-> "fetch", todo |-> selected(only),
                       manifest |-> read_manifest, results |-> <<>>]
      <4>1. Distinct(read_manifest) /\ AllDescribe(read_manifest, in_doubt, data, fetched)
        BY <2>2, <3>2 DEF Legible, read_manifest, Distinct, AllDescribe
      <4>2. Unsure(p, in_doubt) = in_doubt
        BY <3>2 DEF Unsure, Done, Range
      <4>. QED BY <3>2, <4>1, <4>2 DEF Sound
    <3>. QED BY <1>2, <3>1, <3>2
  <2>4. Legible' =>
          Distinct(manifest') /\ AllDescribe(manifest', in_doubt', data', fetched')
    BY <1>1, <2>2 DEF Legible
  <2>5. Sound(p, in_doubt', data', fetched')
    BY <1>1, <2>3
  <2>. QED BY <1>1, <1>6, <2>1, <2>4, <2>5, TruthKept
<1>. QED BY <1>7, <1>8 DEF CacheInv

\* An update at work, and the files before it moves.
LEMMA AtWork ==
  ASSUME CacheInv, NEW u \in Updater, updater[u].at # "idle"
  PROVE  /\ updater[u].at \in {"fetch", "data", "manifest"}
         /\ IsSeq(updater[u].manifest) /\ IsSeq(updater[u].results)
         /\ ~overlapped =>
              /\ \A v \in Updater \ {u} : updater[v].at = "idle"
              /\ Distinct(updater[u].manifest)
              /\ AllDescribe(updater[u].manifest, Unsure(updater[u], in_doubt), data, fetched)
              /\ updater[u].at = "data" => Head(updater[u].todo) \in in_doubt
              /\ Legible =>
                   Distinct(manifest) /\ AllDescribe(manifest, in_doubt, data, fetched)
<1>1. Proc(updater[u])
  BY DEF CacheInv, Shape
<1>. QED BY <1>1 DEF Proc, Idle, CacheInv, Truthful, OneUpdate, Sound

LEMMA FetchFailsKeeps ==
  ASSUME CacheInv, NEW u \in Updater, FetchFails(u)
  PROVE  CacheInv'
<1> DEFINE b == updater[u]
           p == [at |-> "fetch", todo |-> Tail(b.todo), manifest |-> b.manifest,
                 results |-> Append(b.results, [id |-> Head(b.todo), ok |-> FALSE])]
<1>1. /\ UNCHANGED <<data, manifest, fetched, in_doubt, recorded, overlapped>>
      /\ b.at = "fetch"
  BY DEF FetchFails, Fetching, files, history
<1>2. IsSeq(b.manifest) /\ IsSeq(b.results)
  BY <1>1, AtWork
<1>3. b = [at |-> b.at, todo |-> b.todo, manifest |-> b.manifest, results |-> b.results]
  BY <1>1 DEF CacheInv, Shape, Proc, Idle
<1>4. updater' = [updater EXCEPT ![u] = p]
  BY <1>1, <1>3 DEF FetchFails
<1>5. Proc(p)
  BY <1>2, Appended DEF Proc
<1>6. Unsure(p, in_doubt) = Unsure(b, in_doubt)
  BY <1>1, <1>2, DoneAppended DEF Unsure
<1>7. /\ p.at # "idle" /\ p.at # "data" /\ p.manifest = b.manifest
  OBVIOUS
<1> HIDE DEF p
<1>8. /\ updater' = [v \in Updater |-> updater'[v]]
      /\ updater'[u] = p
      /\ \A v \in Updater \ {u} : updater'[v] = updater[v]
      /\ \A v \in Updater : Proc(updater'[v])
  BY <1>4, <1>5, ProcessMoves
<1>9. Shape'
  BY <1>1, <1>8 DEF CacheInv, Shape, Legible
<1>10. ASSUME ~overlapped
       PROVE  Truthful'
  <2>1. Sound(p, in_doubt', data', fetched')
    BY <1>1, <1>6, <1>7, <1>10, AtWork DEF Sound
  <2>2. Legible' =>
          Distinct(manifest') /\ AllDescribe(manifest', in_doubt', data', fetched')
    BY <1>1, <1>10, AtWork DEF Legible
  <2>. QED BY <1>1, <1>8, <1>10, <2>1, <2>2, AtWork, TruthKept
<1>. QED BY <1>1, <1>9, <1>10 DEF CacheInv

LEMMA WriteDataKeeps ==
  ASSUME CacheInv, NEW u \in Updater, WriteData(u)
  PROVE  CacheInv'
<1> DEFINE b == updater[u]
           id == Head(b.todo)
<1>1. PICK rows, part :
        /\ data' = [data EXCEPT ![id] = part]
        /\ updater' = [updater EXCEPT ![u] =
             [at |-> "data", todo |-> b.todo, manifest |-> b.manifest,
              results |-> b.results, rows |-> rows]]
  BY DEF WriteData
<1>2. /\ UNCHANGED <<manifest, fetched, recorded, overlapped>>
      /\ b.at = "fetch" /\ in_doubt' = in_doubt \cup {id}
  BY DEF WriteData, Fetching
<1> DEFINE p == [at |-> "data", todo |-> b.todo, manifest |-> b.manifest,
                 results |-> b.results, rows |-> rows]
<1>3. Proc(p)
  BY <1>2, AtWork DEF Proc
<1>4. Unsure(b, in_doubt) \subseteq Unsure(p, in_doubt') /\ id \in Unsure(p, in_doubt')
  BY <1>2 DEF Unsure
<1>5. /\ p.at = "data" /\ p.manifest = b.manifest /\ Head(p.todo) = id
      /\ updater' = [updater EXCEPT ![u] = p]
  BY <1>1
<1>6. /\ data' = [x \in DOMAIN Builtin |-> data'[x]]
      /\ \A x \in DOMAIN Builtin : x # id => data'[x] = data[x]
  BY <1>1 DEF CacheInv, Shape
<1> HIDE DEF p, id
<1>7. /\ updater' = [v \in Updater |-> updater'[v]]
      /\ updater'[u] = p
      /\ \A v \in Updater \ {u} : updater'[v] = updater[v]
      /\ \A v \in Updater : Proc(updater'[v])
  BY <1>3, <1>5, ProcessMoves
<1>8. Shape'
  BY <1>2, <1>6, <1>7 DEF CacheInv, Shape, Legible
<1>9. ASSUME ~overlapped
      PROVE  Truthful'
  <2>1. AllDescribe(p.manifest, Unsure(p, in_doubt'), data', fetched')
    <3>1. AllDescribe(b.manifest, Unsure(b, in_doubt), data, fetched)
      BY <1>2, <1>9, AtWork
    <3>2. AllDescribe(b.manifest, Unsure(p, in_doubt'), data', fetched)
      BY <1>4, <1>6, <3>1, StillDescribe
    <3>. QED BY <1>2, <1>5, <3>2
  <2>2. Sound(p, in_doubt', data', fetched')
    BY <1>2, <1>5, <1>9, <2>1, AtWork DEF Sound
  <2>3. Legible' =>
          Distinct(manifest') /\ AllDescribe(manifest', in_doubt', data', fetched')
    <3>1. Legible =>
            Distinct(manifest) /\ AllDescribe(manifest, in_doubt, data, fetched)
      BY <1>2, <1>9, AtWork
    <3>2. Legible => AllDescribe(manifest, in_doubt', data', fetched)
      BY <1>2, <1>6, <3>1, StillDescribe
    <3>. QED BY <1>2, <3>1, <3>2 DEF Legible
  <2>. QED BY <1>2, <1>7, <1>9, <2>2, <2>3, AtWork, TruthKept
<1>. QED BY <1>2, <1>8, <1>9 DEF CacheInv

\* What comes home is what the new entry describes, and it replaces what the
\* update knew of that feed.
LEMMA DataWrittenKeeps ==
  ASSUME CacheInv, NEW u \in Updater, DataWritten(u)
  PROVE  CacheInv'
<1> DEFINE b == updater[u]
           id == Head(b.todo)
           rows == b.rows
           entry == [id |-> id, fetched_at |-> Now,
                     indicators |-> count_indicators(Builtin[id], rows)]
           p == [at |-> "fetch", todo |-> Tail(b.todo),
                 manifest |-> Entered(b.manifest, entry),
                 results |-> Append(b.results, [id |-> id, ok |-> TRUE])]
           download == [id |-> id, rows |-> rows]
<1>1. /\ UNCHANGED <<manifest, in_doubt, recorded, overlapped>>
      /\ b.at = "data"
      /\ data' = [data EXCEPT ![id] = rows]
      /\ updater' = [updater EXCEPT ![u] = p]
      /\ fetched' = Append(fetched, download)
  BY DEF DataWritten
<1>2. IsSeq(b.manifest) /\ IsSeq(b.results) /\ IsSeq(fetched)
  BY <1>1, AtWork DEF CacheInv, Shape
<1>3. Proc(p)
  BY <1>2, Appended, EnteredKeeps DEF Proc
<1>4. /\ data' = [x \in DOMAIN Builtin |-> data'[x]]
      /\ \A x \in DOMAIN Builtin : x # id => data'[x] = data[x]
      /\ id \in DOMAIN Builtin => data'[id] = rows
  BY <1>1 DEF CacheInv, Shape
<1>5. /\ IsSeq(fetched')
      /\ Now \in DOMAIN fetched' /\ fetched'[Now] = download
      /\ \A i \in DOMAIN fetched : i \in DOMAIN fetched' /\ fetched'[i] = fetched[i]
  BY <1>1, <1>2, Appended DEF Now
<1>6. /\ p.at # "idle" /\ p.at # "data" /\ p.manifest = Entered(b.manifest, entry)
      /\ entry.id = id
  OBVIOUS
<1>7. Unsure(b, in_doubt) \subseteq Unsure(p, in_doubt) \cup {id}
  BY <1>1, <1>2, DoneAppended DEF Unsure
<1>8. Describes(entry, Unsure(p, in_doubt), data', fetched')
  BY <1>4, <1>5 DEF Describes
<1> HIDE DEF p, entry, download
<1>9. /\ updater' = [v \in Updater |-> updater'[v]]
      /\ updater'[u] = p
      /\ \A v \in Updater \ {u} : updater'[v] = updater[v]
      /\ \A v \in Updater : Proc(updater'[v])
  BY <1>1, <1>3, ProcessMoves
<1>10. Shape'
  BY <1>1, <1>4, <1>5, <1>9 DEF CacheInv, Shape, Legible
<1>11. ASSUME ~overlapped
       PROVE  Truthful'
  <2>1. AllDescribe(p.manifest, Unsure(p, in_doubt), data', fetched')
    <3> DEFINE m == Entered(b.manifest, entry)
    <3>1. AllDescribe(b.manifest, Unsure(b, in_doubt), data, fetched)
      BY <1>1, <1>11, AtWork
    <3>2. ASSUME NEW j \in DOMAIN b.manifest, b.manifest[j].id # id
          PROVE  Describes(b.manifest[j], Unsure(p, in_doubt), data', fetched')
      BY <1>4, <1>5, <1>7, <3>1, <3>2 DEF AllDescribe, Describes
    <3>3. \A i \in DOMAIN m :
            \/ m[i] = entry
            \/ \E j \in DOMAIN b.manifest : m[i] = b.manifest[j] /\ b.manifest[j].id # id
      BY <1>2, <1>6, EnteredKeeps
    <3> HIDE DEF m
    <3>4. ASSUME NEW i \in DOMAIN m
          PROVE  Describes(m[i], Unsure(p, in_doubt), data', fetched')
      BY <1>8, <3>2, <3>3
    <3>5. AllDescribe(m, Unsure(p, in_doubt), data', fetched')
      BY <3>4 DEF AllDescribe
    <3>. QED BY <1>6, <3>5 DEF m
  <2>2. Distinct(p.manifest)
    BY <1>1, <1>2, <1>6, <1>11, EnteredKeeps, AtWork
  <2>3. Sound(p, in_doubt', data', fetched')
    BY <1>1, <1>6, <2>1, <2>2 DEF Sound
  <2>4. Legible' =>
          Distinct(manifest') /\ AllDescribe(manifest', in_doubt', data', fetched')
    <3>1. /\ id \in in_doubt
          /\ Legible =>
               Distinct(manifest) /\ AllDescribe(manifest, in_doubt, data, fetched)
      BY <1>1, <1>11, AtWork
    <3>2. Legible => AllDescribe(manifest, in_doubt, data', fetched')
      BY <1>4, <1>5, <3>1, StillDescribe
    <3>. QED BY <1>1, <3>1, <3>2 DEF Legible
  <2>. QED BY <1>1, <1>9, <1>11, <2>3, <2>4, AtWork, TruthKept
<1>. QED BY <1>1, <1>10, <1>11 DEF CacheInv

LEMMA WriteManifestKeeps ==
  ASSUME CacheInv, NEW u \in Updater, WriteManifest(u)
  PROVE  CacheInv'
<1> DEFINE b == updater[u]
           p == [at |-> "manifest", todo |-> b.todo, manifest |-> b.manifest,
                 results |-> b.results]
<1>1. /\ UNCHANGED <<data, fetched, in_doubt, recorded, overlapped>>
      /\ b.at = "fetch" /\ manifest' = Torn
  BY DEF WriteManifest, history
<1>2. b = [at |-> b.at, todo |-> b.todo, manifest |-> b.manifest, results |-> b.results]
  BY <1>1 DEF CacheInv, Shape, Proc, Idle
<1>3. updater' = [updater EXCEPT ![u] = p]
  <2>1. [b EXCEPT !.at = "manifest"] = p
    BY <1>2
  <2>2. updater' = [updater EXCEPT ![u] = [b EXCEPT !.at = "manifest"]]
    BY DEF WriteManifest
  <2>. QED BY <2>1, <2>2
<1>4. Proc(p)
  BY <1>1, AtWork DEF Proc
<1>5. Unsure(p, in_doubt) = Unsure(b, in_doubt)
  BY <1>1 DEF Unsure
<1>6. /\ p.at # "idle" /\ p.at # "data" /\ p.manifest = b.manifest
  OBVIOUS
<1> HIDE DEF p
<1>7. /\ updater' = [v \in Updater |-> updater'[v]]
      /\ updater'[u] = p
      /\ \A v \in Updater \ {u} : updater'[v] = updater[v]
      /\ \A v \in Updater : Proc(updater'[v])
  BY <1>3, <1>4, ProcessMoves
<1>8. Shape'
  BY <1>1, <1>7 DEF CacheInv, Shape, Legible
<1>9. ASSUME ~overlapped
      PROVE  Truthful'
  <2>1. Sound(p, in_doubt', data', fetched')
    BY <1>1, <1>5, <1>6, <1>9, AtWork DEF Sound
  <2>2. ~Legible'
    BY <1>1 DEF Legible
  <2>. QED BY <1>1, <1>7, <1>9, <2>1, <2>2, AtWork, TruthKept
<1>. QED BY <1>1, <1>8, <1>9 DEF CacheInv

\* The feeds brought home are in doubt no more, and of the others the manifest
\* says what it said.
LEMMA ManifestWrittenKeeps ==
  ASSUME CacheInv, NEW u \in Updater, ManifestWritten(u)
  PROVE  CacheInv'
<1> DEFINE b == updater[u]
<1>1. /\ UNCHANGED <<data, fetched, overlapped>>
      /\ b.at = "manifest" /\ manifest' = b.manifest
      /\ in_doubt' = in_doubt \ Done(b.results)
  BY DEF ManifestWritten, Done
<1>2. PICK exit : updater' = [updater EXCEPT ![u] = Idle(exit)]
  BY DEF ManifestWritten
<1> DEFINE p == Idle(exit)
<1>3. Proc(p) /\ p.at = "idle"
  BY DEF Proc, Idle
<1>4. Unsure(b, in_doubt) = in_doubt'
  BY <1>1 DEF Unsure
<1> HIDE DEF p
<1>5. /\ updater' = [v \in Updater |-> updater'[v]]
      /\ updater'[u] = p
      /\ \A v \in Updater \ {u} : updater'[v] = updater[v]
      /\ \A v \in Updater : Proc(updater'[v])
  BY <1>2, <1>3, ProcessMoves DEF p
<1>6. Shape'
  BY <1>1, <1>5, AtWork DEF CacheInv, Shape
<1>7. ASSUME ~overlapped
      PROVE  Truthful'
  <2>1. Distinct(manifest') /\ AllDescribe(manifest', in_doubt', data', fetched')
    BY <1>1, <1>4, <1>7, AtWork
  <2>2. Sound(p, in_doubt', data', fetched')
    BY <1>3 DEF Sound
  <2>. QED BY <1>1, <1>3, <1>5, <1>7, <2>1, <2>2, TruthKept
<1>. QED BY <1>1, <1>6, <1>7 DEF CacheInv

\* Wherever an update dies, what it wrote is in doubt and what it did not write
\* is as it was.
LEMMA UpdateDiesKeeps ==
  ASSUME CacheInv, NEW u \in Updater, UpdateDies(u)
  PROVE  CacheInv'
<1> DEFINE p == Idle("failed")
<1>1. /\ UNCHANGED <<data, manifest, fetched, in_doubt, recorded, overlapped>>
      /\ updater[u].at # "idle" /\ updater' = [updater EXCEPT ![u] = p]
  BY DEF UpdateDies, files, history
<1>2. Proc(p) /\ p.at = "idle"
  BY DEF Proc, Idle
<1> HIDE DEF p
<1>3. /\ updater' = [v \in Updater |-> updater'[v]]
      /\ updater'[u] = p
      /\ \A v \in Updater \ {u} : updater'[v] = updater[v]
      /\ \A v \in Updater : Proc(updater'[v])
  BY <1>1, <1>2, ProcessMoves
<1>4. Shape'
  BY <1>1, <1>3 DEF CacheInv, Shape, Legible
<1>5. ASSUME ~overlapped
      PROVE  Truthful'
  <2>1. Legible' =>
          Distinct(manifest') /\ AllDescribe(manifest', in_doubt', data', fetched')
    BY <1>1, <1>5, AtWork DEF Legible
  <2>2. Sound(p, in_doubt', data', fetched')
    BY <1>2 DEF Sound
  <2>. QED BY <1>1, <1>2, <1>3, <1>5, <2>1, <2>2, TruthKept
<1>. QED BY <1>1, <1>4, <1>5 DEF CacheInv

LEMMA NextCache == CacheInv /\ [Next]_vars => CacheInv'
<1> SUFFICES ASSUME CacheInv, [Next]_vars
             PROVE  CacheInv'
  OBVIOUS
<1>1. CASE UNCHANGED vars
  BY <1>1 DEF vars, files, history, CacheInv, Shape, Truthful, OneUpdate, Legible
<1>2. CASE Load
  BY <1>2, LoadKeeps
<1>3. ASSUME NEW u \in Updater, Update(u)
      PROVE  CacheInv'
  BY <1>3, StartUpdateKeeps, FetchFailsKeeps, WriteDataKeeps, DataWrittenKeeps,
     WriteManifestKeeps, ManifestWrittenKeeps, UpdateDiesKeeps DEF Update
<1>. QED BY <1>1, <1>2, <1>3 DEF Next

\* The files, and what every update at work is about to record, after every step.
THEOREM CacheInvariant == Spec => []CacheInv
  BY InitCache, NextCache, PTL DEF Spec

\* Whatever updates died at whatever point, failed or asked for a feed twice: an
\* entry whose feed was not left half-way describes the file beside it, until two
\* updates overlap.
THEOREM ManifestDescribesDataHolds == Spec => []ManifestDescribesData
<1>1. CacheInv => ManifestDescribesData
  <2> SUFFICES ASSUME CacheInv, Legible, ~overlapped, NEW i \in DOMAIN manifest
               PROVE  /\ \A j \in DOMAIN manifest : manifest[j].id = manifest[i].id => j = i
                      /\ manifest[i].id \in DOMAIN Builtin \ in_doubt =>
                           LET download == fetched[manifest[i].fetched_at] IN
                           /\ download = [id |-> manifest[i].id, rows |-> data[manifest[i].id]]
                           /\ manifest[i].indicators =
                                count_indicators(Builtin[manifest[i].id], download.rows)
    BY DEF ManifestDescribesData
  <2>1. Distinct(manifest) /\ Describes(manifest[i], in_doubt, data, fetched)
    BY DEF CacheInv, Truthful, AllDescribe
  <2>. QED BY <2>1 DEF Distinct, Describes
<1>. QED BY <1>1, CacheInvariant, PTL

-----------------------------------------------------------------------------
(* What was recorded once.                                                 *)

\* `Missing` stands for no file at all, so no list of entries is it.
MissingIsNoSequence == \A T : Missing \notin Seq(T)

Remembered ==
  ~overlapped =>
    /\ Legible => recorded \subseteq Ids(manifest)
    /\ manifest = Missing => recorded = {}
    /\ \A u \in Updater :
         updater[u].at # "idle" => recorded \subseteq Ids(updater[u].manifest)

\* An update at work only adds to what it will record.
LEMMA ManifestGrows ==
  ASSUME CacheInv, NEW u \in Updater,
         FetchFails(u) \/ WriteData(u) \/ DataWritten(u) \/ WriteManifest(u)
  PROVE  /\ Ids(updater[u].manifest) \subseteq Ids(updater'[u].manifest)
         /\ \A v \in Updater \ {u} : updater'[v] = updater[v]
         /\ updater[u].at # "idle"
         /\ UNCHANGED <<recorded, overlapped>>
         /\ manifest' = manifest \/ manifest' = Torn
<1> DEFINE b == updater[u]
<1>1. /\ updater = [v \in Updater |-> updater[v]]
      /\ b.at \in {"fetch", "data"}
  BY DEF CacheInv, Shape, FetchFails, WriteData, DataWritten, WriteManifest, Fetching
<1>2. Proc(b) /\ IsSeq(b.manifest)
  BY <1>1, AtWork DEF CacheInv, Shape
<1>3. CASE FetchFails(u)
  <2>1. PICK answer : updater' = [updater EXCEPT ![u] =
          [b EXCEPT !.todo = Tail(b.todo),
                    !.results = Append(b.results, [id |-> Head(b.todo), ok |-> FALSE])]]
    BY <1>3 DEF FetchFails
  <2>2. b.at = "fetch"
    BY <1>3 DEF FetchFails, Fetching
  <2>3. b = [at |-> b.at, todo |-> b.todo, manifest |-> b.manifest, results |-> b.results]
    BY <1>2, <2>2 DEF Proc, Idle
  <2>4. updater'[u].manifest = b.manifest
    BY <1>1, <2>1, <2>3
  <2>. QED BY <1>1, <1>3, <2>1, <2>4 DEF FetchFails, files, history
<1>4. CASE WriteData(u)
  <2>1. PICK rows : updater' = [updater EXCEPT ![u] =
          [at |-> "data", todo |-> b.todo, manifest |-> b.manifest,
           results |-> b.results, rows |-> rows]]
    BY <1>4 DEF WriteData
  <2>2. /\ updater'[u].manifest = b.manifest
        /\ \A v \in Updater \ {u} : updater'[v] = updater[v]
    BY <1>1, <2>1
  <2>3. UNCHANGED <<manifest, recorded, overlapped>>
    BY <1>4 DEF WriteData
  <2>. QED BY <1>1, <2>2, <2>3
<1>5. CASE DataWritten(u)
  <2>1. PICK entry : updater'[u].manifest = Entered(b.manifest, entry)
    BY <1>1, <1>5 DEF DataWritten
  <2>2. Ids(b.manifest) \subseteq Ids(updater'[u].manifest)
    BY <1>2, <2>1, EnteredKeeps
  <2>. QED BY <1>1, <1>5, <2>2 DEF DataWritten
<1>6. CASE WriteManifest(u)
  <2>1. b.at = "fetch" /\ updater' = [updater EXCEPT ![u] = [b EXCEPT !.at = "manifest"]]
    BY <1>6 DEF WriteManifest
  <2>2. b = [at |-> b.at, todo |-> b.todo, manifest |-> b.manifest, results |-> b.results]
    BY <1>2, <2>1 DEF Proc, Idle
  <2>3. updater'[u].manifest = b.manifest
    BY <1>1, <2>1, <2>2
  <2>. QED BY <1>1, <1>6, <2>1, <2>3 DEF WriteManifest, history
<1>. QED BY <1>3, <1>4, <1>5, <1>6

LEMMA InitRemembered == Init => Remembered
  BY DEF Init, Remembered, Legible, Idle, Ids

LEMMA NextRemembered ==
  ASSUME MissingIsNoSequence, CacheInv, Remembered, [Next]_vars
  PROVE  Remembered'
<1>1. CASE UNCHANGED <<manifest, updater, recorded, overlapped>>
  BY <1>1 DEF Remembered, Legible, Ids
<1>2. CASE Load \/ UNCHANGED vars
  <2>1. UNCHANGED <<manifest, updater, recorded, overlapped>>
    BY <1>2 DEF Load, StartLoad, LoadFeed, StartLive, LiveFeed, Combine, LoadFails,
                files, history, vars
  <2>. QED BY <1>1, <2>1
<1>3. ASSUME NEW u \in Updater, NEW only \in Requests, StartUpdate(u, only)
      PROVE  Remembered'
  <2>1. PICK p : /\ updater' = [updater EXCEPT ![u] = p]
                 /\ \/ p = Idle("failed")
                    \/ /\ manifest # Torn
                       /\ p = [at |-> "fetch", todo |-> selected(only),
                               manifest |-> read_manifest, results |-> <<>>]
    BY <1>3 DEF StartUpdate
  <2>2. updater'[u] = p /\ \A v \in Updater \ {u} : updater'[v] = updater[v]
    BY <2>1 DEF CacheInv, Shape
  <2>3. UNCHANGED <<manifest, recorded>> /\ (~overlapped' => ~overlapped)
    BY <1>3 DEF StartUpdate, files
  <2>4. ASSUME ~overlapped, p.at # "idle"
        PROVE  recorded \subseteq Ids(p.manifest)
    <3>1. manifest # Torn /\ p.manifest = read_manifest
      BY <2>1, <2>4 DEF Idle
    <3>. QED BY <2>4, <3>1 DEF Remembered, Legible, read_manifest
  <2>. QED BY <2>2, <2>3, <2>4 DEF Remembered, Legible
<1>4. ASSUME NEW u \in Updater,
             FetchFails(u) \/ WriteData(u) \/ DataWritten(u) \/ WriteManifest(u)
      PROVE  Remembered'
  <2>1. /\ Ids(updater[u].manifest) \subseteq Ids(updater'[u].manifest)
        /\ \A v \in Updater \ {u} : updater'[v] = updater[v]
        /\ updater[u].at # "idle"
        /\ UNCHANGED <<recorded, overlapped>>
        /\ manifest' = manifest \/ manifest' = Torn
    BY <1>4, ManifestGrows
  <2>2. ASSUME ~overlapped, NEW v \in Updater, updater'[v].at # "idle"
        PROVE  recorded \subseteq Ids(updater'[v].manifest)
    BY <2>1, <2>2 DEF Remembered
  <2>3. ~overlapped => /\ Legible' => recorded \subseteq Ids(manifest')
                       /\ manifest' = Missing => recorded = {}
    BY <2>1, IntelCacheAssumption DEF Remembered, Legible
  <2>. QED BY <2>1, <2>2, <2>3 DEF Remembered
<1>5. ASSUME NEW u \in Updater, ManifestWritten(u)
      PROVE  Remembered'
  <2>1. PICK exit : updater' = [updater EXCEPT ![u] = Idle(exit)]
    BY <1>5 DEF ManifestWritten
  <2>2. updater'[u].at = "idle" /\ \A v \in Updater \ {u} : updater'[v] = updater[v]
    BY <2>1 DEF CacheInv, Shape, Idle
  <2>3. /\ manifest' = updater[u].manifest /\ updater[u].at # "idle"
        /\ recorded' = recorded \cup Ids(updater[u].manifest)
        /\ UNCHANGED overlapped
    BY <1>5 DEF ManifestWritten
  <2>4. manifest' # Missing
    BY <2>3, AtWork DEF IsSeq, MissingIsNoSequence
  <2>5. ~overlapped => recorded' = Ids(manifest')
    BY <2>3 DEF Remembered
  <2>6. ~overlapped => \A v \in Updater : updater'[v].at = "idle"
    BY <2>2, <2>3, AtWork
  <2>. QED BY <2>3, <2>4, <2>5, <2>6 DEF Remembered
<1>6. ASSUME NEW u \in Updater, UpdateDies(u)
      PROVE  Remembered'
  <2>1. UNCHANGED <<manifest, recorded, overlapped>>
        /\ updater' = [updater EXCEPT ![u] = Idle("failed")]
    BY <1>6 DEF UpdateDies, files, history
  <2>2. updater'[u].at = "idle" /\ \A v \in Updater \ {u} : updater'[v] = updater[v]
    BY <2>1 DEF CacheInv, Shape, Idle
  <2>. QED BY <2>1, <2>2 DEF Remembered, Legible
<1>. QED BY <1>2, <1>3, <1>4, <1>5, <1>6 DEF Next, Update

\* No update drops a feed it did not ask for, could not fetch or does not know,
\* wherever it or an earlier one died, until two updates overlap.
THEOREM NothingForgottenHolds ==
  ASSUME MissingIsNoSequence
  PROVE  Spec => []NothingForgotten
<1>1. CacheInv /\ Remembered /\ [Next]_vars => Remembered'
  BY NextRemembered
<1>2. Spec => []Remembered
  BY <1>1, InitRemembered, CacheInvariant, PTL DEF Spec
<1>3. Remembered => NothingForgotten
  BY DEF Remembered, NothingForgotten
<1>. QED BY <1>2, <1>3, PTL
-----------------------------------------------------------------------------
(* Reading a list or a feed.                                               *)

LEMMA Induction ==
  ASSUME NEW S, 0 \in S, \A n \in Nat : n \in S => n + 1 \in S
  PROVE  Nat \subseteq S
<1> DEFINE B == {n \in Nat : n \notin S}
           R == OpToRel(<, Nat)
<1> SUFFICES ASSUME B # {} PROVE FALSE
  OBVIOUS
<1>1. PICK least \in B : \A y \in B : ~(<<y, least>> \in R)
  <2>1. IsWellFoundedOn(R, Nat)
    BY NatLessThanWellFounded
  <2>2. B \subseteq Nat
    OBVIOUS
  <2> HIDE DEF R, B
  <2>. QED BY <2>1, <2>2, WFMin
<1>2. \A y \in B : ~(y < least)
  BY <1>1 DEF OpToRel
<1> HIDE DEF R
<1>3. least - 1 \in Nat /\ least - 1 < least /\ least - 1 + 1 = least
  OBVIOUS
<1>. QED BY <1>2, <1>3

\* Positions have a last one.
LEMMA LastOf ==
  ASSUME NEW n \in Nat, NEW S \in SUBSET (1 .. n), S # {}
  PROVE  Max(S) \in S /\ \A y \in S : y <= Max(S)
<1> DEFINE last(s) == \E x \in s : \A y \in s : x >= y
           N == {k \in Nat : \A s \in SUBSET (1 .. k) : s # {} => last(s)}
<1>1. 0 \in N
  <2>1. 1 .. 0 = {}
    OBVIOUS
  <2>. QED BY <2>1
<1>2. ASSUME NEW k \in Nat, k \in N
      PROVE  k + 1 \in N
  <2>1. ASSUME NEW s \in SUBSET (1 .. k + 1), s # {}
        PROVE  last(s)
    <3>1. CASE k + 1 \in s
      BY <3>1
    <3>2. CASE k + 1 \notin s
      <4>1. s \in SUBSET (1 .. k)
        BY <3>2
      <4>. QED BY <1>2, <2>1, <4>1
    <3>. QED BY <3>1, <3>2
  <2>. QED BY <2>1
<1>3. Nat \subseteq N
  <2> HIDE DEF N
  <2>. QED BY <1>1, <1>2, Induction
<1>4. last(S)
  BY <1>3
<1>5. Max(S) \in S /\ \A y \in S : Max(S) >= y
  BY <1>4 DEF Max
<1>. QED BY <1>5

\* One element of a file read: a line of a list, or a row of a feed.
Step(p, acc, x) == IF p.list THEN ReadLine(acc, x) ELSE ReadRow(acc, p.feed, x)

ListReader == [list |-> TRUE]
FeedReader(feed) == [list |-> FALSE, feed |-> feed]

\* The fold of the parts of a file, as FoldLeft computes it.
Folding(it, p, base, file, n) ==
  it = [s \in SUBSET (1 .. n) |->
          IF s = {} THEN base ELSE Step(p, it[s \ {Max(s)}], file[Max(s)])]

LEMMA FoldingExists ==
  ASSUME NEW p, NEW base, NEW file, NEW n \in Nat
  PROVE  \E it : Folding(it, p, base, file, n)
<1> DEFINE N == {m \in Nat : \E it : Folding(it, p, base, file, m)}
<1>1. 0 \in N
  <2> DEFINE it == [s \in SUBSET (1 .. 0) |-> base]
  <2>1. SUBSET (1 .. 0) = {{}}
    OBVIOUS
  <2>2. Folding(it, p, base, file, 0)
    BY <2>1 DEF Folding
  <2>. QED BY <2>2
<1>2. ASSUME NEW m \in Nat, m \in N
      PROVE  m + 1 \in N
  <2>1. PICK it : Folding(it, p, base, file, m)
    BY <1>2
  <2> DEFINE rest(s) == s \ {Max(s)}
             next == [s \in SUBSET (1 .. m + 1) |->
                        IF s = {} THEN base ELSE Step(p, it[rest(s)], file[Max(s)])]
  <2>2. ASSUME NEW s \in SUBSET (1 .. m)
        PROVE  next[s] = it[s]
    <3>1. it[s] = IF s = {} THEN base ELSE Step(p, it[rest(s)], file[Max(s)])
      BY <2>1 DEF Folding
    <3>2. s \in SUBSET (1 .. m + 1)
      OBVIOUS
    <3> HIDE DEF rest
    <3>. QED BY <3>1, <3>2
  <2>3. ASSUME NEW s \in SUBSET (1 .. m + 1), s # {}
        PROVE  rest(s) \in SUBSET (1 .. m)
    <3> DEFINE last == Max(s)
    <3>1. last \in s /\ \A y \in s : y <= last
      <4>1. m + 1 \in Nat
        OBVIOUS
      <4>. QED BY <2>3, <4>1, LastOf
    <3> HIDE DEF last, next
    <3>2. ASSUME NEW y \in s \ {last}
          PROVE  y \in 1 .. m
      <4>1. y \in 1 .. m + 1 /\ last \in 1 .. m + 1 /\ y <= last /\ y # last
        BY <3>1
      <4>. QED BY <4>1
    <3>3. rest(s) = s \ {last}
      BY DEF last
    <3>. QED BY <3>2, <3>3
  <2>4. next = [s \in SUBSET (1 .. m + 1) |->
                  IF s = {} THEN base ELSE Step(p, next[rest(s)], file[Max(s)])]
    <3> HIDE DEF rest
    <3>. QED BY <2>2, <2>3
  <2>5. Folding(next, p, base, file, m + 1)
    BY <2>4 DEF Folding
  <2> HIDE DEF next
  <2>. QED BY <2>5
<1>3. Nat \subseteq N
  <2> HIDE DEF N
  <2>. QED BY <1>1, <1>2, Induction
<1>. QED BY <1>3

\* What has been read before each element.
Accumulated(acc, p, base, file, n) ==
  /\ acc[0] = base
  /\ \A i \in 1 .. n : acc[i] = Step(p, acc[i - 1], file[i])

LEMMA FoldingAccumulates ==
  ASSUME NEW p, NEW base, NEW file, NEW n \in Nat, NEW it, Folding(it, p, base, file, n)
  PROVE  \E acc : Accumulated(acc, p, base, file, n) /\ it[1 .. n] = acc[n]
<1> DEFINE acc == [i \in 0 .. n |-> it[1 .. i]]
<1>1. ASSUME NEW i \in 1 .. n
      PROVE  acc[i] = Step(p, acc[i - 1], file[i])
  <2> DEFINE s == 1 .. i
  <2>1. s \in SUBSET (1 .. n) /\ s # {} /\ i \in Nat
    OBVIOUS
  <2>2. Max(s) = i
    <3>1. Max(s) \in s /\ \A y \in s : y <= Max(s)
      <4>1. s \in SUBSET (1 .. i)
        OBVIOUS
      <4> HIDE DEF s
      <4>. QED BY <2>1, <4>1, LastOf
    <3>. QED BY <3>1
  <2>3. s \ {i} = 1 .. i - 1
    OBVIOUS
  <2>4. it[s] = Step(p, it[s \ {Max(s)}], file[Max(s)])
    <3> HIDE DEF s
    <3>. QED BY <2>1 DEF Folding
  <2>5. acc[i] = it[1 .. i] /\ acc[i - 1] = it[1 .. i - 1]
    OBVIOUS
  <2> HIDE DEF acc
  <2>. QED BY <2>2, <2>3, <2>4, <2>5
<1>2. acc[0] = base
  <2>1. 1 .. 0 = {} /\ {} \in SUBSET (1 .. n)
    OBVIOUS
  <2>. QED BY <2>1 DEF Folding
<1>3. acc[n] = it[1 .. n]
  OBVIOUS
<1>4. Accumulated(acc, p, base, file, n)
  <2> HIDE DEF acc
  <2>. QED BY <1>1, <1>2 DEF Accumulated
<1> HIDE DEF acc
<1>. QED BY <1>3, <1>4

\* A feed is read row by row.
LEMMA RowsAccumulate ==
  ASSUME NEW set, NEW feed, NEW rows, Len(rows) \in Nat, DOMAIN rows = 1 .. Len(rows)
  PROVE  \E acc :
           /\ Accumulated(acc, FeedReader(feed), set_source(set, feed.id), rows, Len(rows))
           /\ parse_into(set, feed, rows).set = acc[Len(rows)]
<1> DEFINE n == Len(rows)
           S == DOMAIN rows
           p == FeedReader(feed)
           base == set_source(set, feed.id)
           folds(it) == it = [s \in SUBSET S |->
                                IF s = {} THEN base
                                ELSE ReadRow(it[s \ {Max(s)}], feed, rows[Max(s)])]
           folded == CHOOSE it : folds(it)
<1>1. FoldLeft(LAMBDA s, row : ReadRow(s, feed, row), base, rows) = folded[S]
  BY DEF FoldLeft, MapThenFoldSet
<1>2. parse_into(set, feed, rows).set = folded[S]
  BY <1>1 DEF parse_into
<1>3. \A acc, x : Step(p, acc, x) = ReadRow(acc, feed, x)
  BY DEF Step, FeedReader
<1> HIDE DEF p, base
<1>4. \A it : Folding(it, p, base, rows, n) <=> folds(it)
  BY <1>3 DEF Folding
<1>5. folds(folded)
  <2>1. \E it : folds(it)
    BY <1>4, FoldingExists
  <2> HIDE DEF folds
  <2>. QED BY <2>1
<1>6. Folding(folded, p, base, rows, n)
  BY <1>4, <1>5
<1> HIDE DEF folded, folds
<1>7. PICK acc : Accumulated(acc, p, base, rows, n) /\ folded[1 .. n] = acc[n]
  BY <1>6, FoldingAccumulates
<1>. QED BY <1>2, <1>7 DEF p, base

\* A list is read line by line.
LEMMA LinesAccumulate ==
  ASSUME NEW lines, Len(lines) \in Nat, DOMAIN lines = 1 .. Len(lines)
  PROVE  \E acc :
           /\ Accumulated(acc, ListReader,
                          [set |-> EmptySet, warnings |-> <<>>, full |-> FALSE], lines,
                          Len(lines))
           /\ parse_iocs(lines).set = acc[Len(lines)].set
<1> DEFINE n == Len(lines)
           S == DOMAIN lines
           p == ListReader
           base == [set |-> EmptySet, warnings |-> <<>>, full |-> FALSE]
           folds(it) == it = [s \in SUBSET S |->
                                IF s = {} THEN base
                                ELSE ReadLine(it[s \ {Max(s)}], lines[Max(s)])]
           folded == CHOOSE it : folds(it)
<1>1. FoldLeft(ReadLine, base, lines) = folded[S]
  BY DEF FoldLeft, MapThenFoldSet
<1>2. parse_iocs(lines).set = folded[S].set
  BY <1>1 DEF parse_iocs
<1>3. \A acc, x : Step(p, acc, x) = ReadLine(acc, x)
  BY DEF Step, ListReader
<1> HIDE DEF p, base
<1>4. \A it : Folding(it, p, base, lines, n) <=> folds(it)
  BY <1>3 DEF Folding
<1>5. folds(folded)
  <2>1. \E it : folds(it)
    BY <1>4, FoldingExists
  <2> HIDE DEF folds
  <2>. QED BY <2>1
<1>6. Folding(folded, p, base, lines, n)
  BY <1>4, <1>5
<1> HIDE DEF folded, folds
<1>7. PICK acc : Accumulated(acc, p, base, lines, n) /\ folded[1 .. n] = acc[n]
  BY <1>6, FoldingAccumulates
<1>. QED BY <1>2, <1>7 DEF p, base

-----------------------------------------------------------------------------
(* What is put into a set.                                                 *)

Form(set) ==
  /\ DOMAIN set = {"ips", "cidrs", "domains", "ja3", "current_source", "manifest"}
  /\ IsFiniteSet(DOMAIN set.ips) /\ IsFiniteSet(DOMAIN set.domains)
  /\ IsFiniteSet(DOMAIN set.ja3)
  /\ IsSeq(set.cidrs) /\ IsSeq(set.manifest)

HasRoom(set) == Indicators(set) < MaxIndicators

LEMMA FormCounts ==
  ASSUME NEW set, Form(set)
  PROVE  /\ Indicators(set) \in Nat
         /\ Cardinality(DOMAIN set.ips) \in Nat /\ Len(set.cidrs) \in Nat
         /\ Cardinality(DOMAIN set.domains) \in Nat /\ Cardinality(DOMAIN set.ja3) \in Nat
<1>1. Len(set.cidrs) \in Nat
  BY DEF Form, IsSeq
<1>2. /\ Cardinality(DOMAIN set.ips) \in Nat /\ Cardinality(DOMAIN set.domains) \in Nat
      /\ Cardinality(DOMAIN set.ja3) \in Nat
  BY FS_CardinalityType DEF Form
<1>. QED BY <1>1, <1>2 DEF Indicators

\* A key more makes a map no smaller.
LEMMA WithGrows ==
  ASSUME NEW map, NEW x, NEW value, IsFiniteSet(DOMAIN map)
  PROVE  /\ IsFiniteSet(DOMAIN With(map, x, value))
         /\ Cardinality(DOMAIN With(map, x, value)) \in Nat
         /\ Cardinality(DOMAIN map) <= Cardinality(DOMAIN With(map, x, value))
<1>1. DOMAIN With(map, x, value) = DOMAIN map \cup {x}
  BY DEF With
<1>2. IsFiniteSet(DOMAIN map \cup {x}) /\ Cardinality(DOMAIN map) \in Nat
      /\ Cardinality(DOMAIN map \cup {x})
           = IF x \in DOMAIN map THEN Cardinality(DOMAIN map) ELSE Cardinality(DOMAIN map) + 1
  BY FS_AddElement, FS_CardinalityType
<1>. QED BY <1>1, <1>2

\* One indicator: an address in a set with room is there from now on, and
\* nothing else changes the addresses.
LEMMA InsertGrows ==
  ASSUME NEW set, Form(set), NEW token, NEW tag,
         NEW new, new = insert_tagged(set, token, tag).set
  PROVE  /\ Form(new) /\ Indicators(set) <= Indicators(new)
         /\ new.manifest = set.manifest /\ new.current_source = set.current_source
         /\ new.ips = IF HasRoom(set) /\ token.kind = "ip"
                      THEN With(set.ips, token.value,
                                [source |-> set.current_source, tag |-> tag])
                      ELSE set.ips
<1> DEFINE meta == [source |-> set.current_source, tag |-> tag]
<1>1. /\ Indicators(set) \in Nat
      /\ Cardinality(DOMAIN set.ips) \in Nat /\ Len(set.cidrs) \in Nat
      /\ Cardinality(DOMAIN set.domains) \in Nat /\ Cardinality(DOMAIN set.ja3) \in Nat
  BY FormCounts
<1>2. MaxIndicators \in Nat
  BY IocSetAssumption
<1>3. HasRoom(set) <=> ~(MaxIndicators <= Indicators(set))
  BY <1>1, <1>2 DEF HasRoom
<1>4. CASE new = set /\ ~(HasRoom(set) /\ token.kind = "ip")
  BY <1>1, <1>4
<1>5. CASE HasRoom(set) /\ (token.kind \in {"ip", "ja3", "domain"} \/ IsCidr(token))
  <2>1. new = Insert(set, token, meta)
    BY <1>3, <1>5 DEF insert_tagged
  <2>2. CASE token.kind = "ip"
    <3> DEFINE map == With(set.ips, token.value, meta)
    <3>1. new = [set EXCEPT !.ips = map]
      BY <2>1, <2>2 DEF Insert
    <3>2. /\ IsFiniteSet(DOMAIN map) /\ Cardinality(DOMAIN map) \in Nat
          /\ Cardinality(DOMAIN set.ips) <= Cardinality(DOMAIN map)
      BY WithGrows DEF Form
    <3> HIDE DEF map
    <3>3. Form(new) /\ new.ips = map /\ new.cidrs = set.cidrs /\ new.domains = set.domains
          /\ new.ja3 = set.ja3 /\ new.manifest = set.manifest
          /\ new.current_source = set.current_source
      BY <3>1, <3>2 DEF Form
    <3>4. Indicators(set) <= Indicators(new)
      BY <1>1, <3>2, <3>3 DEF Indicators
    <3>. QED BY <1>5, <2>2, <3>3, <3>4 DEF map
  <2>3. CASE token.kind = "ja3"
    <3> DEFINE map == With(set.ja3, Normal[token.value], meta)
    <3>1. new = [set EXCEPT !.ja3 = map]
      BY <2>1, <2>3 DEF Insert
    <3>2. /\ IsFiniteSet(DOMAIN map) /\ Cardinality(DOMAIN map) \in Nat
          /\ Cardinality(DOMAIN set.ja3) <= Cardinality(DOMAIN map)
      BY WithGrows DEF Form
    <3> HIDE DEF map
    <3>3. Form(new) /\ new.ja3 = map /\ new.cidrs = set.cidrs /\ new.domains = set.domains
          /\ new.ips = set.ips /\ new.manifest = set.manifest
          /\ new.current_source = set.current_source
      BY <3>1, <3>2 DEF Form
    <3>4. Indicators(set) <= Indicators(new)
      BY <1>1, <3>2, <3>3 DEF Indicators
    <3>. QED BY <2>3, <3>3, <3>4
  <2>4. CASE token.kind = "domain"
    <3> DEFINE map == With(set.domains, Normal[token.value], meta)
    <3>1. new = [set EXCEPT !.domains = map]
      BY <2>1, <2>4 DEF Insert
    <3>2. /\ IsFiniteSet(DOMAIN map) /\ Cardinality(DOMAIN map) \in Nat
          /\ Cardinality(DOMAIN set.domains) <= Cardinality(DOMAIN map)
      BY WithGrows DEF Form
    <3> HIDE DEF map
    <3>3. Form(new) /\ new.domains = map /\ new.cidrs = set.cidrs /\ new.ja3 = set.ja3
          /\ new.ips = set.ips /\ new.manifest = set.manifest
          /\ new.current_source = set.current_source
      BY <3>1, <3>2 DEF Form
    <3>4. Indicators(set) <= Indicators(new)
      BY <1>1, <3>2, <3>3 DEF Indicators
    <3>. QED BY <2>4, <3>3, <3>4
  <2>5. CASE IsCidr(token)
    <3> DEFINE range == [base |-> token.base, prefix |-> token.prefix, meta |-> meta]
               list == Append(set.cidrs, range)
    <3>1. token.kind = "cidr"
      BY <2>5 DEF IsCidr
    <3>2. new = [set EXCEPT !.cidrs = list]
      BY <2>1, <3>1 DEF Insert
    <3> HIDE DEF range
    <3>3. IsSeq(list) /\ Len(list) = Len(set.cidrs) + 1
      <4>1. IsSeq(list)
        BY Appended DEF Form
      <4>2. PICK T : set.cidrs \in Seq(T)
        BY DEF Form, IsSeq
      <4>. QED BY <4>1, <4>2
    <3> HIDE DEF list
    <3>4. Form(new) /\ new.cidrs = list /\ new.domains = set.domains /\ new.ja3 = set.ja3
          /\ new.ips = set.ips /\ new.manifest = set.manifest
          /\ new.current_source = set.current_source
      BY <3>2, <3>3 DEF Form
    <3>5. Indicators(set) <= Indicators(new)
      BY <1>1, <3>3, <3>4 DEF Indicators
    <3>. QED BY <3>1, <3>4, <3>5
  <2>. QED BY <1>5, <2>2, <2>3, <2>4, <2>5
<1>6. \/ new = set /\ ~(HasRoom(set) /\ token.kind = "ip")
      \/ HasRoom(set) /\ (token.kind \in {"ip", "ja3", "domain"} \/ IsCidr(token))
  BY <1>3 DEF insert_tagged
<1>. QED BY <1>4, <1>5, <1>6

\* A feed's own address of what is read so far: the last row that has it.
Rows(rows, n, x) == {i \in 1 .. n : rows[i] # None /\ rows[i].token.value = x}

\* What n rows of a feed make of the addresses there were.
Told(old, new, feed, rows, n) ==
  \A x \in DOMAIN Bits :
    IF Rows(rows, n, x) = {}
    THEN /\ x \in DOMAIN new.ips <=> x \in DOMAIN old.ips
         /\ x \in DOMAIN old.ips => new.ips[x] = old.ips[x]
    ELSE /\ x \in DOMAIN new.ips
         /\ new.ips[x] = [source |-> feed.id, tag |-> RowTag(feed, rows[Max(Rows(rows, n, x))])]

\* The state of the reading after n rows.
ReadSoFar(old, new, feed, rows, n) ==
  /\ Form(new) /\ Indicators(old) <= Indicators(new)
  /\ new.manifest = old.manifest /\ new.current_source = feed.id
  /\ HasRoom(new) => Told(old, new, feed, rows, n)

\* The last row so far that has an address.
LEMMA RowsStep ==
  ASSUME NEW rows, NEW n \in Nat, NEW x
  PROVE  LET m == n + 1 IN
         IF rows[m] # None /\ rows[m].token.value = x
         THEN /\ Rows(rows, m, x) # {} /\ Max(Rows(rows, m, x)) = m
         ELSE Rows(rows, m, x) = Rows(rows, n, x)
<1> DEFINE m == n + 1
           R == Rows(rows, m, x)
<1>1. m \in Nat /\ 1 .. m = (1 .. n) \cup {m}
  OBVIOUS
<1>2. CASE rows[m] # None /\ rows[m].token.value = x
  <2>1. m \in R /\ R \in SUBSET (1 .. m)
    BY <1>1, <1>2 DEF Rows
  <2> HIDE DEF R
  <2>2. Max(R) \in R /\ \A y \in R : y <= Max(R)
    BY <1>1, <2>1, LastOf
  <2> DEFINE last == Max(R)
  <2>3. last \in 1 .. m /\ m <= last
    BY <2>1, <2>2
  <2> HIDE DEF last
  <2>4. last = m
    BY <1>1, <2>3
  <2>. QED BY <1>2, <2>1, <2>4 DEF R, last
<1>3. CASE ~(rows[m] # None /\ rows[m].token.value = x)
  <2>1. Rows(rows, m, x) = Rows(rows, n, x)
    BY <1>1, <1>3 DEF Rows
  <2>. QED BY <1>3, <2>1
<1>. QED BY <1>2, <1>3

\* One row more.
LEMMA RowTells ==
  ASSUME NEW old, Form(old), NEW set, NEW feed, NEW rows, IsRows(rows),
         NEW n \in Nat, n + 1 \in 1 .. Len(rows),
         ReadSoFar(old, set, feed, rows, n),
         NEW new, new = ReadRow(set, feed, rows[n + 1])
  PROVE  ReadSoFar(old, new, feed, rows, n + 1)
<1> DEFINE row == rows[n + 1]
<1>1. CASE row = None
  <2>1. new = set
    BY <1>1 DEF ReadRow
  <2>2. \A x : Rows(rows, n + 1, x) = Rows(rows, n, x)
    BY <1>1, RowsStep
  <2>. QED BY <2>1, <2>2 DEF ReadSoFar, Told
<1>2. CASE row # None
  <2> DEFINE token == row.token
             tag == RowTag(feed, row)
             map == With(set.ips, token.value, [source |-> feed.id, tag |-> tag])
  <2>1. new = insert_tagged(set, token, tag).set
    BY <1>2 DEF ReadRow
  <2>2. Form(set) /\ set.current_source = feed.id
    BY DEF ReadSoFar
  <2>3. token.value \in DOMAIN Bits <=> token.kind = "ip"
    <3>1. row \in Range(rows) \ {None}
      <4>1. n + 1 \in DOMAIN rows
        BY DEF IsRows
      <4>. QED BY <1>2, <4>1 DEF Range
    <3>2. row.token \in {r.token : r \in Range(rows) \ {None}}
      BY <3>1
    <3>. QED BY <3>2 DEF IsRows, AddressesAreIps
  <2> HIDE DEF token, tag
  <2>4. /\ Form(new) /\ Indicators(set) <= Indicators(new)
        /\ new.manifest = set.manifest /\ new.current_source = set.current_source
        /\ new.ips = IF HasRoom(set) /\ token.kind = "ip"
                     THEN With(set.ips, token.value,
                               [source |-> set.current_source, tag |-> tag])
                     ELSE set.ips
    BY <2>1, <2>2, InsertGrows
  <2>5. /\ Indicators(old) \in Nat /\ Indicators(set) \in Nat /\ Indicators(new) \in Nat
        /\ MaxIndicators \in Nat
    BY <2>2, <2>4, FormCounts, IocSetAssumption
  <2>6. Indicators(old) <= Indicators(new) /\ (HasRoom(new) => HasRoom(set))
    BY <2>4, <2>5 DEF ReadSoFar, HasRoom
  <2>7. ASSUME HasRoom(new)
        PROVE  Told(old, new, feed, rows, n + 1)
    <3>1. HasRoom(set) /\ Told(old, set, feed, rows, n)
      BY <2>6, <2>7 DEF ReadSoFar
    <3>2. new.ips = IF token.kind = "ip" THEN map ELSE set.ips
      BY <2>2, <2>4, <3>1
    <3>3. ASSUME NEW x \in DOMAIN Bits
          PROVE  IF Rows(rows, n + 1, x) = {}
                 THEN /\ x \in DOMAIN new.ips <=> x \in DOMAIN old.ips
                      /\ x \in DOMAIN old.ips => new.ips[x] = old.ips[x]
                 ELSE /\ x \in DOMAIN new.ips
                      /\ new.ips[x] = [source |-> feed.id,
                                       tag |-> RowTag(feed, rows[Max(Rows(rows, n + 1, x))])]
      <4>1. CASE token.value = x
        <5>1. new.ips = map
          BY <2>3, <3>2, <4>1
        <5>2. x \in DOMAIN new.ips /\ new.ips[x] = [source |-> feed.id, tag |-> tag]
          BY <4>1, <5>1 DEF With
        <5>3. Rows(rows, n + 1, x) # {} /\ Max(Rows(rows, n + 1, x)) = n + 1
          BY <1>2, <4>1, RowsStep DEF token
        <5>. QED BY <5>2, <5>3 DEF tag
      <4>2. CASE token.value # x
        <5>1. Rows(rows, n + 1, x) = Rows(rows, n, x)
          BY <4>2, RowsStep DEF token
        <5>2. /\ x \in DOMAIN new.ips <=> x \in DOMAIN set.ips
              /\ x \in DOMAIN set.ips => new.ips[x] = set.ips[x]
          BY <3>2, <4>2 DEF With
        <5>. QED BY <3>1, <5>1, <5>2 DEF Told
      <4>. QED BY <4>1, <4>2
    <3>. QED BY <3>3 DEF Told
  <2>. QED BY <2>2, <2>4, <2>6, <2>7 DEF ReadSoFar
<1>. QED BY <1>1, <1>2

\* A feed read to the end.
LEMMA FeedTells ==
  ASSUME NEW set, Form(set), NEW feed, NEW rows, IsRows(rows)
  PROVE  ReadSoFar(set, parse_into(set, feed, rows).set, feed, rows, Len(rows))
<1> DEFINE base == set_source(set, feed.id)
           len == Len(rows)
<1>1. len \in Nat /\ DOMAIN rows = 1 .. len
  BY DEF IsRows
<1>2. PICK acc : /\ Accumulated(acc, FeedReader(feed), base, rows, len)
                 /\ parse_into(set, feed, rows).set = acc[len]
  BY <1>1, RowsAccumulate
<1>3. acc[0] = base /\ \A i \in 1 .. len : acc[i] = ReadRow(acc[i - 1], feed, rows[i])
  BY <1>2 DEF Accumulated, Step, FeedReader
<1> DEFINE N == {n \in Nat : n <= len => ReadSoFar(set, acc[n], feed, rows, n)}
<1>4. 0 \in N
  <2>1. /\ Form(base) /\ Indicators(base) = Indicators(set) /\ base.ips = set.ips
        /\ base.manifest = set.manifest /\ base.current_source = feed.id
    BY DEF set_source, Form, Indicators
  <2>2. \A x : Rows(rows, 0, x) = {}
    BY DEF Rows
  <2>3. Indicators(set) \in Nat
    BY FormCounts
  <2> HIDE DEF base
  <2>4. ReadSoFar(set, base, feed, rows, 0)
    BY <2>1, <2>2, <2>3 DEF ReadSoFar, Told
  <2>. QED BY <1>3, <2>4
<1>5. ASSUME NEW n \in Nat, n \in N
      PROVE  n + 1 \in N
  <2> SUFFICES ASSUME n + 1 <= len PROVE ReadSoFar(set, acc[n + 1], feed, rows, n + 1)
    OBVIOUS
  <2>1. n + 1 \in 1 .. len /\ n + 1 - 1 = n /\ n <= len
    BY <1>1
  <2>2. ReadSoFar(set, acc[n], feed, rows, n)
    BY <1>5, <2>1
  <2>3. acc[n + 1] = ReadRow(acc[n], feed, rows[n + 1])
    BY <1>3, <2>1
  <2>. QED BY <2>1, <2>2, <2>3, RowTells
<1>6. Nat \subseteq N
  <2> HIDE DEF N
  <2>. QED BY <1>4, <1>5, Induction
<1>. QED BY <1>1, <1>2, <1>6

\* The list: an address is the user's own, and it is there if there was room.
Manual == [source |-> "manual", tag |-> None]

ListedSoFar(read, n) ==
  /\ DOMAIN read = {"set", "warnings", "full"}
  /\ Form(read.set) /\ read.set.manifest = <<>> /\ read.set.current_source = "manual"
  /\ \A x \in DOMAIN read.set.ips : read.set.ips[x] = Manual
  /\ HasRoom(read.set) =>
       /\ ~read.full
       /\ \A i \in 1 .. n : List[i] # None /\ List[i].kind = "ip" =>
                              List[i].value \in DOMAIN read.set.ips

LEMMA EmptyForm ==
  /\ Form(EmptySet) /\ EmptySet.manifest = <<>> /\ EmptySet.current_source = "manual"
  /\ DOMAIN EmptySet.ips = {} /\ EmptySet.cidrs = <<>>
  /\ DOMAIN EmptySet.domains = {} /\ DOMAIN EmptySet.ja3 = {}
<1>1. DOMAIN NoMap = {}
  BY DEF NoMap
<1>2. IsSeq(<<>>)
  BY DEF IsSeq
<1>. QED BY <1>1, <1>2, FS_EmptySet DEF Form, EmptySet

LEMMA LineLists ==
  ASSUME NEW n \in Nat, NEW read, ListedSoFar(read, n)
  PROVE  ListedSoFar(ReadLine(read, List[n + 1]), n + 1)
<1> DEFINE token == List[n + 1]
           put == insert_tagged(read.set, token, None)
           next == ReadLine(read, token)
<1>0. /\ Form(read.set) /\ 1 .. n + 1 = (1 .. n) \cup {n + 1}
      /\ DOMAIN read = {"set", "warnings", "full"}
      /\ HasRoom(read.set) => ~read.full
  BY DEF ListedSoFar
<1>1. CASE token = None
  <2>1. next = read
    BY <1>1 DEF ReadLine
  <2>. QED BY <1>0, <1>1, <2>1 DEF ListedSoFar
<1>2. CASE read.full
  <2>1. next = read
    BY <1>2 DEF ReadLine
  <2>. QED BY <1>0, <1>2, <2>1 DEF ListedSoFar
<1>3. CASE token # None /\ ~read.full /\ put.err = None
  <2>1. next = [read EXCEPT !.set = put.set]
    BY <1>3 DEF ReadLine
  <2> DEFINE new == put.set
  <2>2. /\ Form(new) /\ Indicators(read.set) <= Indicators(new)
        /\ new.manifest = read.set.manifest
        /\ new.current_source = read.set.current_source
        /\ new.ips = IF HasRoom(read.set) /\ token.kind = "ip"
                     THEN With(read.set.ips, token.value,
                               [source |-> read.set.current_source, tag |-> None])
                     ELSE read.set.ips
    BY <1>0, InsertGrows
  <2> HIDE DEF new, next, token
  <2>3. DOMAIN next = {"set", "warnings", "full"} /\ next.set = new /\ next.full = read.full
    BY <1>0, <2>1 DEF new
  <2>4. HasRoom(new) => HasRoom(read.set)
    <3>1. /\ Indicators(read.set) \in Nat /\ Indicators(new) \in Nat
          /\ MaxIndicators \in Nat
      BY <1>0, <2>2, FormCounts, IocSetAssumption
    <3>. QED BY <2>2, <3>1 DEF HasRoom
  <2>5. read.set.current_source = "manual" /\ read.set.manifest = <<>>
    BY DEF ListedSoFar
  <2>6. \A x \in DOMAIN new.ips : new.ips[x] = Manual
    BY <2>2, <2>5 DEF ListedSoFar, With, Manual
  <2>7. ASSUME HasRoom(new), NEW i \in 1 .. n + 1, List[i] # None, List[i].kind = "ip"
        PROVE  List[i].value \in DOMAIN new.ips
    <3>1. HasRoom(read.set) /\ DOMAIN read.set.ips \subseteq DOMAIN new.ips
      BY <2>2, <2>4, <2>7 DEF With
    <3>2. CASE i \in 1 .. n
      BY <2>7, <3>1, <3>2 DEF ListedSoFar
    <3>3. CASE i = n + 1
      <4>1. token.kind = "ip" /\ List[i].value = token.value
        BY <2>7, <3>3 DEF token
      <4>. QED BY <2>2, <3>1, <4>1 DEF With
    <3>. QED BY <1>0, <3>2, <3>3
  <2>8. HasRoom(new) => ~next.full
    BY <1>0, <2>3, <2>4
  <2>9. ListedSoFar(next, n + 1)
    BY <2>2, <2>3, <2>5, <2>6, <2>7, <2>8 DEF ListedSoFar
  <2>. QED BY <2>9 DEF next, token
<1>4. CASE token # None /\ ~read.full /\ put.err # None
  <2>1. PICK warnings : next = [read EXCEPT !.warnings = warnings, !.full = (put.err = "Full")]
    BY <1>4 DEF ReadLine
  <2> DEFINE full == put.err = "Full"
  <2>2. HasRoom(read.set) => ~full /\ token.kind # "ip"
    <3>1. Indicators(read.set) \in Nat /\ MaxIndicators \in Nat
      BY <1>0, FormCounts, IocSetAssumption
    <3>. QED BY <1>4, <3>1 DEF HasRoom, insert_tagged
  <2> HIDE DEF full, next, token
  <2>3. /\ DOMAIN next = {"set", "warnings", "full"} /\ next.set = read.set
        /\ next.full = full
    BY <1>0, <2>1 DEF full
  <2>4. ASSUME HasRoom(read.set), NEW i \in 1 .. n + 1, List[i] # None, List[i].kind = "ip"
        PROVE  List[i].value \in DOMAIN read.set.ips
    <3>1. i # n + 1
      BY <2>2, <2>4 DEF token
    <3>2. i \in 1 .. n
      BY <1>0, <3>1
    <3>. QED BY <2>4, <3>2 DEF ListedSoFar
  <2>5. HasRoom(read.set) => ~next.full
    BY <2>2, <2>3
  <2>6. ListedSoFar(next, n + 1)
    BY <2>3, <2>4, <2>5 DEF ListedSoFar
  <2>. QED BY <2>6 DEF next, token
<1>. QED BY <1>1, <1>2, <1>3, <1>4

LEMMA ListTells ==
  LET set == parse_iocs(List).set IN
  /\ Form(set) /\ set.manifest = <<>>
  /\ \A x \in DOMAIN set.ips : set.ips[x] = Manual
  /\ HasRoom(set) =>
       \A i \in DOMAIN List : List[i] # None /\ List[i].kind = "ip" =>
                                List[i].value \in DOMAIN set.ips
<1> DEFINE len == Len(List)
           base == [set |-> EmptySet, warnings |-> <<>>, full |-> FALSE]
<1>1. len \in Nat /\ DOMAIN List = 1 .. len
  BY IntelCacheAssumption
<1>2. PICK acc : /\ Accumulated(acc, ListReader, base, List, len)
                 /\ parse_iocs(List).set = acc[len].set
  BY <1>1, LinesAccumulate
<1>3. acc[0] = base /\ \A i \in 1 .. len : acc[i] = ReadLine(acc[i - 1], List[i])
  BY <1>2 DEF Accumulated, Step, ListReader
<1> DEFINE N == {n \in Nat : n <= len => ListedSoFar(acc[n], n)}
<1>4. 0 \in N
  <2>1. ListedSoFar(base, 0)
    BY EmptyForm DEF ListedSoFar
  <2>. QED BY <1>3, <2>1
<1>5. ASSUME NEW n \in Nat, n \in N
      PROVE  n + 1 \in N
  <2> SUFFICES ASSUME n + 1 <= len PROVE ListedSoFar(acc[n + 1], n + 1)
    OBVIOUS
  <2>1. n + 1 \in 1 .. len /\ n + 1 - 1 = n /\ n <= len
    BY <1>1
  <2>2. ListedSoFar(acc[n], n)
    BY <1>5, <2>1
  <2>3. acc[n + 1] = ReadLine(acc[n], List[n + 1])
    BY <1>3, <2>1
  <2>. QED BY <2>2, <2>3, LineLists
<1>6. Nat \subseteq N
  <2> HIDE DEF N
  <2>. QED BY <1>4, <1>5, Induction
<1>7. ListedSoFar(acc[len], len)
  BY <1>1, <1>6
<1>. QED BY <1>1, <1>2, <1>7 DEF ListedSoFar

-----------------------------------------------------------------------------
(* What a set of feeds says of an address.                                 *)

\* Every source of the set is a download.
Sourced(set, f) ==
  \A i \in DOMAIN set.manifest :
    /\ set.manifest[i].fetched_at \in DOMAIN f
    /\ IsRows(f[set.manifest[i].fetched_at].rows)

Listing(set, f, x) ==
  {i \in DOMAIN set.manifest : RowsWith(f[set.manifest[i].fetched_at].rows, x) # {}}

\* The provenance the last of them gives an address.
Attribution(set, f, x) ==
  LET i == Max(Listing(set, f, x))
      rows == f[set.manifest[i].fetched_at].rows
  IN  [source |-> set.manifest[i].source,
       tag |-> RowTag(Builtin[set.manifest[i].source], rows[Max(RowsWith(rows, x))])]

\* The set holds the addresses of its feeds, each as its last feed has it.
Vouches(set, f) ==
  /\ Sourced(set, f)
  /\ \A x \in DOMAIN Bits :
       /\ x \in DOMAIN set.ips <=> Listing(set, f, x) # {}
       /\ x \in DOMAIN set.ips => set.ips[x] = Attribution(set, f, x)

LEMMA EmptyVouches ==
  ASSUME NEW f
  PROVE  Vouches(EmptySet, f)
  BY EmptyForm DEF Vouches, Sourced, Listing

LEMMA LastListed ==
  ASSUME NEW set, IsSeq(set.manifest), NEW f, NEW x, Listing(set, f, x) # {}
  PROVE  /\ Max(Listing(set, f, x)) \in Listing(set, f, x)
         /\ Max(Listing(set, f, x)) \in DOMAIN set.manifest
<1> DEFINE n == Len(set.manifest)
           S == Listing(set, f, x)
<1>1. n \in Nat /\ DOMAIN set.manifest = 1 .. n
  BY DEF IsSeq
<1>2. S \in SUBSET (1 .. n)
  BY <1>1 DEF Listing
<1> HIDE DEF S
<1>3. Max(S) \in S
  BY <1>1, <1>2, LastOf DEF S
<1>. QED BY <1>1, <1>2, <1>3 DEF S

\* Downloads to come change nothing.
LEMMA ListingStays ==
  ASSUME NEW set, IsSeq(set.manifest), NEW f, NEW longer, Sourced(set, f),
         \A i \in DOMAIN f : i \in DOMAIN longer /\ longer[i] = f[i]
  PROVE  /\ Sourced(set, longer)
         /\ \A x : Listing(set, longer, x) = Listing(set, f, x)
         /\ \A x : Listing(set, f, x) # {} => Attribution(set, longer, x) = Attribution(set, f, x)
<1>1. \A i \in DOMAIN set.manifest :
        /\ set.manifest[i].fetched_at \in DOMAIN longer
        /\ longer[set.manifest[i].fetched_at] = f[set.manifest[i].fetched_at]
  BY DEF Sourced
<1>2. Sourced(set, longer)
  BY <1>1 DEF Sourced
<1>3. \A x : Listing(set, longer, x) = Listing(set, f, x)
  BY <1>1 DEF Listing
<1>4. ASSUME NEW x, Listing(set, f, x) # {}
      PROVE  Attribution(set, longer, x) = Attribution(set, f, x)
  <2>1. Max(Listing(set, f, x)) \in DOMAIN set.manifest
    BY <1>4, LastListed
  <2>. QED BY <1>1, <1>3, <2>1 DEF Attribution
<1>. QED BY <1>2, <1>3, <1>4

\* One feed more, of a download: what it has it speaks for, and the others keep
\* what they had.
LEMMA ContributeVouches ==
  ASSUME NEW set, Form(set), NEW id \in DOMAIN Builtin, NEW f, NEW at, NEW rows, IsRows(rows)
  PROVE  LET new == Contribute(set, id, rows, at) IN
         /\ Form(new) /\ Indicators(set) <= Indicators(new)
         /\ \E e : e.source = id /\ new.manifest = Append(set.manifest, e)
         /\ HasRoom(new) /\ Vouches(set, f) /\ at \in DOMAIN f /\ f[at].rows = rows =>
              Vouches(new, f)
<1> DEFINE feed == Builtin[id]
           read == parse_into(set, feed, rows)
           with == read.set
           e == [source |-> id, fetched_at |-> at, indicators |-> read.added]
           new == Contribute(set, id, rows, at)
           n == Len(set.manifest)
           m == n + 1
<1>1. feed.id = id
  BY DEF Builtin
<1>2. new = [with EXCEPT !.manifest = Append(with.manifest, e)]
  BY DEF Contribute, add_source_info
<1>3. ReadSoFar(set, with, feed, rows, Len(rows))
  BY FeedTells
<1> HIDE DEF with, read, feed, e
<1>4. Form(with) /\ with.manifest = set.manifest /\ Indicators(set) <= Indicators(with)
  BY <1>3 DEF ReadSoFar
<1> DEFINE list == Append(set.manifest, e)
<1>5. /\ IsSeq(list) /\ m \in DOMAIN list /\ list[m] = e
      /\ \A i \in DOMAIN set.manifest : i \in DOMAIN list /\ list[i] = set.manifest[i]
      /\ \A i \in DOMAIN list : i \in DOMAIN set.manifest \/ i = m
      /\ n \in Nat /\ DOMAIN set.manifest = 1 .. n
  <2>1. IsSeq(set.manifest)
    BY DEF Form
  <2>2. n \in Nat /\ DOMAIN set.manifest = 1 .. n
    BY <2>1 DEF IsSeq
  <2>. QED BY <2>1, <2>2, Appended
<1>6. list = Append(with.manifest, e)
  BY <1>4
<1> HIDE DEF list, new
<1>7. /\ Form(new) /\ new.manifest = list /\ new.ips = with.ips
      /\ Indicators(new) = Indicators(with)
  BY <1>2, <1>4, <1>5, <1>6 DEF Form, Indicators, new
<1>8. e.source = id /\ e.fetched_at = at
  BY DEF e
<1>9. ASSUME HasRoom(new), Vouches(set, f), at \in DOMAIN f, f[at].rows = rows
      PROVE  Vouches(new, f)
  <2>1. Told(set, with, feed, rows, Len(rows))
    BY <1>3, <1>7, <1>9 DEF ReadSoFar, HasRoom
  <2>2. Sourced(new, f)
    BY <1>5, <1>7, <1>8, <1>9 DEF Sourced, Vouches
  <2>3. ASSUME NEW x \in DOMAIN Bits
        PROVE  /\ x \in DOMAIN new.ips <=> Listing(new, f, x) # {}
               /\ x \in DOMAIN new.ips => new.ips[x] = Attribution(new, f, x)
    <3> DEFINE before == Listing(set, f, x)
               after == Listing(new, f, x)
               has == RowsWith(rows, x)
    <3>1. has = Rows(rows, Len(rows), x)
      BY DEF IsRows, RowsWith, Rows
    <3>2. after = IF has = {} THEN before ELSE before \cup {m}
      BY <1>5, <1>7, <1>8, <1>9 DEF Listing
    <3>3. CASE has # {}
      <4>1. /\ x \in DOMAIN new.ips
            /\ new.ips[x] = [source |-> id, tag |-> RowTag(feed, rows[Max(has)])]
        BY <1>1, <1>7, <2>1, <3>1, <3>3 DEF Told
      <4>2. m \in after /\ after \in SUBSET (1 .. m)
        <5>1. before \in SUBSET (1 .. n)
          BY <1>5 DEF Listing
        <5> HIDE DEF before, after, has
        <5>2. after = before \cup {m}
          BY <3>2, <3>3
        <5>3. m \in 1 .. m /\ \A i \in 1 .. n : i \in 1 .. m
          BY <1>5
        <5> HIDE DEF m, n
        <5>. QED BY <5>1, <5>2, <5>3
      <4> DEFINE last == Max(after)
      <4>3. last \in after /\ m <= last
        <5>1. m \in Nat
          BY <1>5
        <5> HIDE DEF after
        <5>. QED BY <4>2, <5>1, LastOf
      <4> HIDE DEF last, after
      <4>4. last = m
        BY <1>5, <4>2, <4>3
      <4>5. Attribution(new, f, x) = [source |-> id, tag |-> RowTag(feed, rows[Max(has)])]
        BY <1>5, <1>7, <1>8, <1>9, <4>4 DEF Attribution, feed, last, after
      <4>. QED BY <4>1, <4>2, <4>5 DEF after
    <3>4. CASE has = {}
      <4>1. /\ x \in DOMAIN new.ips <=> x \in DOMAIN set.ips
            /\ x \in DOMAIN set.ips => new.ips[x] = set.ips[x]
        BY <1>7, <2>1, <3>1, <3>4 DEF Told
      <4>2. /\ x \in DOMAIN set.ips <=> before # {}
            /\ x \in DOMAIN set.ips => set.ips[x] = Attribution(set, f, x)
        BY <1>9 DEF Vouches
      <4>3. before # {} => Attribution(new, f, x) = Attribution(set, f, x)
        <5>1. after = before
          BY <3>2, <3>4
        <5>2. before # {} => Max(before) \in DOMAIN set.manifest
          BY LastListed DEF Form
        <5>3. before # {} => list[Max(before)] = set.manifest[Max(before)]
          BY <1>5, <5>2
        <5> DEFINE i == Max(before)
        <5>4. before # {} => Max(after) = i /\ new.manifest[i] = set.manifest[i]
          BY <1>7, <5>1, <5>3
        <5>. QED BY <5>1, <5>4 DEF Attribution
      <4>. QED BY <3>2, <3>4, <4>1, <4>2, <4>3
    <3>. QED BY <3>3, <3>4
  <2>. QED BY <2>2, <2>3 DEF Vouches
<1>. QED BY <1>4, <1>5, <1>7, <1>8, <1>9 DEF new, list

LEMMA OverGrows ==
  ASSUME NEW map, NEW more, IsFiniteSet(DOMAIN map), IsFiniteSet(DOMAIN more)
  PROVE  /\ DOMAIN Over(map, more) = DOMAIN map \cup DOMAIN more
         /\ IsFiniteSet(DOMAIN Over(map, more))
         /\ Cardinality(DOMAIN Over(map, more)) \in Nat
         /\ Cardinality(DOMAIN map) <= Cardinality(DOMAIN Over(map, more))
         /\ Cardinality(DOMAIN more) <= Cardinality(DOMAIN Over(map, more))
<1> DEFINE both == DOMAIN map \cup DOMAIN more
<1>1. DOMAIN Over(map, more) = both
  BY DEF Over
<1>2. IsFiniteSet(both)
  BY FS_Union
<1>3. Cardinality(both) \in Nat
  BY <1>2, FS_CardinalityType
<1>4. DOMAIN map \in SUBSET both /\ DOMAIN more \in SUBSET both
  OBVIOUS
<1> HIDE DEF both
<1>5. Cardinality(DOMAIN map) <= Cardinality(both) /\ Cardinality(DOMAIN more) <= Cardinality(both)
  BY <1>2, <1>4, FS_Subset
<1>. QED BY <1>1, <1>2, <1>3, <1>5 DEF both

LEMMA Joined ==
  ASSUME NEW s, NEW t, IsSeq(s), IsSeq(t)
  PROVE  /\ IsSeq(s \o t)
         /\ Len(s) \in Nat /\ Len(t) \in Nat /\ Len(s \o t) = Len(s) + Len(t)
         /\ s = <<>> => s \o t = t
<1>1. PICK S : s \in Seq(S)
  BY DEF IsSeq
<1>2. PICK T : t \in Seq(T)
  BY DEF IsSeq
<1>3. s \in Seq(S \cup T) /\ t \in Seq(S \cup T)
  BY <1>1, <1>2
<1>4. s \o t \in Seq(S \cup T) /\ Len(s \o t) = Len(s) + Len(t)
  BY <1>3
<1>5. s = <<>> => s \o t = t
  BY <1>3
<1>. QED BY <1>3, <1>4, <1>5 DEF IsSeq

\* One set over another.
LEMMA ExtendGrows ==
  ASSUME NEW set, NEW more, Form(set), Form(more)
  PROVE  LET both == extend(set, more) IN
         /\ Form(both)
         /\ Indicators(set) <= Indicators(both) /\ Indicators(more) <= Indicators(both)
         /\ both.ips = Over(set.ips, more.ips)
         /\ set.manifest = <<>> => both.manifest = more.manifest
<1> DEFINE both == extend(set, more)
           ips == Over(set.ips, more.ips)
           cidrs == set.cidrs \o more.cidrs
           domains == Over(set.domains, more.domains)
           ja3 == Over(set.ja3, more.ja3)
           list == set.manifest \o more.manifest
<1>1. both = [set EXCEPT !.ips = ips, !.cidrs = cidrs, !.domains = domains, !.ja3 = ja3,
                         !.manifest = list]
  BY DEF extend
<1>2. /\ IsFiniteSet(DOMAIN ips) /\ Cardinality(DOMAIN ips) \in Nat
      /\ Cardinality(DOMAIN set.ips) <= Cardinality(DOMAIN ips)
      /\ Cardinality(DOMAIN more.ips) <= Cardinality(DOMAIN ips)
  BY OverGrows DEF Form
<1>3. /\ IsFiniteSet(DOMAIN domains) /\ Cardinality(DOMAIN domains) \in Nat
      /\ Cardinality(DOMAIN set.domains) <= Cardinality(DOMAIN domains)
      /\ Cardinality(DOMAIN more.domains) <= Cardinality(DOMAIN domains)
  BY OverGrows DEF Form
<1>4. /\ IsFiniteSet(DOMAIN ja3) /\ Cardinality(DOMAIN ja3) \in Nat
      /\ Cardinality(DOMAIN set.ja3) <= Cardinality(DOMAIN ja3)
      /\ Cardinality(DOMAIN more.ja3) <= Cardinality(DOMAIN ja3)
  BY OverGrows DEF Form
<1>5. IsSeq(cidrs) /\ Len(cidrs) = Len(set.cidrs) + Len(more.cidrs)
      /\ IsSeq(list) /\ (set.manifest = <<>> => list = more.manifest)
  BY Joined DEF Form
<1>6. /\ Cardinality(DOMAIN set.ips) \in Nat /\ Len(set.cidrs) \in Nat
      /\ Cardinality(DOMAIN set.domains) \in Nat /\ Cardinality(DOMAIN set.ja3) \in Nat
      /\ Cardinality(DOMAIN more.ips) \in Nat /\ Len(more.cidrs) \in Nat
      /\ Cardinality(DOMAIN more.domains) \in Nat /\ Cardinality(DOMAIN more.ja3) \in Nat
  BY FormCounts
<1> HIDE DEF both, ips, cidrs, domains, ja3, list
<1>7. /\ Form(both) /\ both.ips = ips /\ both.cidrs = cidrs /\ both.domains = domains
      /\ both.ja3 = ja3 /\ both.manifest = list
  BY <1>1, <1>2, <1>3, <1>4, <1>5 DEF Form
<1>8. Indicators(set) <= Indicators(both) /\ Indicators(more) <= Indicators(both)
  <2>1. Indicators(both) = Cardinality(DOMAIN ips) + Len(cidrs) + Cardinality(DOMAIN domains)
                             + Cardinality(DOMAIN ja3)
    BY <1>7 DEF Indicators
  <2>2. Indicators(set) = Cardinality(DOMAIN set.ips) + Len(set.cidrs)
                            + Cardinality(DOMAIN set.domains) + Cardinality(DOMAIN set.ja3)
    BY DEF Indicators
  <2>3. Indicators(more) = Cardinality(DOMAIN more.ips) + Len(more.cidrs)
                             + Cardinality(DOMAIN more.domains) + Cardinality(DOMAIN more.ja3)
    BY DEF Indicators
  <2> DEFINE a1 == Cardinality(DOMAIN set.ips)
             b1 == Len(set.cidrs)
             c1 == Cardinality(DOMAIN set.domains)
             d1 == Cardinality(DOMAIN set.ja3)
             a2 == Cardinality(DOMAIN more.ips)
             b2 == Len(more.cidrs)
             c2 == Cardinality(DOMAIN more.domains)
             d2 == Cardinality(DOMAIN more.ja3)
             a == Cardinality(DOMAIN ips)
             b == Len(cidrs)
             c == Cardinality(DOMAIN domains)
             d == Cardinality(DOMAIN ja3)
  <2>4. /\ {a, b1, b2, c, d} \subseteq Nat /\ {a1, a2, c1, c2, d1, d2} \subseteq Nat
        /\ a1 <= a /\ a2 <= a /\ b = b1 + b2 /\ c1 <= c /\ c2 <= c /\ d1 <= d /\ d2 <= d
    BY <1>2, <1>3, <1>4, <1>5, <1>6
  <2>5. /\ Indicators(both) = a + b + c + d
        /\ Indicators(set) = a1 + b1 + c1 + d1 /\ Indicators(more) = a2 + b2 + c2 + d2
    BY <2>1, <2>2, <2>3
  <2> HIDE DEF a, b, c, d, a1, b1, c1, d1, a2, b2, c2, d2
  <2>. QED BY <2>4, <2>5
<1>. QED BY <1>5, <1>7, <1>8 DEF both, ips

\* What a finished set owes the list and the downloads it is made of.
Matches(set, f) ==
  /\ Sourced(set, f)
  /\ \A x \in DOMAIN Bits :
       LET listed == \E i \in DOMAIN List : /\ List[i] # None /\ List[i].kind = "ip"
                                            /\ List[i].value = x
       IN  listed \/ Listing(set, f, x) # {} =>
             match_ip(set, x) = [indicator |-> x,
                                 meta |-> IF Listing(set, f, x) = {} THEN Manual
                                          ELSE Attribution(set, f, x)]

\* The list first, the feeds over it.
LEMMA CombineMatches ==
  ASSUME NEW set, Form(set), NEW f
  PROVE  LET both == extend(extend(EmptySet, parse_iocs(List).set), set) IN
         /\ Form(both) /\ both.manifest = set.manifest
         /\ HasRoom(both) => HasRoom(set)
         /\ HasRoom(both) /\ Vouches(set, f) => Matches(both, f)
<1> DEFINE own == parse_iocs(List).set
           first == extend(EmptySet, own)
           both == extend(first, set)
<1>1. /\ Form(own) /\ own.manifest = <<>>
      /\ \A x \in DOMAIN own.ips : own.ips[x] = Manual
      /\ HasRoom(own) =>
           \A i \in DOMAIN List : List[i] # None /\ List[i].kind = "ip" =>
                                    List[i].value \in DOMAIN own.ips
  BY ListTells
<1> HIDE DEF own
<1>2. /\ Form(first) /\ Indicators(own) <= Indicators(first)
      /\ first.ips = Over(EmptySet.ips, own.ips) /\ first.manifest = <<>>
  BY <1>1, EmptyForm, ExtendGrows
<1> HIDE DEF first
<1>3. /\ Form(both) /\ Indicators(first) <= Indicators(both) /\ Indicators(set) <= Indicators(both)
      /\ both.ips = Over(first.ips, set.ips) /\ both.manifest = set.manifest
  BY <1>2, ExtendGrows
<1> HIDE DEF both
<1>4. HasRoom(both) => HasRoom(set) /\ HasRoom(own)
  <2>1. /\ Indicators(own) \in Nat /\ Indicators(first) \in Nat /\ Indicators(set) \in Nat
        /\ Indicators(both) \in Nat /\ MaxIndicators \in Nat
    BY <1>1, <1>2, <1>3, FormCounts, IocSetAssumption
  <2>. QED BY <1>2, <1>3, <2>1 DEF HasRoom
<1>5. /\ DOMAIN first.ips = DOMAIN own.ips
      /\ \A x \in DOMAIN own.ips : first.ips[x] = Manual
  BY <1>1, <1>2, EmptyForm DEF Over
<1>6. /\ DOMAIN both.ips = DOMAIN own.ips \cup DOMAIN set.ips
      /\ \A x \in DOMAIN set.ips : both.ips[x] = set.ips[x]
      /\ \A x \in DOMAIN own.ips \ DOMAIN set.ips : both.ips[x] = Manual
  BY <1>3, <1>5 DEF Over
<1>7. ASSUME HasRoom(both), Vouches(set, f)
      PROVE  Matches(both, f)
  <2>1. Sourced(both, f) /\ \A x : Listing(both, f, x) = Listing(set, f, x)
    BY <1>3, <1>7 DEF Vouches, Sourced, Listing
  <2>2. \A x : Attribution(both, f, x) = Attribution(set, f, x)
    BY <1>3, <2>1 DEF Attribution
  <2>3. ASSUME NEW x \in DOMAIN Bits,
               \/ \E i \in DOMAIN List : /\ List[i] # None /\ List[i].kind = "ip"
                                         /\ List[i].value = x
               \/ Listing(both, f, x) # {}
        PROVE  match_ip(both, x) = [indicator |-> x,
                                    meta |-> IF Listing(both, f, x) = {} THEN Manual
                                             ELSE Attribution(both, f, x)]
    <3>1. /\ x \in DOMAIN set.ips <=> Listing(set, f, x) # {}
          /\ x \in DOMAIN set.ips => set.ips[x] = Attribution(set, f, x)
      BY <1>7 DEF Vouches
    <3>2. x \in DOMAIN both.ips
      BY <1>1, <1>4, <1>6, <1>7, <2>1, <2>3, <3>1
    <3>3. match_ip(both, x) = [indicator |-> x, meta |-> both.ips[x]]
      BY <3>2 DEF match_ip
    <3>4. both.ips[x] = IF Listing(both, f, x) = {} THEN Manual ELSE Attribution(both, f, x)
      BY <1>6, <2>1, <2>2, <3>1, <3>2
    <3>. QED BY <3>3, <3>4
  <2>. QED BY <2>1, <2>3 DEF Matches
<1>. QED BY <1>3, <1>4, <1>7 DEF both, first, own

-----------------------------------------------------------------------------
(* The analysis.                                                           *)

\* Everything downloaded, kept or being written is rows, of feeds of this build.
KnownFeeds(todo) == IsSeq(todo) /\ \A i \in DOMAIN todo : todo[i] \in DOMAIN Builtin

Carries(p) ==
  p.at # "idle" =>
    KnownFeeds(p.todo) /\ (p.at = "data" => p.todo # <<>> /\ IsRows(p.rows))

Bodies ==
  /\ \A id \in DOMAIN Builtin : data[id] = Missing \/ IsRows(data[id])
  /\ \A i \in DOMAIN fetched : IsRows(fetched[i].rows)
  /\ \A u \in Updater : Carries(updater[u])

\* Some rows are rows.
LEMMA FewerRows ==
  ASSUME NEW rows, IsRows(rows), NEW n \in 0 .. Len(rows)
  PROVE  IsRows(SubSeq(rows, 1, n))
<1> DEFINE part == SubSeq(rows, 1, n)
<1>1. /\ Len(rows) \in Nat /\ DOMAIN rows = 1 .. Len(rows)
      /\ rows \in Seq(Range(rows))
  BY DEF IsRows
<1>2. DOMAIN part = 1 .. n /\ \A i \in 1 .. n : part[i] = rows[i]
  BY <1>1
<1> HIDE DEF part
<1>3. part \in [1 .. n -> Range(part)]
  <2>1. part \in Seq(Range(rows))
    BY <1>1 DEF part
  <2>2. part = [i \in 1 .. n |-> part[i]]
    BY <1>2, <2>1
  <2>3. \A i \in 1 .. n : part[i] \in Range(part)
    BY <1>2 DEF Range
  <2>. QED BY <2>2, <2>3
<1>4. part \in Seq(Range(part))
  BY <1>3, IsASeq
<1>5. Range(part) \subseteq Range(rows)
  BY <1>1, <1>2 DEF Range
<1>6. {row.token : row \in Range(part) \ {None}} \subseteq {row.token : row \in Range(rows) \ {None}}
  BY <1>5
<1>. QED BY <1>4, <1>6 DEF IsRows, AddressesAreIps, part

\* What a server's answer leaves is rows.
LEMMA FetchedRows ==
  ASSUME NEW id \in DOMAIN Builtin, NEW answer \in Answers[id],
         fetch(Builtin[id], answer).err = None
  PROVE  IsRows(fetch(Builtin[id], answer).rows)
<1>1. answer.status = "ok" /\ fetch(Builtin[id], answer).rows = answer.rows
  BY IntelCacheAssumption DEF fetch
<1>. QED BY <1>1, IntelCacheAssumption

\* The rest of a list.
LEMMA TailOf ==
  ASSUME NEW s, IsSeq(s), s # <<>>
  PROVE  /\ 1 \in DOMAIN s /\ Head(s) = s[1] /\ IsSeq(Tail(s))
         /\ \A i \in DOMAIN Tail(s) : i + 1 \in DOMAIN s /\ Tail(s)[i] = s[i + 1]
<1>1. PICK T : s \in Seq(T)
  BY DEF IsSeq
<1>2. Tail(s) \in Seq(T) /\ Head(s) = s[1] /\ Len(s) \in Nat \ {0} /\ DOMAIN s = 1 .. Len(s)
  BY <1>1
<1>3. /\ DOMAIN Tail(s) = 1 .. Len(s) - 1
      /\ \A i \in 1 .. Len(s) - 1 : Tail(s)[i] = s[i + 1]
  BY <1>1
<1>4. \A i \in 1 .. Len(s) - 1 : i + 1 \in 1 .. Len(s)
  BY <1>2
<1>. QED BY <1>2, <1>3, <1>4 DEF IsSeq

LEMMA TailKnown ==
  ASSUME NEW todo, KnownFeeds(todo), todo # <<>>
  PROVE  Head(todo) \in DOMAIN Builtin /\ KnownFeeds(Tail(todo))
  BY TailOf DEF KnownFeeds

LEMMA SelectedKnown ==
  ASSUME NEW only \in Requests, Known(only)
  PROVE  KnownFeeds(selected(only))
<1>1. IsSeq(selected(only))
  <2>1. IsSeq(BuiltinOrder)
    <3>1. BuiltinOrder \in Seq({"feodo", "sslbl", "urlhaus"})
      BY DEF BuiltinOrder
    <3>. QED BY <3>1 DEF IsSeq
  <2>2. only # None => IsSeq(only)
    BY IntelCacheAssumption DEF IsSeq
  <2>. QED BY <2>1, <2>2 DEF selected
<1>2. \A i \in DOMAIN selected(only) : selected(only)[i] \in DOMAIN Builtin
  BY DEF Known, ToSet
<1>. QED BY <1>1, <1>2 DEF KnownFeeds

LEMMA InitBodies == Init => Bodies
<1> SUFFICES ASSUME Init PROVE Bodies
  OBVIOUS
<1>1. \A u \in Updater : updater[u] = Idle("none")
  BY DEF Init
<1>2. \A u \in Updater : Carries(updater[u])
  BY <1>1 DEF Carries, Idle
<1>3. \A id \in DOMAIN Builtin : data[id] = Missing
  BY DEF Init
<1>. QED BY <1>2, <1>3 DEF Bodies, Init

\* One process moves on; it may have written a feed, or have one more download.
LEMMA BodiesMove ==
  ASSUME CacheInv, Bodies, NEW u \in Updater, NEW p, Carries(p),
         updater' = [updater EXCEPT ![u] = p],
         data' = data \/ \E id, rows : IsRows(rows) /\ data' = [data EXCEPT ![id] = rows],
         fetched' = fetched
           \/ \E id, rows : IsRows(rows) /\ fetched' = Append(fetched, [id |-> id, rows |-> rows])
  PROVE  Bodies'
<1>1. \A v \in Updater : Carries(updater'[v])
  <2>1. updater' = [v \in Updater |-> IF v = u THEN p ELSE updater[v]]
    BY DEF CacheInv, Shape
  <2>. QED BY <2>1 DEF Bodies
<1>2. \A id \in DOMAIN Builtin : data'[id] = Missing \/ IsRows(data'[id])
  <2>1. CASE data' = data
    BY <2>1 DEF Bodies
  <2>2. ASSUME NEW id, NEW rows, IsRows(rows), data' = [data EXCEPT ![id] = rows]
        PROVE  \A x \in DOMAIN Builtin : data'[x] = Missing \/ IsRows(data'[x])
    <3>1. \A x \in DOMAIN Builtin : data'[x] = IF x = id THEN rows ELSE data[x]
      BY <2>2 DEF CacheInv, Shape
    <3>. QED BY <2>2, <3>1 DEF Bodies
  <2>. QED BY <2>1, <2>2
<1>3. \A i \in DOMAIN fetched' : IsRows(fetched'[i].rows)
  <2>1. CASE fetched' = fetched
    BY <2>1 DEF Bodies
  <2>2. ASSUME NEW id, NEW rows, IsRows(rows),
               fetched' = Append(fetched, [id |-> id, rows |-> rows])
        PROVE  \A i \in DOMAIN fetched' : IsRows(fetched'[i].rows)
    <3> DEFINE one == [id |-> id, rows |-> rows]
    <3>1. one.rows = rows
      OBVIOUS
    <3> HIDE DEF one
    <3>2. /\ Len(fetched) + 1 \in DOMAIN fetched' /\ fetched'[Len(fetched) + 1] = one
          /\ \A i \in DOMAIN fetched : fetched'[i] = fetched[i]
          /\ \A i \in DOMAIN fetched' : i \in DOMAIN fetched \/ i = Len(fetched) + 1
      BY <2>2, Appended DEF one, CacheInv, Shape
    <3>. QED BY <2>2, <3>1, <3>2 DEF Bodies
  <2>. QED BY <2>1, <2>2
<1>. QED BY <1>1, <1>2, <1>3 DEF Bodies

LEMMA UpdateBodies ==
  ASSUME CacheInv, Bodies, NEW u \in Updater, Update(u)
  PROVE  Bodies'
<1> DEFINE b == updater[u]
           id == Head(b.todo)
<1>1. Proc(b) /\ Carries(b)
  BY DEF CacheInv, Shape, Bodies
<1>2. CASE \E exit : /\ updater' = [updater EXCEPT ![u] = Idle(exit)]
                     /\ UNCHANGED <<data, fetched>>
  <2>1. PICK exit : updater' = [updater EXCEPT ![u] = Idle(exit)] /\ UNCHANGED <<data, fetched>>
    BY <1>2
  <2>2. Carries(Idle(exit))
    BY DEF Carries, Idle
  <2>. QED BY <2>1, <2>2, BodiesMove
<1>3. ASSUME NEW only \in Requests, StartUpdate(u, only)
      PROVE  Bodies'
  <2>1. UNCHANGED <<data, fetched>>
    BY <1>3 DEF StartUpdate, files
  <2>2. CASE Known(only) /\ manifest # Torn
    <3> DEFINE p == [at |-> "fetch", todo |-> selected(only), manifest |-> read_manifest,
                     results |-> <<>>]
    <3>1. updater' = [updater EXCEPT ![u] = p]
      BY <1>3, <2>2 DEF StartUpdate
    <3>2. Carries(p)
      BY <2>2, SelectedKnown DEF Carries
    <3> HIDE DEF p
    <3>. QED BY <2>1, <3>1, <3>2, BodiesMove
  <2>3. CASE ~(Known(only) /\ manifest # Torn)
    BY <1>2, <1>3, <2>1, <2>3 DEF StartUpdate
  <2>. QED BY <2>2, <2>3
<1>4. CASE FetchFails(u)
  <2> DEFINE results == Append(b.results, [id |-> id, ok |-> FALSE])
             p == [b EXCEPT !.todo = Tail(b.todo), !.results = results]
  <2>1. /\ UNCHANGED <<data, fetched>> /\ b.at = "fetch" /\ b.todo # <<>>
        /\ updater' = [updater EXCEPT ![u] = p]
    BY <1>4 DEF FetchFails, Fetching, files, history
  <2>2. b = [at |-> b.at, todo |-> b.todo, manifest |-> b.manifest, results |-> b.results]
    BY <1>1, <2>1 DEF Proc, Idle
  <2> HIDE DEF results
  <2>3. p.at = "fetch" /\ p.todo = Tail(b.todo)
    BY <2>1, <2>2
  <2> HIDE DEF p
  <2>4. Carries(p)
    BY <1>1, <2>1, <2>3, TailKnown DEF Carries
  <2>. QED BY <2>1, <2>4, BodiesMove
<1>5. CASE WriteData(u)
  <2>1. /\ b.at = "fetch" /\ b.todo # <<>> /\ fetched' = fetched
    BY <1>5 DEF WriteData, Fetching
  <2>2. id \in DOMAIN Builtin
    BY <1>1, <2>1, TailKnown DEF Carries
  <2>3. PICK answer \in Answers[id] :
          LET got == fetch(Builtin[id], answer) IN
          /\ got.err = None
          /\ \E n \in 0 .. Len(got.rows) : data' = [data EXCEPT ![id] = SubSeq(got.rows, 1, n)]
          /\ updater' = [updater EXCEPT ![u] =
               [at |-> "data", todo |-> b.todo, manifest |-> b.manifest,
                results |-> b.results, rows |-> got.rows]]
    BY <1>5 DEF WriteData
  <2> DEFINE rows == fetch(Builtin[id], answer).rows
             p == [at |-> "data", todo |-> b.todo, manifest |-> b.manifest,
                   results |-> b.results, rows |-> rows]
  <2>4. IsRows(rows)
    BY <2>2, <2>3, FetchedRows
  <2>5. PICK n \in 0 .. Len(rows) : data' = [data EXCEPT ![id] = SubSeq(rows, 1, n)]
    BY <2>3
  <2>6. updater' = [updater EXCEPT ![u] = p]
    BY <2>3
  <2> HIDE DEF rows
  <2>7. IsRows(SubSeq(rows, 1, n))
    BY <2>4, FewerRows
  <2>8. Carries(p)
    BY <1>1, <2>1, <2>4 DEF Carries
  <2> HIDE DEF p
  <2>. QED BY <2>1, <2>5, <2>6, <2>7, <2>8, BodiesMove
<1>6. CASE DataWritten(u)
  <2>1. PICK p : /\ b.at = "data"
                 /\ data' = [data EXCEPT ![id] = b.rows]
                 /\ updater' = [updater EXCEPT ![u] = p]
                 /\ p.at = "fetch" /\ p.todo = Tail(b.todo)
                 /\ fetched' = Append(fetched, [id |-> id, rows |-> b.rows])
    BY <1>6 DEF DataWritten
  <2>2. IsRows(b.rows) /\ KnownFeeds(b.todo)
    BY <1>1, <2>1 DEF Carries
  <2>3. Carries(p)
    <3>1. KnownFeeds(Tail(b.todo))
      BY <1>1, <2>1, TailKnown DEF Carries
    <3>. QED BY <2>1, <3>1 DEF Carries
  <2>. QED BY <2>1, <2>2, <2>3, BodiesMove
<1>7. CASE WriteManifest(u)
  <2> DEFINE p == [b EXCEPT !.at = "manifest"]
  <2>1. /\ UNCHANGED <<data, fetched>> /\ b.at = "fetch"
        /\ updater' = [updater EXCEPT ![u] = p]
    BY <1>7 DEF WriteManifest, history
  <2>2. b = [at |-> b.at, todo |-> b.todo, manifest |-> b.manifest, results |-> b.results]
    BY <1>1, <2>1 DEF Proc, Idle
  <2>3. p.at = "manifest" /\ p.todo = b.todo
    BY <2>1, <2>2
  <2> HIDE DEF p
  <2>4. Carries(p)
    BY <1>1, <2>1, <2>3 DEF Carries
  <2>. QED BY <2>1, <2>4, BodiesMove
<1>8. CASE ManifestWritten(u)
  BY <1>2, <1>8 DEF ManifestWritten
<1>9. CASE UpdateDies(u)
  BY <1>2, <1>9 DEF UpdateDies, files, history
<1>. QED BY <1>3, <1>4, <1>5, <1>6, <1>7, <1>8, <1>9 DEF Update

\* The analysis at every point: what it has still to read describes the files,
\* and what it has read is the set's, as far as it can be told.
Well(a) ==
  /\ a = [at |-> a.at, todo |-> a.todo, set |-> a.set, doubted |-> a.doubted]
  /\ a.at \in {"idle", "load", "live", "ready", "failed"}
  /\ a.at \in {"load", "live"} => IsSeq(a.todo)
  /\ a.at \in {"load", "live", "ready"} => Form(a.set)
  /\ a.at = "live" => KnownFeeds(a.todo)

Doubtless(set, doubted) == \A i \in DOMAIN set.manifest : set.manifest[i].source \notin doubted

Loaded(a, doubt, d, f) ==
  /\ a.at = "load" => doubt \subseteq a.doubted /\ AllDescribe(a.todo, a.doubted, d, f)
  /\ a.at \in {"load", "live"} /\ HasRoom(a.set) /\ Doubtless(a.set, a.doubted) =>
       Vouches(a.set, f)
  /\ a.at = "ready" /\ HasRoom(a.set) /\ Doubtless(a.set, a.doubted) => Matches(a.set, f)

Analysis == Well(analyst) /\ (~overlapped => Loaded(analyst, in_doubt, data, fetched))

LEMMA VouchesStay ==
  ASSUME NEW set, Form(set), NEW f, NEW longer,
         \A i \in DOMAIN f : i \in DOMAIN longer /\ longer[i] = f[i]
  PROVE  /\ Vouches(set, f) => Vouches(set, longer)
         /\ Matches(set, f) => Matches(set, longer)
<1>1. IsSeq(set.manifest)
  BY DEF Form
<1>2. ASSUME Sourced(set, f)
      PROVE  /\ Sourced(set, longer)
             /\ \A x : Listing(set, longer, x) = Listing(set, f, x)
             /\ \A x : Listing(set, f, x) # {} =>
                         Attribution(set, longer, x) = Attribution(set, f, x)
  BY <1>1, <1>2, ListingStays
<1>3. Vouches(set, f) => Vouches(set, longer)
  BY <1>2 DEF Vouches
<1>4. Matches(set, f) => Matches(set, longer)
  BY <1>2, Zenon DEF Matches
<1>. QED BY <1>3, <1>4

LEMMA InitAnalysis == Init => Analysis
<1> SUFFICES ASSUME Init PROVE Analysis
  OBVIOUS
<1>1. analyst = [at |-> "idle", todo |-> <<>>, set |-> EmptySet, doubted |-> {}]
  BY DEF Init
<1>. QED BY <1>1 DEF Analysis, Well, Loaded

\* What an update does that the analysis can see: other rows in feeds it then
\* doubts, more doubt, more downloads.
Seen ==
  /\ \E more : /\ analyst' = [analyst EXCEPT !.doubted = more]
               /\ analyst.doubted \subseteq more
               /\ in_doubt' \subseteq in_doubt \cup more
               /\ ~overlapped =>
                    \A id \in DOMAIN Builtin \ (in_doubt \cup more) : data'[id] = data[id]
  /\ \A i \in DOMAIN fetched : i \in DOMAIN fetched' /\ fetched'[i] = fetched[i]
  /\ overlapped => overlapped'

LEMMA UpdateSeen ==
  ASSUME CacheInv, Well(analyst), NEW u \in Updater, Update(u)
  PROVE  Seen
<1> DEFINE b == updater[u]
           id == Head(b.todo)
<1>1. /\ analyst = [analyst EXCEPT !.doubted = analyst.doubted]
      /\ data = [x \in DOMAIN Builtin |-> data[x]] /\ IsSeq(fetched)
  BY DEF CacheInv, Shape, Well
<1>2. CASE /\ UNCHANGED <<data, analyst, fetched>>
           /\ in_doubt' \subseteq in_doubt /\ (overlapped => overlapped')
  BY <1>1, <1>2 DEF Seen
<1>3. ASSUME NEW only \in Requests, StartUpdate(u, only)
      PROVE  Seen
  BY <1>2, <1>3 DEF StartUpdate, files
<1>4. CASE FetchFails(u)
  BY <1>2, <1>4 DEF FetchFails, files, history
<1>5. CASE WriteData(u)
  <2>1. /\ analyst' = [analyst EXCEPT !.doubted = analyst.doubted \cup {id}]
        /\ in_doubt' = in_doubt \cup {id} /\ UNCHANGED <<fetched, overlapped>>
        /\ \E some : data' = [data EXCEPT ![id] = some]
    BY <1>5 DEF WriteData
  <2>2. \A x \in DOMAIN Builtin \ {id} : data'[x] = data[x]
    BY <1>1, <2>1
  <2> DEFINE more == analyst.doubted \cup {id}
  <2>3. analyst' = [analyst EXCEPT !.doubted = more] /\ id \in more /\ analyst.doubted \subseteq more
    BY <2>1
  <2> HIDE DEF more, id
  <2>. QED BY <2>1, <2>2, <2>3 DEF Seen
<1>6. CASE DataWritten(u)
  <2>1. /\ b.at = "data" /\ UNCHANGED <<analyst, in_doubt, overlapped>>
        /\ data' = [data EXCEPT ![id] = b.rows]
        /\ \E x : fetched' = Append(fetched, x)
    BY <1>6 DEF DataWritten
  <2>2. ~overlapped => id \in in_doubt
    BY <2>1, AtWork
  <2>3. \A x \in DOMAIN Builtin \ {id} : data'[x] = data[x]
    BY <1>1, <2>1
  <2>4. \A i \in DOMAIN fetched : i \in DOMAIN fetched' /\ fetched'[i] = fetched[i]
    BY <1>1, <2>1, Appended
  <2> HIDE DEF id
  <2>. QED BY <1>1, <2>1, <2>2, <2>3, <2>4 DEF Seen
<1>7. CASE WriteManifest(u)
  BY <1>2, <1>7 DEF WriteManifest, history
<1>8. CASE ManifestWritten(u)
  BY <1>2, <1>8 DEF ManifestWritten
<1>9. CASE UpdateDies(u)
  BY <1>2, <1>9 DEF UpdateDies, files, history
<1>. QED BY <1>3, <1>4, <1>5, <1>6, <1>7, <1>8, <1>9 DEF Update

LEMMA SeenAnalysis ==
  ASSUME Analysis, Seen
  PROVE  Analysis'
<1>1. PICK more : /\ analyst' = [analyst EXCEPT !.doubted = more]
                  /\ analyst.doubted \subseteq more
                  /\ in_doubt' \subseteq in_doubt \cup more
                  /\ ~overlapped =>
                       \A id \in DOMAIN Builtin \ (in_doubt \cup more) : data'[id] = data[id]
  BY DEF Seen
<1>2. /\ \A i \in DOMAIN fetched : i \in DOMAIN fetched' /\ fetched'[i] = fetched[i]
      /\ overlapped => overlapped'
  BY DEF Seen
<1> DEFINE a == analyst
<1>3. Well(a)
  BY DEF Analysis
<1>4. /\ analyst' = [at |-> a.at, todo |-> a.todo, set |-> a.set, doubted |-> more]
  BY <1>1, <1>3 DEF Well
<1>5. Well(analyst')
  BY <1>3, <1>4 DEF Well
<1>6. ASSUME ~overlapped
      PROVE  Loaded(analyst', in_doubt', data', fetched')
  <2>1. Loaded(a, in_doubt, data, fetched)
    BY <1>6 DEF Analysis
  <2>2. /\ analyst'.at = a.at /\ analyst'.todo = a.todo /\ analyst'.set = a.set
        /\ analyst'.doubted = more
    BY <1>4
  <2> HIDE DEF a
  <2>3. Doubtless(a.set, more) => Doubtless(a.set, a.doubted)
    BY <1>1 DEF Doubtless, a
  <2>4. a.at = "load" =>
          in_doubt' \subseteq more /\ AllDescribe(a.todo, more, data', fetched')
    <3> SUFFICES ASSUME a.at = "load"
                 PROVE  in_doubt' \subseteq more /\ AllDescribe(a.todo, more, data', fetched')
      OBVIOUS
    <3>1. in_doubt \subseteq a.doubted /\ AllDescribe(a.todo, a.doubted, data, fetched)
      BY <2>1 DEF Loaded
    <3>2. in_doubt \subseteq more /\ a.doubted \subseteq more
      BY <1>1, <3>1 DEF a
    <3>3. \A id \in DOMAIN Builtin \ more : data'[id] = data[id]
      BY <1>1, <1>6, <3>2
    <3>. QED BY <1>1, <1>2, <3>1, <3>2, <3>3, StillDescribe
  <2>5. a.at \in {"load", "live"} /\ HasRoom(a.set) /\ Doubtless(a.set, more) =>
          Vouches(a.set, fetched')
    BY <1>2, <1>3, <2>1, <2>3, VouchesStay DEF Loaded, Well
  <2>6. a.at = "ready" /\ HasRoom(a.set) /\ Doubtless(a.set, more) => Matches(a.set, fetched')
    BY <1>2, <1>3, <2>1, <2>3, VouchesStay DEF Loaded, Well
  <2>. QED BY <2>2, <2>4, <2>5, <2>6 DEF Loaded
<1>. QED BY <1>2, <1>5, <1>6 DEF Analysis

\* One feed more, by a set that can be told: it still can if the feed is not in
\* doubt, and is a download.
LEMMA ContributeKeeps ==
  ASSUME NEW set, Form(set), NEW id \in DOMAIN Builtin, NEW f, NEW at, NEW rows, IsRows(rows),
         NEW doubted, HasRoom(set) /\ Doubtless(set, doubted) => Vouches(set, f),
         id \notin doubted => at \in DOMAIN f /\ f[at].rows = rows,
         NEW new, new = Contribute(set, id, rows, at)
  PROVE  Form(new) /\ (HasRoom(new) /\ Doubtless(new, doubted) => Vouches(new, f))
<1>1. /\ Form(new) /\ Indicators(set) <= Indicators(new)
      /\ \E e : e.source = id /\ new.manifest = Append(set.manifest, e)
      /\ HasRoom(new) /\ Vouches(set, f) /\ at \in DOMAIN f /\ f[at].rows = rows =>
           Vouches(new, f)
  <2> DEFINE made == Contribute(set, id, rows, at)
  <2>1. /\ Form(made) /\ Indicators(set) <= Indicators(made)
        /\ \E e : e.source = id /\ made.manifest = Append(set.manifest, e)
        /\ HasRoom(made) /\ Vouches(set, f) /\ at \in DOMAIN f /\ f[at].rows = rows =>
             Vouches(made, f)
    BY ContributeVouches
  <2>2. new = made
    OBVIOUS
  <2> HIDE DEF made
  <2>. QED BY <2>1, <2>2
<1>2. HasRoom(new) => HasRoom(set)
  <2>1. Indicators(set) \in Nat /\ Indicators(new) \in Nat /\ MaxIndicators \in Nat
    BY <1>1, FormCounts, IocSetAssumption
  <2>. QED BY <1>1, <2>1 DEF HasRoom
<1>3. Doubtless(new, doubted) => id \notin doubted /\ Doubtless(set, doubted)
  <2>1. PICK e : e.source = id /\ new.manifest = Append(set.manifest, e)
    BY <1>1
  <2>2. IsSeq(set.manifest)
    BY DEF Form
  <2>3. /\ Len(set.manifest) + 1 \in DOMAIN new.manifest
        /\ new.manifest[Len(set.manifest) + 1] = e
        /\ \A i \in DOMAIN set.manifest :
             i \in DOMAIN new.manifest /\ new.manifest[i] = set.manifest[i]
    BY <2>1, <2>2, Appended
  <2>. QED BY <2>1, <2>3, Zenon DEF Doubtless
<1>. QED BY <1>1, <1>2, <1>3

LEMMA StartLoadKeeps ==
  ASSUME CacheInv, Analysis, StartLoad
  PROVE  Analysis'
<1>1. UNCHANGED <<data, fetched, in_doubt, overlapped>>
  BY DEF StartLoad, files, history
<1>2. CASE manifest = Torn
  <2>1. analyst' = [analyst EXCEPT !.at = "failed"]
    BY <1>2 DEF StartLoad
  <2>2. Well(analyst') /\ analyst'.at = "failed"
    BY <2>1 DEF Analysis, Well
  <2>. QED BY <1>1, <2>2 DEF Analysis, Loaded
<1>3. CASE manifest # Torn
  <2> DEFINE a == [at |-> "load", todo |-> read_manifest, set |-> EmptySet,
                   doubted |-> in_doubt]
  <2>1. analyst' = a
    BY <1>3 DEF StartLoad
  <2>2. IsSeq(read_manifest)
    <3>1. IsSeq(<<>>)
      BY DEF IsSeq
    <3>. QED BY <1>3, <3>1 DEF CacheInv, Shape, Legible, read_manifest
  <2>3. Well(a)
    BY <2>2, EmptyForm DEF Well
  <2>4. ~overlapped => AllDescribe(read_manifest, in_doubt, data, fetched)
    BY <1>3 DEF CacheInv, Truthful, Legible, read_manifest, AllDescribe
  <2>5. ~overlapped => Loaded(a, in_doubt, data, fetched)
    BY <2>4, EmptyVouches DEF Loaded
  <2>. QED BY <1>1, <2>1, <2>3, <2>5 DEF Analysis
<1>. QED BY <1>2, <1>3

LEMMA LoadFeedKeeps ==
  ASSUME Bodies, Analysis, LoadFeed
  PROVE  Analysis'
<1> DEFINE a == analyst
           cached == Head(a.todo)
           present == cached.id \in DOMAIN Builtin /\ data[cached.id] # Missing
           set == IF present THEN Contribute(a.set, cached.id, data[cached.id], cached.fetched_at)
                  ELSE a.set
<1>1. /\ UNCHANGED <<data, fetched, in_doubt, overlapped>>
      /\ a.at = "load" /\ a.todo # <<>>
      /\ analyst' = [analyst EXCEPT !.todo = Tail(a.todo), !.set = set]
  BY DEF LoadFeed, files, history
<1>2. Well(a)
  BY DEF Analysis
<1>3. analyst' = [at |-> "load", todo |-> Tail(a.todo), set |-> set, doubted |-> a.doubted]
  <2> HIDE DEF set
  <2>. QED BY <1>1, <1>2 DEF Well
<1>4. IsSeq(a.todo) /\ Form(a.set)
  BY <1>1, <1>2 DEF Well
<1>5. /\ 1 \in DOMAIN a.todo /\ cached = a.todo[1] /\ IsSeq(Tail(a.todo))
      /\ \A i \in DOMAIN Tail(a.todo) : i + 1 \in DOMAIN a.todo /\ Tail(a.todo)[i] = a.todo[i + 1]
  BY <1>1, <1>4, TailOf
<1>6. CASE ~present
  <2>1. set = a.set
    BY <1>6
  <2> HIDE DEF set
  <2>2. Well(analyst')
    BY <1>3, <1>4, <1>5, <2>1 DEF Well
  <2>3. ASSUME ~overlapped
        PROVE  Loaded(analyst', in_doubt, data, fetched)
    <3>1. Loaded(a, in_doubt, data, fetched)
      BY <2>3 DEF Analysis
    <3>2. AllDescribe(Tail(a.todo), a.doubted, data, fetched) /\ in_doubt \subseteq a.doubted
      BY <1>1, <1>5, <3>1 DEF Loaded, AllDescribe
    <3>. QED BY <1>1, <1>3, <2>1, <3>1, <3>2 DEF Loaded
  <2>. QED BY <1>1, <2>2, <2>3 DEF Analysis
<1>7. CASE present
  <2>1. set = Contribute(a.set, cached.id, data[cached.id], cached.fetched_at)
    BY <1>7
  <2>2. cached.id \in DOMAIN Builtin /\ IsRows(data[cached.id])
    BY <1>7 DEF Bodies
  <2> HIDE DEF set, cached
  <2>3. Form(set)
    BY <1>4, <2>1, <2>2, ContributeVouches
  <2>4. Well(analyst')
    BY <1>3, <1>5, <2>3 DEF Well
  <2>5. ASSUME ~overlapped
        PROVE  Loaded(analyst', in_doubt, data, fetched)
    <3>1. Loaded(a, in_doubt, data, fetched)
      BY <2>5 DEF Analysis
    <3>2. AllDescribe(Tail(a.todo), a.doubted, data, fetched) /\ in_doubt \subseteq a.doubted
      BY <1>1, <1>5, <3>1 DEF Loaded, AllDescribe
    <3>3. Describes(cached, a.doubted, data, fetched)
      BY <1>1, <1>5, <3>1 DEF Loaded, AllDescribe
    <3>4. HasRoom(a.set) /\ Doubtless(a.set, a.doubted) => Vouches(a.set, fetched)
      BY <1>1, <3>1 DEF Loaded
    <3>5. cached.id \notin a.doubted =>
            /\ cached.fetched_at \in DOMAIN fetched
            /\ fetched[cached.fetched_at].rows = data[cached.id]
      BY <2>2, <3>3 DEF Describes
    <3>6. HasRoom(set) /\ Doubtless(set, a.doubted) => Vouches(set, fetched)
      BY <1>4, <2>1, <2>2, <3>4, <3>5, ContributeKeeps
    <3>. QED BY <1>3, <3>2, <3>6 DEF Loaded
  <2>. QED BY <1>1, <2>4, <2>5 DEF Analysis
<1>. QED BY <1>6, <1>7

LEMMA StartLiveKeeps ==
  ASSUME Analysis, NEW only \in Requests, StartLive(only)
  PROVE  Analysis'
<1>1. UNCHANGED <<data, fetched, in_doubt, overlapped>>
  BY DEF StartLive, files, history
<1>2. CASE ~Known(only)
  <2>1. analyst' = [analyst EXCEPT !.at = "failed"]
    BY <1>2 DEF StartLive
  <2>2. Well(analyst') /\ analyst'.at = "failed"
    BY <2>1 DEF Analysis, Well
  <2>. QED BY <1>1, <2>2 DEF Analysis, Loaded
<1>3. CASE Known(only)
  <2> DEFINE a == [at |-> "live", todo |-> selected(only), set |-> EmptySet, doubted |-> {}]
  <2>1. analyst' = a
    BY <1>3 DEF StartLive
  <2>2. KnownFeeds(selected(only))
    BY <1>3, SelectedKnown
  <2>3. Well(a)
    BY <2>2, EmptyForm DEF Well, KnownFeeds
  <2>4. Loaded(a, in_doubt, data, fetched)
    BY EmptyVouches DEF Loaded
  <2>. QED BY <1>1, <2>1, <2>3, <2>4 DEF Analysis
<1>. QED BY <1>2, <1>3

LEMMA LiveFeedKeeps ==
  ASSUME CacheInv, Bodies, Analysis, LiveFeed
  PROVE  Analysis' /\ Bodies'
<1> DEFINE a == analyst
           id == Head(a.todo)
<1>1. /\ UNCHANGED <<data, updater, in_doubt, overlapped>>
      /\ a.at = "live" /\ a.todo # <<>>
  BY DEF LiveFeed, files
<1>2. /\ Well(a)
      /\ a = [at |-> a.at, todo |-> a.todo, set |-> a.set, doubted |-> a.doubted]
  BY DEF Analysis, Well
<1>3. /\ Form(a.set) /\ id \in DOMAIN Builtin /\ KnownFeeds(Tail(a.todo)) /\ IsSeq(Tail(a.todo))
  BY <1>1, <1>2, TailKnown DEF Well, KnownFeeds
<1>4. ~overlapped /\ HasRoom(a.set) /\ Doubtless(a.set, a.doubted) => Vouches(a.set, fetched)
  BY <1>1 DEF Analysis, Loaded
<1>5. PICK answer \in Answers[id] :
        LET got == fetch(Builtin[id], answer) IN
        IF got.err = None
        THEN /\ analyst' = [analyst EXCEPT !.todo = Tail(@),
                              !.set = Contribute(@, id, got.rows, Now)]
             /\ fetched' = Append(fetched, [id |-> id, rows |-> got.rows])
        ELSE /\ analyst' = [analyst EXCEPT !.todo = Tail(@)]
             /\ UNCHANGED fetched
  BY DEF LiveFeed
<1> DEFINE rows == fetch(Builtin[id], answer).rows
           one == [id |-> id, rows |-> rows]
           new == Contribute(a.set, id, rows, Now)
<1>6. CASE fetch(Builtin[id], answer).err = None
  <2>1. IsRows(rows)
    BY <1>3, <1>6, FetchedRows
  <2>2. /\ analyst' = [analyst EXCEPT !.todo = Tail(a.todo), !.set = new]
        /\ fetched' = Append(fetched, one)
    BY <1>5, <1>6
  <2>3. one.rows = rows
    OBVIOUS
  <2>4. new = Contribute(a.set, id, rows, Now)
    OBVIOUS
  <2> HIDE DEF new, rows, one, id
  <2>5. analyst' = [at |-> "live", todo |-> Tail(a.todo), set |-> new, doubted |-> a.doubted]
    BY <1>1, <1>2, <2>2
  <2>6. /\ Now \in DOMAIN fetched' /\ fetched'[Now] = one
        /\ \A i \in DOMAIN fetched : i \in DOMAIN fetched' /\ fetched'[i] = fetched[i]
        /\ \A i \in DOMAIN fetched' : i \in DOMAIN fetched \/ i = Now
    BY <2>2, Appended DEF CacheInv, Shape, Now
  <2> HIDE DEF a
  <2>7. ~overlapped /\ HasRoom(a.set) /\ Doubtless(a.set, a.doubted) => Vouches(a.set, fetched')
    BY <1>3, <1>4, <2>6, VouchesStay
  <2>8. Form(new)
    BY <1>3, <2>1, <2>4, ContributeVouches
  <2>9. ASSUME ~overlapped
        PROVE  HasRoom(new) /\ Doubtless(new, a.doubted) => Vouches(new, fetched')
    <3>1. HasRoom(a.set) /\ Doubtless(a.set, a.doubted) => Vouches(a.set, fetched')
      BY <2>7, <2>9
    <3>2. id \notin a.doubted => Now \in DOMAIN fetched' /\ fetched'[Now].rows = rows
      BY <2>3, <2>6
    <3> DEFINE f == fetched'
               at == Now
    <3>3. /\ HasRoom(a.set) /\ Doubtless(a.set, a.doubted) => Vouches(a.set, f)
          /\ id \notin a.doubted => at \in DOMAIN f /\ f[at].rows = rows
          /\ new = Contribute(a.set, id, rows, at)
      BY <2>4, <3>1, <3>2
    <3> HIDE DEF f, at
    <3>4. HasRoom(new) /\ Doubtless(new, a.doubted) => Vouches(new, f)
      BY <1>3, <2>1, <3>3, ContributeKeeps
    <3>. QED BY <3>4 DEF f
  <2>10. Well(analyst')
    BY <1>3, <2>5, <2>8 DEF Well
  <2>11. ~overlapped => Loaded(analyst', in_doubt', data', fetched')
    BY <2>5, <2>9 DEF Loaded
  <2>12. Bodies'
    BY <1>1, <2>1, <2>3, <2>6 DEF Bodies
  <2>. QED BY <1>1, <2>10, <2>11, <2>12 DEF Analysis
<1>7. CASE fetch(Builtin[id], answer).err # None
  <2>1. analyst' = [analyst EXCEPT !.todo = Tail(a.todo)] /\ UNCHANGED fetched
    BY <1>5, <1>7
  <2>2. analyst' = [at |-> "live", todo |-> Tail(a.todo), set |-> a.set, doubted |-> a.doubted]
    BY <1>1, <1>2, <2>1
  <2> HIDE DEF a
  <2>3. Well(analyst')
    BY <1>3, <2>2 DEF Well
  <2>4. ~overlapped => Loaded(analyst', in_doubt', data', fetched')
    BY <1>4, <2>1, <2>2 DEF Loaded
  <2>5. Bodies'
    BY <1>1, <2>1 DEF Bodies
  <2>. QED BY <1>1, <2>3, <2>4, <2>5 DEF Analysis
<1>. QED BY <1>6, <1>7

LEMMA CombineKeeps ==
  ASSUME Analysis, Combine
  PROVE  Analysis'
<1> DEFINE a == analyst
           own == extend(EmptySet, parse_iocs(List).set)
           both == extend(own, a.set)
<1>1. /\ UNCHANGED <<data, fetched, in_doubt, overlapped>>
      /\ a.at \in {"load", "live"}
      /\ analyst' = [analyst EXCEPT !.at = "ready", !.set = both]
  BY DEF Combine, files, history
<1>2. /\ a = [at |-> a.at, todo |-> a.todo, set |-> a.set, doubted |-> a.doubted]
      /\ Form(a.set)
  BY <1>1 DEF Analysis, Well
<1>3. /\ Form(both) /\ both.manifest = a.set.manifest
      /\ HasRoom(both) => HasRoom(a.set)
      /\ HasRoom(both) /\ Vouches(a.set, fetched) => Matches(both, fetched)
  BY <1>2, CombineMatches
<1> HIDE DEF both
<1>4. analyst' = [at |-> "ready", todo |-> a.todo, set |-> both, doubted |-> a.doubted]
  BY <1>1, <1>2
<1>5. Doubtless(both, a.doubted) => Doubtless(a.set, a.doubted)
  BY <1>3 DEF Doubtless
<1>6. ~overlapped /\ HasRoom(a.set) /\ Doubtless(a.set, a.doubted) => Vouches(a.set, fetched)
  BY <1>1 DEF Analysis, Loaded
<1> HIDE DEF a
<1>7. Well(analyst')
  BY <1>3, <1>4 DEF Well
<1>8. ~overlapped => Loaded(analyst', in_doubt, data, fetched)
  BY <1>3, <1>4, <1>5, <1>6 DEF Loaded
<1>. QED BY <1>1, <1>7, <1>8 DEF Analysis

\* What is known of files, updates and the analysis together.
FeedInv == CacheInv /\ Bodies /\ Analysis

LEMMA NextFeed == FeedInv /\ [Next]_vars => FeedInv'
<1> SUFFICES ASSUME FeedInv, [Next]_vars
             PROVE  Bodies' /\ Analysis'
  BY NextCache DEF FeedInv
<1> USE DEF FeedInv
<1>1. CASE UNCHANGED vars
  BY <1>1 DEF vars, files, history, Bodies, Analysis
<1>2. ASSUME NEW u \in Updater, Update(u)
      PROVE  Bodies' /\ Analysis'
  BY <1>2, UpdateBodies, UpdateSeen, SeenAnalysis DEF Analysis
<1>3. ASSUME UNCHANGED <<data, fetched, updater>>
      PROVE  Bodies'
  BY <1>3 DEF Bodies
<1>4. CASE StartLoad
  BY <1>3, <1>4, StartLoadKeeps DEF StartLoad, files, history
<1>5. CASE LoadFeed
  BY <1>3, <1>5, LoadFeedKeeps DEF LoadFeed, files, history
<1>6. ASSUME NEW only \in Requests, StartLive(only)
      PROVE  Bodies' /\ Analysis'
  BY <1>3, <1>6, StartLiveKeeps DEF StartLive, files, history
<1>7. CASE LiveFeed
  BY <1>7, LiveFeedKeeps
<1>8. CASE Combine
  BY <1>3, <1>8, CombineKeeps DEF Combine, files, history
<1>9. CASE LoadFails
  <2>1. /\ UNCHANGED <<data, updater, fetched, in_doubt, overlapped>>
        /\ analyst' = [analyst EXCEPT !.at = "failed"]
    BY <1>9 DEF LoadFails, files, history
  <2>2. Well(analyst') /\ analyst'.at = "failed"
    BY <2>1 DEF Analysis, Well
  <2>. QED BY <1>3, <2>1, <2>2 DEF Analysis, Loaded
<1>. QED BY <1>1, <1>2, <1>4, <1>5, <1>6, <1>7, <1>8, <1>9 DEF Next, Load

LEMMA FeedMatches == FeedInv => MatchNamesItsFeed
<1> SUFFICES ASSUME FeedInv, analyst.at = "ready", ~overlapped,
                    Indicators(analyst.set) < MaxIndicators,
                    {s.source : s \in ToSet(analyst.set.manifest)} \cap analyst.doubted = {},
                    NEW x \in DOMAIN Bits,
                    \/ \E i \in DOMAIN List : List[i] # None /\ List[i].kind = "ip"
                                              /\ List[i].value = x
                    \/ \E s \in ToSet(analyst.set.manifest) :
                         \E i \in RowsWith(fetched[s.fetched_at].rows, x) :
                           fetched[s.fetched_at].rows[i].token.kind = "ip"
             PROVE  match_ip(analyst.set, x) = [indicator |-> x, meta |-> Vouched(x)]
  BY DEF MatchNamesItsFeed
<1> DEFINE set == analyst.set
           listing == Listing(set, fetched, x)
<1>1. Loaded(analyst, in_doubt, data, fetched)
  BY DEF FeedInv, Analysis
<1>2. Doubtless(set, analyst.doubted)
  BY DEF Doubtless, ToSet
<1>3. Matches(set, fetched)
  BY <1>1, <1>2 DEF Loaded, HasRoom
<1>4. \/ \E i \in DOMAIN List : List[i] # None /\ List[i].kind = "ip" /\ List[i].value = x
      \/ listing # {}
  BY DEF Listing, ToSet
<1>5. Vouched(x) = IF listing = {} THEN Manual ELSE Attribution(set, fetched, x)
  BY DEF Vouched, Listing, Attribution, Manual
<1>. QED BY <1>3, <1>4, <1>5 DEF Matches

\* An address that the list or a feed has by itself is matched as itself, and by
\* the last feed that has it with the label of its row: so it is in every analysis
\* whose set is not full, of cached feeds that no update was rewriting or had left
\* half-way, until two updates overlap.
THEOREM MatchNamesItsFeedHolds == Spec => []MatchNamesItsFeed
<1>1. Init => FeedInv
  BY InitCache, InitBodies, InitAnalysis DEF FeedInv
<1>. QED BY <1>1, NextFeed, FeedMatches, PTL DEF Spec
=============================================================================
