----------------------------- MODULE IntelCache -----------------------------
(***************************************************************************)
(* The feed cache and its two users: `cbna intel update`, which fetches    *)
(* feeds and rewrites the cache, and `cbna analyze --intel`, which reads   *)
(* it, or with --intel-live fetches without it (crates/cbna-intel/src:     *)
(* cache.rs, fetch.rs, lib.rs; crates/cbna/src/main.rs).                   *)
(*                                                                         *)
(* Nothing is locked: several updates and an analysis may run at once, and *)
(* any of them may be killed or fail to read or write at any point.        *)
(* std::fs::write is two steps, since it empties the file first: in        *)
(* between, the file holds part of what it will.  Part of a feed is some   *)
(* of its rows; part of the manifest is no JSON.                           *)
(***************************************************************************)
EXTENDS IocSet

CONSTANTS
  Updater,     \* `cbna intel update` processes
  Requests,    \* what --intel-feed may ask for: None, or ids
  Answers,     \* what the server of a feed may answer
  auth_key,    \* None, or the key
  MaxBytes,    \* MAX_BYTES
  List,        \* the lines of the --ioc file
  NewerCache,  \* a manifest a newer build left
  Missing,     \* no such file
  Torn,        \* a manifest that does not parse
  MaxUpdates,  \* bound: updates started
  MaxFetches   \* bound: downloads that succeed

\* A token is an address when it reads as one.
AddressesAreIps(tokens) ==
  \A token \in tokens : token.value \in DOMAIN Bits <=> token.kind = "ip"

\* What a body is cut into.
IsRows(rows) ==
  rows \in Seq(Range(rows)) /\ AddressesAreIps({row.token : row \in Range(rows) \ {None}})

\* A newer build lists feeds that this one does not know, each once.
ASSUME IntelCacheAssumption ==
  /\ MaxBytes \in Nat /\ MaxUpdates \in Nat /\ MaxFetches \in Nat
  /\ Missing # Torn
  /\ None \notin {"AuthRequired", "Network", "Http", "TooLarge"}
  /\ NewerCache \in Seq(Range(NewerCache))
  /\ \A i, j \in DOMAIN NewerCache : NewerCache[i].id = NewerCache[j].id => i = j
  /\ \A i \in DOMAIN NewerCache : NewerCache[i].id \notin DOMAIN Builtin
  /\ \A only \in Requests \ {None} : only \in Seq(Range(only))
  /\ \A id \in DOMAIN Builtin : \A answer \in Answers[id] :
       answer.status = "ok" => IsRows(answer.rows)
  /\ List \in Seq(Range(List)) /\ AddressesAreIps(Range(List) \ {None})

VARIABLES
  data,       \* per feed: the rows in <id>.data, or Missing
  manifest,   \* manifest.json: entries, Missing or Torn
  updater,    \* per update process: how far it is
  analyst,    \* the analysis: how far it is, and the set it builds
  updates,    \* updates started
  fetched,    \* history: the downloads; the clock is its length
  in_doubt,   \* history: feeds written and not yet recorded
  recorded,   \* history: ids a manifest written to the end has held
  overlapped  \* history: two updates ran at once

files   == <<data, manifest>>
history == <<fetched, in_doubt, recorded, overlapped>>
vars    == <<files, updater, analyst, updates, history>>

Idle(exit) == [at |-> "idle", exit |-> exit]

Ids(entries) == {entries[i].id : i \in DOMAIN entries}

-----------------------------------------------------------------------------
(* Operators.                                                              *)

selected(only) == IF only = None THEN BuiltinOrder ELSE only

Known(only) == ToSet(selected(only)) \subseteq DOMAIN Builtin

\* fetch: a status that is not a success, a transport error (timeouts and a
\* fourth redirect too) and an oversized body are errors.
fetch(feed, answer) ==
  IF feed.needs_auth /\ auth_key = None THEN [err |-> "AuthRequired"]
  ELSE IF answer.status = "lost" THEN [err |-> "Network"]
  ELSE IF answer.status # "ok" THEN [err |-> "Http"]
  ELSE IF MaxBytes < answer.size THEN [err |-> "TooLarge"]
  ELSE [err |-> None, rows |-> answer.rows]

\* In a set of its own.
count_indicators(feed, rows) == parse_into(EmptySet, feed, rows).added

\* Mutant: an update adds an entry and leaves the one there was.
EntryPushed(entries, entry) == Append(entries, entry)

\* Manifest::entry_mut, or a new entry at the end.
Entered(entries, entry) ==
  IF entry.id \in Ids(entries)
  THEN [i \in DOMAIN entries |-> IF entries[i].id = entry.id THEN entry ELSE entries[i]]
  ELSE Append(entries, entry)

\* Mutant: an update starts from an empty manifest.
ReadNothing == <<>>

\* read_manifest, when it parses.
read_manifest == IF manifest = Missing THEN <<>> ELSE manifest

\* The set, with the feed's rows and its line in the sources.
Contribute(set, id, rows, fetched_at) ==
  LET new == parse_into(set, Builtin[id], rows)
  IN  add_source_info(new.set, [source |-> id, fetched_at |-> fetched_at,
                                indicators |-> new.added])

Now == Len(fetched) + 1

-----------------------------------------------------------------------------
(* update, and intel_update around it.                                     *)

\* An unknown id or a manifest that does not parse ends the call.
StartUpdate(u, only) ==
  /\ updater[u].at = "idle" /\ updates < MaxUpdates
  /\ updates' = updates + 1
  /\ updater' = [updater EXCEPT ![u] =
       IF Known(only) /\ manifest # Torn
       THEN [at |-> "fetch", todo |-> selected(only), manifest |-> read_manifest,
             results |-> <<>>]
       ELSE Idle("failed")]
  /\ overlapped' = (overlapped \/ \E v \in Updater \ {u} : updater[v].at # "idle")
  /\ UNCHANGED <<files, analyst, fetched, in_doubt, recorded>>

Fetching(u) == updater[u].at = "fetch" /\ updater[u].todo # <<>>

\* The feed keeps the copy it has.
FetchFails(u) ==
  /\ Fetching(u)
  /\ LET id == Head(updater[u].todo) IN
     \E answer \in Answers[id] :
       /\ fetch(Builtin[id], answer).err # None
       /\ updater' = [updater EXCEPT ![u].todo = Tail(@),
                                     ![u].results = Append(@, [id |-> id, ok |-> FALSE])]
  /\ UNCHANGED <<files, analyst, updates, history>>

\* The feed's file is emptied and holds some of the rows.
WriteData(u) ==
  /\ Fetching(u) /\ Len(fetched) < MaxFetches
  /\ LET id == Head(updater[u].todo) IN
     \E answer \in Answers[id] :
       LET got == fetch(Builtin[id], answer) IN
       /\ got.err = None
       /\ \E n \in 0 .. Len(got.rows) :
            data' = [data EXCEPT ![id] = SubSeq(got.rows, 1, n)]
       /\ updater' = [updater EXCEPT ![u] =
            [at |-> "data", todo |-> @.todo, manifest |-> @.manifest,
             results |-> @.results, rows |-> got.rows]]
       /\ in_doubt' = in_doubt \cup {id}
       /\ analyst' = [analyst EXCEPT !.doubted = @ \cup {id}]
  /\ UNCHANGED <<manifest, updates, fetched, recorded, overlapped>>

\* The file is whole, and the entry is made of it.
DataWritten(u) ==
  /\ updater[u].at = "data"
  /\ LET id == Head(updater[u].todo)
         rows == updater[u].rows
         entry == [id |-> id, fetched_at |-> Now,
                   indicators |-> count_indicators(Builtin[id], rows)]
     IN  /\ data' = [data EXCEPT ![id] = rows]
         /\ updater' = [updater EXCEPT ![u] =
              [at |-> "fetch", todo |-> Tail(@.todo),
               manifest |-> Entered(@.manifest, entry),
               results |-> Append(@.results, [id |-> id, ok |-> TRUE])]]
         /\ fetched' = Append(fetched, [id |-> id, rows |-> rows])
  /\ UNCHANGED <<manifest, analyst, updates, in_doubt, recorded, overlapped>>

WriteManifest(u) ==
  /\ updater[u].at = "fetch" /\ updater[u].todo = <<>>
  /\ manifest' = Torn
  /\ updater' = [updater EXCEPT ![u].at = "manifest"]
  /\ UNCHANGED <<data, analyst, updates, history>>

\* The exit code tells whether every feed failed.
ManifestWritten(u) ==
  /\ updater[u].at = "manifest"
  /\ LET refreshed == {r.id : r \in {x \in Range(updater[u].results) : x.ok}} IN
     /\ manifest' = updater[u].manifest
     /\ updater' = [updater EXCEPT ![u] = Idle(IF refreshed = {} THEN "failed" ELSE "ok")]
     /\ in_doubt' = in_doubt \ refreshed
     /\ recorded' = recorded \cup Ids(updater[u].manifest)
  /\ UNCHANGED <<data, analyst, updates, fetched, overlapped>>

\* Killed, or stopped by an error of the file system.
UpdateDies(u) ==
  /\ updater[u].at # "idle"
  /\ updater' = [updater EXCEPT ![u] = Idle("failed")]
  /\ UNCHANGED <<files, analyst, updates, history>>

-----------------------------------------------------------------------------
(* build_ioc_set, with load_feeds and load or fetch_live inside it.        *)

\* The cache is read whole, whatever --intel-feed says.
StartLoad ==
  /\ analyst.at = "idle"
  /\ analyst' = IF manifest = Torn THEN [analyst EXCEPT !.at = "failed"]
                ELSE [at |-> "load", todo |-> read_manifest, set |-> EmptySet,
                      doubted |-> in_doubt]
  /\ UNCHANGED <<files, updater, updates, history>>

\* A feed this build does not know, and one without a file, are passed over.
LoadFeed ==
  /\ analyst.at = "load" /\ analyst.todo # <<>>
  /\ LET cached == Head(analyst.todo)
         present == cached.id \in DOMAIN Builtin /\ data[cached.id] # Missing
     IN  analyst' = [analyst EXCEPT
           !.todo = Tail(@),
           !.set = IF present
                   THEN Contribute(@, cached.id, data[cached.id], cached.fetched_at)
                   ELSE @]
  /\ UNCHANGED <<files, updater, updates, history>>

StartLive(only) ==
  /\ analyst.at = "idle"
  /\ analyst' = IF Known(only)
                THEN [at |-> "live", todo |-> selected(only), set |-> EmptySet,
                      doubted |-> {}]
                ELSE [analyst EXCEPT !.at = "failed"]
  /\ UNCHANGED <<files, updater, updates, history>>

\* A feed that fails is left out.
LiveFeed ==
  /\ analyst.at = "live" /\ analyst.todo # <<>>
  /\ LET id == Head(analyst.todo) IN
     \E answer \in Answers[id] :
       LET got == fetch(Builtin[id], answer) IN
       IF got.err = None
       THEN /\ Len(fetched) < MaxFetches
            /\ analyst' = [analyst EXCEPT !.todo = Tail(@),
                             !.set = Contribute(@, id, got.rows, Now)]
            /\ fetched' = Append(fetched, [id |-> id, rows |-> got.rows])
       ELSE /\ analyst' = [analyst EXCEPT !.todo = Tail(@)]
            /\ UNCHANGED fetched
  /\ UNCHANGED <<files, updater, updates, in_doubt, recorded, overlapped>>

\* The list first, the feeds over it.
Combine ==
  /\ analyst.at \in {"load", "live"} /\ analyst.todo = <<>>
  /\ analyst' = [analyst EXCEPT
       !.at = "ready",
       !.set = extend(extend(EmptySet, parse_iocs(List).set), @)]
  /\ UNCHANGED <<files, updater, updates, history>>

\* A file cannot be read.
LoadFails ==
  /\ analyst.at \in {"load", "live"}
  /\ analyst' = [analyst EXCEPT !.at = "failed"]
  /\ UNCHANGED <<files, updater, updates, history>>

-----------------------------------------------------------------------------

\* No cache yet, or one of a newer build that knows another feed.
Init ==
  /\ data = [id \in DOMAIN Builtin |-> Missing]
  /\ manifest \in {Missing, NewerCache}
  /\ updater = [u \in Updater |-> Idle("none")]
  /\ analyst = [at |-> "idle", todo |-> <<>>, set |-> EmptySet, doubted |-> {}]
  /\ updates = 0
  /\ fetched = <<>> /\ in_doubt = {} /\ overlapped = FALSE
  /\ recorded = IF manifest = Missing THEN {} ELSE Ids(manifest)

Update(u) ==
  \/ \E only \in Requests : StartUpdate(u, only)
  \/ FetchFails(u) \/ WriteData(u) \/ DataWritten(u)
  \/ WriteManifest(u) \/ ManifestWritten(u)
  \/ UpdateDies(u)

Load ==
  \/ StartLoad \/ LoadFeed
  \/ \E only \in Requests : StartLive(only)
  \/ LiveFeed \/ Combine \/ LoadFails

Next == Load \/ \E u \in Updater : Update(u)

Spec == Init /\ [][Next]_vars

-----------------------------------------------------------------------------
(* Properties.  Two updates at once may each overwrite what the other did: *)
(* the first two speak of caches that never saw that.                      *)

Legible == manifest \notin {Missing, Torn}

\* Whatever updates died at whatever point before: an entry whose feed was not
\* left half-way describes the file beside it, by the time of the download it
\* holds and by what that contributes; and no feed has two entries.
ManifestDescribesData ==
  (Legible /\ ~overlapped) =>
    \A i \in DOMAIN manifest :
      /\ \A j \in DOMAIN manifest : manifest[j].id = manifest[i].id => j = i
      /\ manifest[i].id \in DOMAIN Builtin \ in_doubt =>
           LET download == fetched[manifest[i].fetched_at] IN
           /\ download = [id |-> manifest[i].id, rows |-> data[manifest[i].id]]
           /\ manifest[i].indicators =
                count_indicators(Builtin[manifest[i].id], download.rows)

\* No update drops a feed from the cache that it did not ask for, could not
\* fetch or does not know.
NothingForgotten ==
  (Legible /\ ~overlapped) => recorded \subseteq Ids(manifest)

RowsWith(rows, x) == {i \in DOMAIN rows : rows[i] # None /\ rows[i].token.value = x}

\* The address x, and who vouches for it.
Vouched(x) ==
  LET sources == analyst.set.manifest
      rows(i) == fetched[sources[i].fetched_at].rows
      listing == {i \in DOMAIN sources : RowsWith(rows(i), x) # {}}
  IN  IF listing = {} THEN [source |-> "manual", tag |-> None]
      ELSE LET i == Max(listing)
               row == rows(i)[Max(RowsWith(rows(i), x))]
           IN  [source |-> sources[i].source,
                tag |-> RowTag(Builtin[sources[i].source], row)]

\* An address that the list or a feed has by itself is matched as itself, and
\* the match names the last feed that has it with that feed's label, the list
\* only when no feed has it.  It is so of every analysis whose set is not full,
\* except of feeds an update was rewriting or had left half-way.
MatchNamesItsFeed ==
  (analyst.at = "ready" /\ ~overlapped /\ Indicators(analyst.set) < MaxIndicators
     /\ {s.source : s \in ToSet(analyst.set.manifest)} \cap analyst.doubted = {}) =>
    \A x \in DOMAIN Bits :
      LET listed == \/ \E i \in DOMAIN List : List[i] # None /\ List[i].kind = "ip"
                                                /\ List[i].value = x
                    \/ \E s \in ToSet(analyst.set.manifest) :
                         \E i \in RowsWith(fetched[s.fetched_at].rows, x) :
                           fetched[s.fetched_at].rows[i].token.kind = "ip"
      IN  listed => match_ip(analyst.set, x) = [indicator |-> x, meta |-> Vouched(x)]
=============================================================================
