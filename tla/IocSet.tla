------------------------------- MODULE IocSet -------------------------------
(***************************************************************************)
(* Threat-intelligence indicators: the set (crates/cbna-core/src/ioc.rs),  *)
(* the reader of a hand-written list (crates/cbna-capture/src/ioc.rs) and  *)
(* the readers of feeds (crates/cbna-intel/src/parse.rs, feed.rs).         *)
(*                                                                         *)
(* A token is a record whose `kind` says which of the shapes it has:       *)
(* "cidr" (a slash), "ip", "ja3", "domain" or "junk".  A line of a file is *)
(* a record too; cutting text into tokens is left out.                     *)
(***************************************************************************)
EXTENDS Integers, SequencesExt

CONSTANTS
  None,
  MaxIndicators,  \* IocSet::MAX_INDICATORS
  MaxWarnings,    \* MAX_WARNINGS
  Bits,           \* the bits of an address, as many as its family has
  Normal,         \* lower case, no trailing dot
  AfterDot        \* what follows the first dot of a normal name, or None

ASSUME IocSetAssumption ==
  /\ MaxIndicators \in Nat /\ MaxWarnings \in Nat
  /\ \A a \in DOMAIN Bits : Bits[a] \in Seq({0, 1})

NoMap == [x \in {} |-> None]

EmptySet ==
  [ips |-> NoMap, cidrs |-> <<>>, domains |-> NoMap, ja3 |-> NoMap,
   current_source |-> "manual", manifest |-> <<>>]

Indicators(set) ==
  Cardinality(DOMAIN set.ips) + Len(set.cidrs)
    + Cardinality(DOMAIN set.domains) + Cardinality(DOMAIN set.ja3)

set_source(set, source) == [set EXCEPT !.current_source = source]
add_source_info(set, info) == [set EXCEPT !.manifest = Append(@, info)]

\* HashMap::insert and HashMap::extend: the newcomer wins.
With(map, x, value) == [y \in DOMAIN map \cup {x} |-> IF y = x THEN value ELSE map[y]]
Over(map, new) ==
  [y \in DOMAIN map \cup DOMAIN new |-> IF y \in DOMAIN new THEN new[y] ELSE map[y]]

\* Mutant: an indicator already listed keeps the provenance it had.
ExtendKeepsOld(set, other) ==
  [set EXCEPT !.ips = Over(other.ips, @), !.cidrs = @ \o other.cidrs,
              !.domains = Over(other.domains, @), !.ja3 = Over(other.ja3, @),
              !.manifest = @ \o other.manifest]

\* IocSet::extend: no cap, and the source label stays.
extend(set, other) ==
  [set EXCEPT !.ips = Over(@, other.ips), !.cidrs = @ \o other.cidrs,
              !.domains = Over(@, other.domains), !.ja3 = Over(@, other.ja3),
              !.manifest = @ \o other.manifest]

\* parse_cidr: the prefix fits the family.
IsCidr(token) == token.kind = "cidr" /\ token.prefix <= Len(Bits[token.base])

Insert(set, token, meta) ==
  CASE token.kind = "cidr" ->
         [set EXCEPT !.cidrs = Append(@, [base |-> token.base, prefix |-> token.prefix,
                                          meta |-> meta])]
    [] token.kind = "ip"     -> [set EXCEPT !.ips = With(@, token.value, meta)]
    [] token.kind = "ja3"    -> [set EXCEPT !.ja3 = With(@, Normal[token.value], meta)]
    [] token.kind = "domain" -> [set EXCEPT !.domains = With(@, Normal[token.value], meta)]

\* The cap is looked at first, even for an indicator already there.
insert_tagged(set, token, tag) ==
  IF MaxIndicators <= Indicators(set) THEN [set |-> set, err |-> "Full"]
  ELSE IF token.kind \in {"ip", "ja3", "domain"} \/ IsCidr(token)
  THEN [set |-> Insert(set, token, [source |-> set.current_source, tag |-> tag]),
        err |-> None]
  ELSE [set |-> set, err |-> "Unrecognised"]

-----------------------------------------------------------------------------
(* Matching.  A match is the indicator and its provenance, or None.        *)

\* Cidr::contains, prefix_eq.
InRange(cidr, ip) ==
  /\ Len(Bits[cidr.base]) = Len(Bits[ip])
  /\ \A i \in 1 .. cidr.prefix : Bits[cidr.base][i] = Bits[ip][i]

\* The address itself, else the first range listed that holds it.
match_ip(set, ip) ==
  LET holding == SelectSeq(set.cidrs, LAMBDA c : InRange(c, ip))
  IN  IF ip \in DOMAIN set.ips THEN [indicator |-> ip, meta |-> set.ips[ip]]
      ELSE IF holding = <<>> THEN None
      ELSE [indicator |-> <<holding[1].base, holding[1].prefix>>, meta |-> holding[1].meta]

\* The longest suffix of the name that is listed.
match_domain(set, name) ==
  LET suffix[n \in DOMAIN AfterDot] ==
        IF n \in DOMAIN set.domains \/ AfterDot[n] = None THEN n ELSE suffix[AfterDot[n]]
      found == suffix[Normal[name]]
  IN  IF found \in DOMAIN set.domains
      THEN [indicator |-> found, meta |-> set.domains[found]] ELSE None

match_ja3(set, hash) ==
  IF Normal[hash] \in DOMAIN set.ja3
  THEN [indicator |-> Normal[hash], meta |-> set.ja3[Normal[hash]]] ELSE None

-----------------------------------------------------------------------------
(* A list: one token or None (blank, comment) per line.                    *)

\* A line that is no indicator is a warning; a full set ends the reading.
ReadLine(read, token) ==
  IF token = None \/ read.full THEN read
  ELSE LET new == insert_tagged(read.set, token, None)
       IN  IF new.err = None THEN [read EXCEPT !.set = new.set]
           ELSE [read EXCEPT
                   !.warnings = IF Len(@) < MaxWarnings THEN Append(@, new.err) ELSE @,
                   !.full = new.err = "Full"]

parse_iocs(lines) ==
  LET read == FoldLeft(ReadLine, [set |-> EmptySet, warnings |-> <<>>, full |-> FALSE], lines)
  IN  [set |-> read.set, warnings |-> read.warnings]

-----------------------------------------------------------------------------
(* Feeds.  A row is None (blank, comment, too few columns, a URL without a *)
(* host) or a token with the label of its row, None if that is empty.      *)

\* A label that says "None" is no label; the feed may have one for all rows.
RowTag(feed, row) ==
  IF feed.tagged /\ row.tag # None /\ row.tag # "None" THEN row.tag ELSE feed.default_tag

\* A token that is refused is skipped; a full set ends the reading, which is
\* the same as refusing the rest.
ReadRow(set, feed, row) ==
  IF row = None THEN set ELSE insert_tagged(set, row.token, RowTag(feed, row)).set

parse_into(set, feed, rows) ==
  LET read == FoldLeft(LAMBDA s, row : ReadRow(s, feed, row), set_source(set, feed.id), rows)
  IN  [set |-> read, added |-> Indicators(read) - Indicators(set)]

\* BUILTIN: only two of the three formats carry a label per row.
Builtin ==
  [feodo   |-> [id |-> "feodo", tagged |-> FALSE, needs_auth |-> FALSE,
                default_tag |-> "botnet-c2"],
   sslbl   |-> [id |-> "sslbl", tagged |-> TRUE, needs_auth |-> FALSE,
                default_tag |-> None],
   urlhaus |-> [id |-> "urlhaus", tagged |-> TRUE, needs_auth |-> FALSE,
                default_tag |-> None]]

BuiltinOrder == <<"feodo", "sslbl", "urlhaus">>
=============================================================================
