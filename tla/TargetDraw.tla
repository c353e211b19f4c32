----------------------------- MODULE TargetDraw -----------------------------
(***************************************************************************)
(* From the MaxMind databases to a destination: geoip.Open walks the       *)
(* networks and builds the index of autonomous systems, Targets resolves   *)
(* the operator's selection to weighted pools, and RandomTarget draws an   *)
(* ASN, a prefix and a host.  A draw is modelled by the values the random  *)
(* generator returns, so that likelihoods are counts of them.              *)
(***************************************************************************)
EXTENDS Integers, Sequences, FiniteSets, FiniteSetsExt, Functions, SequencesExt

CONSTANTS Networks,     \* of the ASN database, in the order it is walked:
                        \* <<[base, bits (of the host part), v4]>>
          CountryOf(_), \* ISO code of a network in the country database, "" if unknown
          Asns,         \* numbers an operator may select, known or not
          MaxSelected   \* bound: length of a selection

TargetDrawAssumption ==
    /\ Asns \subseteq Nat \ {0} /\ MaxSelected \in Nat
    /\ \A i \in DOMAIN Networks : Networks[i].base % 2^Networks[i].bits = 0

VARIABLES owner,        \* the ASN the database gives each network, 0 for none
          byASN,        \* GeoIP.byASN, empty before Open and when it fails
          opened,
          selection,    \* geoip.selected_asns of the live config
          selected, pools, totalWeight, \* Targets
          drawn         \* the last RandomTarget: {} or {[ip, asn]}

targets == <<selected, pools, totalWeight>>
vars    == <<owner, byASN, opened, selection, targets, drawn>>

Selections == SeqOf(Asns, MaxSelected)

-----------------------------------------------------------------------------
(* geoip.                                                                  *)

Indexed == {i \in DOMAIN Networks : owner[i] # 0 /\ Networks[i].v4}

\* 2^(32 - ones) for an IPv4 network.
prefixSize(i) == IF Networks[i].v4 THEN 2^Networks[i].bits ELSE 0

Size(nets) == FoldLeft(LAMBDA n, i : n + prefixSize(i), 0, nets)

\* The codes most of the prefixes have: of equals, the one Go's map yields first.
majorityCountry(nets) ==
    LET count(c) == Quantify(DOMAIN nets, LAMBDA k : CountryOf(nets[k]) = c)
        codes    == {CountryOf(n) : n \in Range(nets)} \ {""}
    IN  IF codes = {} THEN {""} ELSE {c \in codes : \A d \in codes : count(c) >= count(d)}

NetsOf(asn) == SelectSeq([i \in DOMAIN Networks |-> i], LAMBDA i : i \in Indexed /\ owner[i] = asn)

\* A database may be missing or damaged; the dashboard still comes up.
Open ==
    /\ ~opened
    /\ opened' = TRUE
    /\ LET known == {owner[i] : i \in Indexed} IN
       \/ byASN' = <<>>
       \/ \E country \in [known -> UNION {majorityCountry(NetsOf(a)) : a \in known}] :
             /\ \A a \in known : country[a] \in majorityCountry(NetsOf(a))
             /\ byASN' = [a \in known |-> [prefixes |-> NetsOf(a), country |-> country[a], numIPs |-> Size(NetsOf(a))]]
    /\ UNCHANGED <<owner, selection, targets, drawn>>

ListASNs(country) ==
    SetToSortSeq({a \in DOMAIN byASN : country \in {"", byASN[a].country}}, <)

PrefixesOf(asn) == IF asn \in DOMAIN byASN THEN byASN[asn].prefixes ELSE <<>>

LookupASN(ip) ==
    {owner[i] : i \in {j \in Indexed : ip \in Networks[j].base..Networks[j].base + prefixSize(j) - 1}}

-----------------------------------------------------------------------------
(* Targets.                                                                *)

\* Mutant: the total is not reset.
AddWeight(ps) == totalWeight' = totalWeight + FoldLeft(LAMBDA n, p : n + p.weight, 0, ps)

TotalWeight(ps) == totalWeight' = FoldLeft(LAMBDA n, p : n + p.weight, 0, ps)

\* Unknown ASNs are skipped.
rebuild(sel) ==
    /\ selected' = sel
    /\ pools' = SelectSeq([k \in DOMAIN sel |-> [asn      |-> sel[k],
                                                 prefixes |-> PrefixesOf(sel[k]),
                                                 weight   |-> Size(PrefixesOf(sel[k]))]],
                          LAMBDA p : p.weight > 0)
    /\ TotalWeight(pools')

PutSelection ==
    /\ opened
    /\ selection' \in Selections
    /\ UNCHANGED <<owner, byASN, opened, targets, drawn>>

EnsureSelection ==
    /\ opened /\ selected # selection
    /\ rebuild(selection)
    /\ drawn' = {}
    /\ UNCHANGED <<owner, byASN, opened, selection>>

\* The loop of pickPool and pickPrefix: the first whose weight exceeds what is left.
Walk(w, r) ==
    LET f[k \in 1..Len(w), x \in 0..r] == IF x < w[k] \/ k = Len(w) THEN k ELSE f[k + 1, x - w[k]]
    IN  f[1, r]

pickPool(r)      == pools[Walk([k \in DOMAIN pools |-> pools[k].weight], r)]
pickPrefix(p, r) == p.prefixes[Walk([k \in DOMAIN p.prefixes |-> prefixSize(p.prefixes[k])], r)]

\* Mutant: one bit of the host part too many.
WideHost(i, offset) == Networks[i].base + 2 * offset

\* base | offset: the host bits of the base are zero.
randomHost(i, offset) == Networks[i].base + offset

RandomTarget ==
    /\ pools # <<>>
    /\ \E r \in 0..totalWeight - 1 :
         LET pool == pickPool(r) IN
         \E s \in 0..pool.weight - 1 :
            LET prefix == pickPrefix(pool, s) IN
            \E offset \in 0..prefixSize(prefix) - 1 :
               drawn' = {[ip |-> randomHost(prefix, offset), asn |-> pool.asn]}
    /\ UNCHANGED <<owner, byASN, opened, selection, targets>>

Init ==
    /\ owner \in [DOMAIN Networks -> {0} \cup Asns]
    /\ byASN = <<>> /\ opened = FALSE
    /\ selection = <<>> /\ selected = <<>> /\ pools = <<>> /\ totalWeight = 0
    /\ drawn = {}

Next == Open \/ PutSelection \/ EnsureSelection \/ RandomTarget

Spec == Init /\ [][Next]_vars

-----------------------------------------------------------------------------
(* Properties.                                                             *)

Hosts(i) == Networks[i].base..Networks[i].base + prefixSize(i) - 1

\* Of the values the generator may return, each selected ASN has as many as the
\* database gives it addresses, and each of its networks within it: when the
\* operator lists no ASN twice, every address is equally likely, none is missing and
\* none counted twice.
EveryHostAlike ==
    IsInjective(selected) /\ byASN # <<>> =>
        /\ \A p \in Range(pools) :
              Quantify(0..totalWeight - 1, LAMBDA r : pickPool(r).asn = p.asn)
                = Cardinality(UNION {Hosts(i) : i \in {j \in Indexed : owner[j] = p.asn}})
        /\ \A p \in Range(pools) : \A i \in Indexed : owner[i] = p.asn =>
              Quantify(0..p.weight - 1, LAMBDA r : pickPrefix(p, r) = i) = prefixSize(i)

PrefixesIn(a, c) == Quantify(Range(PrefixesOf(a)), LAMBDA i : CountryOf(i) = c)
Codes == {CountryOf(i) : i \in DOMAIN Networks} \ {""}

MajorityListed ==
    \A c, d \in Codes : \A a \in ToSet(ListASNs(c)) :
        PrefixesOf(a) # <<>> /\ PrefixesIn(a, d) <= PrefixesIn(a, c)

MeteredWhereSent == \A d \in drawn : LookupASN(d.ip) = {d.asn} /\ d.asn \in Range(selected)

\* What the index says is what the databases say: a datagram goes to an address of
\* the ASN it is metered under, in the selection the pool was built from; what the
\* dashboard lists under a country can be drawn, and has in no other country more of
\* its prefixes.
IndexIsTheDatabase == MeteredWhereSent /\ MajorityListed
=============================================================================
