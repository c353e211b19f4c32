------------------------- MODULE ConfigHolder_proofs -------------------------
(***************************************************************************)
(* Proofs about module ConfigHolder, for any number of handlers, requests  *)
(* and crashes: an answered start or stop holds whatever the bodies of     *)
(* other requests are; while the lists of ASNs that are sent agree where   *)
(* they overlap, so that decoding one into the live array changes nothing, *)
(* the file is the live config and no change slips past the audit log.     *)
(***************************************************************************)
EXTENDS ConfigHolder, SequenceTheorems, TLAPS

\* What the body does not name stays as it was read; the lock covers the change of
\* the live config and the write of the file.
ToggleInv ==
    /\ \A h \in Handlers :
         /\ req[h].at = "validate" /\ "running" \notin DOMAIN req[h].body =>
               req[h].next.running = req[h].old.running
         /\ req[h].at = "swap" /\ ~req[h].running => req[h].next.running = req[h].was.running
         /\ req[h].at = "persist" => \A v \in req[h].promise : v = cfg.running
    /\ \A v \in promise : v = cfg.running
    /\ lock = "free" /\ ~unsaved => file["running"] = cfg.running

\* Two lists agree where they overlap.
Agree(s, t) == \A i \in (DOMAIN s) \cap (DOMAIN t) : s[i] = t[i]

\* The lists the first file and the requests carry differ in their lengths alone.
\* Without this a PUT writes the live config in place (MCConfigHolder_alias).
ListsAgree == \A s, t \in Values("asns") : Agree(s, t)

\* Then so do the arrays the program keeps.
ArraysAgree ==
    \A s \in Values("asns") :
       /\ \A a \in DOMAIN heap : Agree(heap[a], s)
       /\ Agree(file["asns"], s)

\* Request g has changed field f of the live config and its record is still to come.
Pending(g, f) == req[g].at \in {"persist", "audit"} /\ f \in DOMAIN req[g].change

\* The one request that has changed a field holds the value that is live; until it has
\* written the file, that has the value of the newest record; before and after it,
\* the log, the live config and the file agree.
FieldInv(f) ==
    /\ (\A g \in Handlers : ~Pending(g, f)) => Contents(cfg, heap)[f] = audit[f]
    /\ \A g \in Handlers : Pending(g, f) => req[g].change[f] = Contents(cfg, heap)[f]
    /\ \A g, k \in Handlers : Pending(g, f) /\ Pending(k, f) => g = k
    /\ \A g \in Handlers : Pending(g, f) /\ req[g].at = "persist" => file[f] = audit[f]
    /\ (\A g \in Handlers : Pending(g, f) => req[g].at # "persist") =>
          file[f] = Contents(cfg, heap)[f]

\* A diff is of the config that was read and the one to be swapped in.
Shows(r) ==
    r.at = "swap" =>
       \A f \in Fields :
          IF f \in DOMAIN r.change THEN r.change[f] = Contents(r.next, heap)[f]
          ELSE Contents(r.was, heap)[f] = Contents(r.next, heap)[f]

AuditInv ==
    /\ \A h \in Handlers : Shows(req[h])
    /\ \A f \in Fields \ untold : FieldInv(f)

-----------------------------------------------------------------------------
(* Slices.                                                                 *)

\* The array a list is decoded into stays a list of ASNs, as long as before.
LEMMA OverwrittenType ==
    ASSUME heap \in Seq(Seq(ASNs)), NEW c, Slice(c), NEW list \in Seq(ASNs)
    PROVE  /\ Overwritten(c, heap, list) \in Seq(Seq(ASNs))
           /\ Len(Overwritten(c, heap, list)) = Len(heap)
           /\ \A a \in 1..Len(heap) :
                 Overwritten(c, heap, list)[a] =
                    IF a = c.arr
                    THEN [i \in 1..Len(heap[a]) |-> IF i <= Len(list) THEN list[i] ELSE heap[a][i]]
                    ELSE heap[a]
           /\ \A a \in 1..Len(heap) : Len(Overwritten(c, heap, list)[a]) = Len(heap[a])
<1> DEFINE array == heap[c.arr]
           new == [i \in 1..Len(array) |-> IF i <= Len(list) THEN list[i] ELSE array[i]]
<1>1. c.arr \in 1..Len(heap)
  BY LenProperties DEF Slice
<1>2. array \in Seq(ASNs)
  BY <1>1, ElementOfSeq
<1>3. new \in Seq(ASNs) /\ Len(new) = Len(array)
  <2>1. Len(array) \in Nat /\ Len(list) \in Nat
    BY <1>2, LenProperties
  <2>2. \A i \in 1..Len(array) : new[i] \in ASNs
    <3> HIDE DEF array
    <3> TAKE i \in 1..Len(array)
    <3>1. CASE i <= Len(list)
      BY <3>1, <2>1, ElementOfSeq
    <3>2. CASE ~(i <= Len(list))
      BY <3>2, <2>1, <1>2, ElementOfSeq
    <3> QED BY <3>1, <3>2
  <2>3. new \in [1..Len(array) -> ASNs]
    BY <2>2
  <2> HIDE DEF array, new
  <2>4. new \in Seq(ASNs)
    BY <2>1, <2>3, SeqDef
  <2> QED BY <2>1, <2>3, <2>4, LenProperties
<1>4. Overwritten(c, heap, list) = [heap EXCEPT ![c.arr] = new]
  BY DEF Overwritten
<1>5. \A a \in 1..Len(heap) : Overwritten(c, heap, list)[a] = IF a = c.arr THEN new ELSE heap[a]
  BY <1>1, <1>3, <1>4, ExceptSeq
<1>6. Overwritten(c, heap, list) \in Seq(Seq(ASNs)) /\ Len(Overwritten(c, heap, list)) = Len(heap)
  <2> HIDE DEF new
  <2> QED BY <1>1, <1>3, <1>4, ExceptSeq
<1> QED BY <1>3, <1>5, <1>6

Keeps(g) ==
    /\ g \in Seq(Seq(ASNs))
    /\ \A a \in DOMAIN heap : a \in DOMAIN g /\ Len(g[a]) = Len(heap[a])

\* Decoding a list keeps the arrays there are, and its slice is one of an array.
LEMMA DecodedType ==
    ASSUME heap \in Seq(Seq(ASNs)), NEW c, Slice(c), NEW list \in Seq(ASNs)
    PROVE  /\ Keeps(DecodedHeap(c, heap, list))
           /\ Decoded(c, heap, list) \in Structs
           /\ Decoded(c, heap, list).running = c.running
           /\ Decoded(c, heap, list).arr \in DOMAIN DecodedHeap(c, heap, list)
           /\ Decoded(c, heap, list).len
                \in 0..Len(DecodedHeap(c, heap, list)[Decoded(c, heap, list).arr])
<1> DEFINE over == Overwritten(c, heap, list)
<1>1. /\ over \in Seq(Seq(ASNs)) /\ Len(over) = Len(heap)
      /\ \A a \in 1..Len(heap) : Len(over[a]) = Len(heap[a])
  BY OverwrittenType
<1>2. DOMAIN heap = 1..Len(heap) /\ DOMAIN over = 1..Len(heap) /\ Len(heap) \in Nat
  BY <1>1, LenProperties
<1>3. c \in Structs /\ c.arr \in 1..Len(heap) /\ Len(list) \in Nat
  BY <1>2, LenProperties DEF Slice
<1> HIDE DEF over
<1>4. CASE list # <<>> /\ Len(list) <= Len(heap[c.arr])
  <2>1. DecodedHeap(c, heap, list) = over /\ Decoded(c, heap, list) = [c EXCEPT !.len = Len(list)]
    BY <1>4 DEF DecodedHeap, Decoded, over
  <2>2. [c EXCEPT !.len = Len(list)] \in Structs
    BY <1>3 DEF Structs
  <2>3. Len(over[c.arr]) = Len(heap[c.arr])
    BY <1>1, <1>3
  <2> QED BY <1>1, <1>2, <1>3, <1>4, <2>1, <2>2, <2>3 DEF Keeps, Structs
<1>5. CASE ~(list # <<>> /\ Len(list) <= Len(heap[c.arr]))
  <2>1. /\ DecodedHeap(c, heap, list) = Append(over, list)
        /\ Decoded(c, heap, list) = [c EXCEPT !.arr = Len(heap) + 1, !.len = Len(list)]
    BY <1>5 DEF DecodedHeap, Decoded, over
  <2>2. [c EXCEPT !.arr = Len(heap) + 1, !.len = Len(list)] \in Structs
    <3>1. PICK n \in Nat, m \in Nat : n = Len(heap) + 1 /\ m = Len(list)
      BY <1>2, <1>3
    <3>2. [c EXCEPT !.arr = n, !.len = m] \in Structs
      BY <1>3 DEF Structs
    <3> QED BY <3>1, <3>2
  <2>3. /\ Append(over, list) \in Seq(Seq(ASNs))
        /\ Len(Append(over, list)) = Len(heap) + 1
        /\ \A a \in 1..Len(heap) : Append(over, list)[a] = over[a]
        /\ Append(over, list)[Len(heap) + 1] = list
    BY <1>1, AppendProperties
  <2>4. DOMAIN Append(over, list) = 1..(Len(heap) + 1)
    BY <2>3, LenProperties
  <2> QED BY <1>1, <1>2, <1>3, <2>1, <2>2, <2>3, <2>4 DEF Keeps, Structs
<1> QED BY <1>4, <1>5

\* A slice stays one while its array is kept.
LEMMA SliceKept ==
    ASSUME NEW c, Slice(c), Keeps(heap')
    PROVE  Slice(c)'
  BY DEF Slice, Keeps

\* A body decoded over a config is a config.
LEMMA ScalarsType ==
    ASSUME NEW c, Slice(c), NEW b \in Bodies
    PROVE  /\ Slice(WithScalars(c, b))
           /\ "running" \notin DOMAIN b => WithScalars(c, b).running = c.running
<1> DEFINE n == WithScalars(c, b)
<1>1. DOMAIN c = {"running", "dev", "rest", "arr", "len"} /\ c \in Structs
  BY DEF Slice, Structs
<1>2. n = [f \in {"running", "dev", "rest", "arr", "len"} |->
              IF f \in DOMAIN b THEN b[f] ELSE c[f]]
  BY <1>1 DEF WithScalars
<1>3. DOMAIN b \subseteq Fields
  BY ConfigAssumption
<1>4. \A f \in DOMAIN b : b[f] \in Values(f)
  BY DEF Values
<1>5. n.arr = c.arr /\ n.len = c.len
  BY <1>2, <1>3 DEF Fields
<1>6. n.running \in BOOLEAN /\ n.dev \in BOOLEAN /\ n.rest \in Values("rest")
  BY <1>1, <1>2, <1>4, ConfigAssumption DEF Structs
<1>7. n \in Structs
  BY <1>1, <1>2, <1>5, <1>6 DEF Structs
<1> QED BY <1>2, <1>5, <1>7 DEF Slice

\* A config read from a file has a slice of its own array.
LEMMA FreshType ==
    ASSUME NEW c, c["asns"] \in Seq(ASNs), c["running"] \in BOOLEAN, c["dev"] \in BOOLEAN,
           c["rest"] \in Values("rest"), heap' = <<c["asns"]>>
    PROVE  /\ heap' \in Seq(Seq(ASNs))
           /\ Slice(Fresh(c, <<>>))'
           /\ Fresh(c, <<>>).running = c["running"]
           /\ heap'[Fresh(c, <<>>).arr] = c["asns"] /\ Fresh(c, <<>>).len = Len(c["asns"])
<1>1. heap' = Append(<<>>, c["asns"])
  OBVIOUS
<1>2. heap' \in Seq(Seq(ASNs)) /\ Len(heap') = 1 /\ heap'[1] = c["asns"]
  BY <1>1, EmptySeq, AppendProperties
<1>3. DOMAIN heap' = 1..1 /\ Len(c["asns"]) \in Nat
  BY <1>2, LenProperties
<1>4. Fresh(c, <<>>) = [running |-> c["running"], dev |-> c["dev"], rest |-> c["rest"],
                        arr |-> 1, len |-> Len(c["asns"])]
  BY DEF Fresh
<1> QED BY <1>2, <1>3, <1>4 DEF Slice, Structs

-----------------------------------------------------------------------------
(* Types.                                                                  *)

\* A request keeps its type while the arrays are kept.
LEMMA TypedKept ==
    ASSUME NEW r, Typed(r), Keeps(heap')
    PROVE  Typed(r)'
<1>1. \A c : Slice(c) => Slice(c)'
  BY SliceKept
<1> QED BY <1>1 DEF Typed

\* A step of one request leaves the others alone.
LEMMA OneRequest ==
    ASSUME TypeOK, NEW h \in Handlers, NEW r, req' = [req EXCEPT ![h] = r],
           Typed(r)', Keeps(heap'), (r.at = "persist") <=> (lock' = h),
           \A g \in Handlers \ {h} : lock' = g <=> lock = g
    PROVE  /\ \A g \in Handlers : Typed(req[g])'
           /\ \A g \in Handlers : (req[g].at = "persist" <=> lock = g)'
           /\ DOMAIN req' = Handlers
           /\ req'[h] = r /\ \A g \in Handlers \ {h} : req'[g] = req[g]
<1>1. req'[h] = r /\ DOMAIN req' = Handlers /\ \A g \in Handlers \ {h} : req'[g] = req[g]
  BY DEF TypeOK
<1>2. ASSUME NEW g \in Handlers \ {h} PROVE Typed(req[g])'
  <2>1. Typed(req[g])
    BY <1>2 DEF TypeOK
  <2>2. PICK q : q = req[g]
    OBVIOUS
  <2>3. Typed(q)'
    BY <2>1, <2>2, TypedKept
  <2>4. req'[g] = q
    BY <1>1, <2>2
  <2> QED BY <2>3, <2>4 DEF Typed, Slice
<1>3. Typed(req[h])'
  BY <1>1 DEF Typed, Slice
<1>4. ASSUME NEW g \in Handlers PROVE (req[g].at = "persist" <=> lock = g)'
  BY <1>1, <1>4 DEF TypeOK
<1> QED BY <1>1, <1>2, <1>3, <1>4

\* The array a decoding keeps, kept by a step that leaves the arrays alone.
LEMMA KeptAsIs == TypeOK /\ heap' = heap => Keeps(heap')
  BY DEF TypeOK, Keeps

\* Every step keeps the types.
LEMMA TypeNext == TypeOK /\ [Next]_vars => TypeOK'
<1> SUFFICES ASSUME TypeOK, [Next]_vars PROVE TypeOK'
  OBVIOUS
<1> USE DEF history
<1>0. /\ Typed(None)' /\ (heap' = heap => Keeps(heap'))
      /\ \A c : Slice(c) /\ heap' = heap => Slice(c)'
  BY KeptAsIs DEF Typed, None, Slice
<1>1. ASSUME NEW h \in Handlers, Put(h) PROVE TypeOK'
  <2>0. Typed(req[h]) /\ "free" # h
    BY ConfigAssumption DEF TypeOK
  <2>1. CASE PutGet(h)
    <3>1. PICK b \in Bodies : req' = [req EXCEPT ![h] = [at |-> "decode", body |-> b, old |-> cfg]]
      BY <2>1 DEF PutGet
    <3>2. Typed([at |-> "decode", body |-> b, old |-> cfg])'
      BY <1>0, <2>1 DEF Typed, PutGet, TypeOK
    <3>3. /\ \A g \in Handlers : Typed(req[g])'
          /\ \A g \in Handlers : (req[g].at = "persist" <=> lock = g)' /\ DOMAIN req' = Handlers
      BY <1>0, <2>0, <2>1, <3>1, <3>2, OneRequest DEF PutGet
    <3> QED BY <1>0, <2>1, <3>3 DEF PutGet, TypeOK
  <2>q. PICK q, c : q = req[h] /\ c = cfg
    OBVIOUS
  <2>2. CASE PutDecode(h)
    <3> DEFINE b == q.body
               n == WithScalars(q.old, b)
    <3>1. b \in Bodies /\ Slice(q.old) /\ Slice(n) /\ Slice(c)
      BY <2>0, <2>q, <2>2, ScalarsType DEF PutDecode, Typed, TypeOK
    <3>2. PICK m : /\ req' = [req EXCEPT ![h] = [at |-> "validate", body |-> b,
                                               old |-> q.old, next |-> m]]
                   /\ Slice(m)' /\ Keeps(heap')
      <4>1. CASE "asns" \in DOMAIN b
        <5> DEFINE list == b["asns"]
        <5>1. list \in Seq(ASNs)
          BY <3>1, <4>1, ConfigAssumption DEF Values
        <5>2. PICK g, d : /\ g = DecodedHeap(n, heap, list) /\ d = Decoded(n, heap, list)
                          /\ heap' = g
                          /\ req' = [req EXCEPT ![h] = [at |-> "validate", body |-> b,
                                                        old |-> q.old, next |-> d]]
          BY <2>2, <2>q, <4>1 DEF PutDecode
        <5> HIDE DEF list, n, b
        <5>3. Keeps(g) /\ d \in Structs /\ d.arr \in DOMAIN g /\ d.len \in 0..Len(g[d.arr])
          BY <3>1, <5>1, <5>2, DecodedType DEF TypeOK
        <5>4. Keeps(heap') /\ Slice(d)'
          BY <5>2, <5>3 DEF Slice
        <5> QED BY <5>2, <5>4
      <4>2. CASE "asns" \notin DOMAIN b
        BY <1>0, <2>2, <2>q, <3>1, <4>2 DEF PutDecode
      <4> QED BY <4>1, <4>2
    <3>3. Slice(q.old)' /\ Slice(c)'
      BY <3>1, <3>2, SliceKept
    <3>4. Typed([at |-> "validate", body |-> b, old |-> q.old, next |-> m])'
      BY <3>1, <3>2, <3>3 DEF Typed
    <3>5. /\ \A g \in Handlers : Typed(req[g])'
          /\ \A g \in Handlers : (req[g].at = "persist" <=> lock = g)' /\ DOMAIN req' = Handlers
      <4>1. lock' = lock /\ lock # h
        BY <2>0, <2>2 DEF PutDecode, TypeOK
      <4> QED BY <4>1, <3>2, <3>4, OneRequest
    <3>6. Slice(cfg)' /\ heap' \in Seq(Seq(ASNs))
      BY <2>q, <2>2, <3>2, <3>3 DEF PutDecode, Keeps, Slice
    <3>7. (snap # NoCycle => Slice(snap))'
      <4>1. PICK x : x = snap
        OBVIOUS
      <4>2. x # NoCycle => Slice(x)'
        BY <3>2, <4>1, SliceKept DEF TypeOK
      <4> QED BY <2>2, <4>1, <4>2 DEF PutDecode, Slice
    <3> QED BY <2>2, <3>5, <3>6, <3>7 DEF PutDecode, TypeOK
  <2>3. CASE PutReject(h)
    BY <2>3, <2>0, <1>0, OneRequest DEF PutReject, Answer, None, TypeOK
  <2>4. CASE PutDiff(h)
    <3>c. DOMAIN Diff(q.old, q.next, heap) \subseteq Fields
      BY DEF Diff
    <3>d. PICK d : d = Diff(q.old, q.next, heap) /\ DOMAIN d \subseteq Fields
      BY <3>c
    <3>1. req' = [req EXCEPT ![h] = [at |-> "swap", next |-> q.next, was |-> q.old,
                             running |-> "running" \in DOMAIN q.body, change |-> d]]
      BY <2>4, <2>q, <3>d DEF PutDiff
    <3>2. Slice(q.next)' /\ Slice(q.old)'
      BY <1>0, <2>0, <2>q, <2>4 DEF PutDiff, Typed
    <3>2a. Typed([at |-> "swap", next |-> q.next, was |-> q.old,
                 running |-> "running" \in DOMAIN q.body, change |-> d])'
      BY <3>d, <3>2 DEF Typed
    <3>3. /\ \A g \in Handlers : Typed(req[g])'
          /\ \A g \in Handlers : (req[g].at = "persist" <=> lock = g)' /\ DOMAIN req' = Handlers
      <4>1. lock' = lock /\ lock # h /\ Keeps(heap')
        BY <1>0, <2>0, <2>4 DEF PutDiff, TypeOK
      <4> QED BY <4>1, <3>1, <3>2a, OneRequest
    <3> QED BY <1>0, <2>4, <3>3 DEF PutDiff, TypeOK
  <2>5. CASE Replace(h)
    <3> DEFINE r == [at |-> "persist", change |-> q.change, promise |-> {}]
    <3>1. req' = [req EXCEPT ![h] = r] /\ r.at = "persist" /\ DOMAIN r.change \subseteq Fields
      BY <2>0, <2>5, <2>q DEF Replace, Typed
    <3>2. Typed(r)'
      BY <3>1 DEF Typed
    <3> HIDE DEF r
    <3>3. Slice(q.next)'
      BY <1>0, <2>0, <2>q, <2>5 DEF Replace, Typed
    <3>4. /\ \A g \in Handlers : Typed(req[g])'
          /\ \A g \in Handlers : (req[g].at = "persist" <=> lock = g)' /\ DOMAIN req' = Handlers
      <4>1. lock = "free" /\ lock' = h /\ Keeps(heap')
        BY <1>0, <2>5 DEF Replace
      <4> QED BY <4>1, <3>1, <3>2, ConfigAssumption, OneRequest
    <3>5. Slice(cfg)'
      BY <3>3, <2>5, <2>q DEF Replace, Slice
    <3>6. untold' \subseteq Fields
      BY <2>0, <2>5 DEF Replace, Typed, TypeOK, Stale
    <3> QED BY <1>0, <2>5, <3>4, <3>5, <3>6 DEF Replace, TypeOK
  <2> QED BY <1>1, <2>1, <2>2, <2>3, <2>4, <2>5 DEF Put
<1>2. ASSUME NEW h \in Handlers, Toggle(h) PROVE TypeOK'
  <2>0. Typed(req[h]) /\ "free" # h
    BY ConfigAssumption DEF TypeOK
  <2>1. CASE ToggleGet(h)
    <3>1. PICK f \in {"running", "dev"}, v \in BOOLEAN :
            req' = [req EXCEPT ![h] = [at |-> "update", field |-> f, value |-> v]]
      BY <2>1 DEF ToggleGet
    <3>2. Typed([at |-> "update", field |-> f, value |-> v])'
      BY DEF Typed
    <3>3. /\ \A g \in Handlers : Typed(req[g])'
          /\ \A g \in Handlers : (req[g].at = "persist" <=> lock = g)' /\ DOMAIN req' = Handlers
      BY <1>0, <2>0, <2>1, <3>1, <3>2, OneRequest DEF ToggleGet, TypeOK
    <3> QED BY <1>0, <2>1, <3>3 DEF ToggleGet, TypeOK
  <2>2. CASE Update(h)
    <3> PICK q : q = req[h]
      OBVIOUS
    <3> DEFINE r == [at |-> "persist", change |-> [f \in {q.field} |-> q.value],
                     promise |-> IF q.field = "running" THEN {q.value} ELSE {}]
    <3>1. req' = [req EXCEPT ![h] = r] /\ r.at = "persist" /\ DOMAIN r.change \subseteq Fields
      BY <2>0, <2>2 DEF Update, Typed, Fields
    <3>2. Typed(r)'
      BY <3>1 DEF Typed
    <3> HIDE DEF r
    <3>3. PICK f \in {"running", "dev"}, v \in BOOLEAN : cfg' = [cfg EXCEPT ![f] = v]
      BY <2>2, <2>0 DEF Update, Typed
    <3>4. /\ \A g \in Handlers : Typed(req[g])'
          /\ \A g \in Handlers : (req[g].at = "persist" <=> lock = g)' /\ DOMAIN req' = Handlers
      <4>1. lock = "free" /\ lock' = h /\ Keeps(heap')
        BY <1>0, <2>2 DEF Update
      <4> QED BY <4>1, <3>1, <3>2, ConfigAssumption, OneRequest
    <3>5. Slice(cfg)'
      BY <2>2, <3>3 DEF TypeOK, Update, Slice, Structs
    <3>6. untold' \subseteq Fields
      BY <2>0, <2>2 DEF Update, Typed, TypeOK, Fields
    <3> QED BY <1>0, <2>2, <3>4, <3>5, <3>6 DEF Update, TypeOK
  <2> QED BY <1>2, <2>1, <2>2 DEF Toggle
<1>3. ASSUME NEW h \in Handlers, Finish(h) PROVE TypeOK'
  <2>0. Typed(req[h]) /\ "free" # h
    BY ConfigAssumption DEF TypeOK
  <2>1. CASE Persist(h)
    <3> PICK q : q = req[h]
      OBVIOUS
    <3> DEFINE r == [at |-> "audit", change |-> q.change]
    <3>1. req' = [req EXCEPT ![h] = r] /\ r.at = "audit" /\ DOMAIN r.change \subseteq Fields
      BY <2>0, <2>1 DEF Persist, Typed
    <3>2. Typed(r)'
      BY <3>1 DEF Typed
    <3>3. /\ \A g \in Handlers : Typed(req[g])'
          /\ \A g \in Handlers : (req[g].at = "persist" <=> lock = g)' /\ DOMAIN req' = Handlers
      <4>1. lock = h /\ lock' = "free" /\ Keeps(heap')
        BY <1>0, <2>1 DEF Persist
      <4> HIDE DEF r
      <4> QED BY <4>1, <2>0, <3>1, <3>2, ConfigAssumption, OneRequest
    <3>4. List(cfg, heap) \in Seq(ASNs)
      <4>1. heap[cfg.arr] \in Seq(ASNs) /\ cfg.len \in 0..Len(heap[cfg.arr])
        BY LenProperties, ElementOfSeq DEF TypeOK, Slice
      <4>2. \A i \in 1..cfg.len : heap[cfg.arr][i] \in ASNs
        BY <4>1, LenProperties, ElementOfSeq
      <4> QED BY <4>1, <4>2, SubSeqProperties DEF List
    <3>5. /\ file' = [f \in Fields |-> file'[f]] /\ file'["asns"] \in Seq(ASNs)
          /\ file'["running"] \in BOOLEAN /\ file'["dev"] \in BOOLEAN /\ file'["rest"] \in Values("rest")
      BY <2>1, <3>4 DEF Persist, Contents, Fields, TypeOK, Slice, Structs
    <3> QED BY <1>0, <2>1, <3>3, <3>5 DEF Persist, TypeOK
  <2>2. CASE PersistFails(h) \/ Audit(h)
    <3>1. req' = [req EXCEPT ![h] = None] /\ heap' = heap 
          /\ ((lock' = lock /\ lock # h) \/ (lock = h /\ lock' = "free"))
      BY <2>0, <2>2 DEF PersistFails, Audit, Answer, TypeOK
    <3>2. /\ \A g \in Handlers : Typed(req[g])'
          /\ \A g \in Handlers : (req[g].at = "persist" <=> lock = g)' /\ DOMAIN req' = Handlers
      <4>1. None.at # "persist" /\ lock' # h /\ Keeps(heap')
        BY <1>0, <2>0, <3>1 DEF None
      <4>2. \A g \in Handlers \ {h} : lock' = g <=> lock = g
        BY <3>1, ConfigAssumption
      <4> HIDE DEF None
      <4> QED BY <1>0, <3>1, <4>1, <4>2, OneRequest
    <3>3. untold' \subseteq Fields
      BY <2>0, <2>2 DEF PersistFails, Audit, Typed, TypeOK
    <3> QED BY <1>0, <2>2, <3>2, <3>3 DEF PersistFails, Audit, TypeOK
  <2> QED BY <1>3, <2>1, <2>2 DEF Finish
<1>4. CASE CycleStart \/ CycleEnd
  <2>1. /\ snap' = cfg \/ snap' = NoCycle
        /\ UNCHANGED <<cfg, heap, lock, req, file, unsaved, untold>>
    BY <1>4 DEF CycleStart, CycleEnd
  <2>2. \A h \in Handlers : Typed(req[h])'
    BY <2>1, <1>0, TypedKept DEF TypeOK, Typed, Slice
  <2> QED BY <1>0, <2>1, <2>2 DEF TypeOK
<1>5. CASE Restart
  <2>1. heap' \in Seq(Seq(ASNs)) /\ Slice(cfg)'
    BY <1>5, FreshType DEF Restart, TypeOK, Slice
  <2>2. \A h \in Handlers : req'[h] = None
    BY <1>5 DEF Restart
  <2>3. \A h \in Handlers : Typed(req[h])' /\ (req[h].at = "persist" <=> lock = h)'
    BY <1>5, <2>2, ConfigAssumption DEF Restart, Typed, None
  <2>4. untold' \subseteq Fields
    BY <1>5 DEF Restart, Unrecorded, TypeOK, Typed
  <2> QED BY <1>5, <2>1, <2>3, <2>4 DEF Restart, TypeOK, NoCycle
<1>6. CASE UNCHANGED vars
  <2>1. \A h \in Handlers : Typed(req[h])'
    BY <1>6 DEF vars, TypeOK, Typed, Slice
  <2> QED BY <1>0, <1>6, <2>1 DEF vars, TypeOK
<1> QED BY <1>1, <1>2, <1>3, <1>4, <1>5, <1>6 DEF Next

-----------------------------------------------------------------------------
(* Start and stop.                                                         *)

\* No step separates the live value of running from what was promised or from the
\* file: a writer has the lock from its change to its write, and a PUT that keeps a
\* promise was decoded over a config in which it already held.
LEMMA ToggleNext == TypeOK /\ ToggleInv /\ [Next]_vars => ToggleInv'
<1> SUFFICES ASSUME TypeOK, ToggleInv, [Next]_vars PROVE ToggleInv'
  OBVIOUS
<1> DEFINE Good(r, run) ==
      /\ r.at = "validate" /\ "running" \notin DOMAIN r.body => r.next.running = r.old.running
      /\ r.at = "swap" /\ ~r.running => r.next.running = r.was.running
      /\ r.at = "persist" => \A v \in r.promise : v = run
<1>0. /\ \A h \in Handlers : Good(req[h], cfg.running)
      /\ Good(None, cfg'.running)
  BY DEF ToggleInv, None
<1>1. ASSUME NEW h \in Handlers, NEW r, req' = [req EXCEPT ![h] = r], Good(r, cfg'.running),
             cfg'.running = cfg.running \/ lock = "free"
      PROVE  \A g \in Handlers : Good(req'[g], cfg'.running)
  <2> TAKE g \in Handlers
  <2>1. CASE g = h
    BY <1>1, <2>1 DEF TypeOK
  <2>2. CASE g # h
    <3>1. req'[g] = req[g]
      BY <1>1, <2>2 DEF TypeOK
    <3>2. CASE cfg'.running = cfg.running
      BY <1>0, <3>1, <3>2
    <3>3. CASE lock = "free"
      <4>1. req[g].at # "persist"
        BY <3>3, ConfigAssumption DEF TypeOK
      <4> QED BY <1>0, <3>1, <4>1
    <3> QED BY <1>1, <3>2, <3>3
  <2> QED BY <2>1, <2>2
<1>2. ASSUME \A g \in Handlers : Good(req'[g], cfg'.running),
             \A v \in promise' : v = cfg'.running,
             lock' = "free" /\ ~unsaved' => file'["running"] = cfg'.running
      PROVE  ToggleInv'
  BY <1>2 DEF ToggleInv
<1>3. ASSUME NEW h \in Handlers, Put(h) PROVE ToggleInv'
  <2> PICK q : q = req[h] /\ Typed(q)
    BY DEF TypeOK
  <2>1. CASE PutGet(h) \/ PutDecode(h) \/ PutReject(h) \/ PutDiff(h)
    <3>1. UNCHANGED <<cfg, lock, file, unsaved, promise>>
      BY <2>1 DEF PutGet, PutDecode, PutReject, PutDiff
    <3>2. PICK r : req' = [req EXCEPT ![h] = r] /\ Good(r, cfg'.running)
      <4>1. CASE PutGet(h)
        <5>1. PICK b \in Bodies : req' = [req EXCEPT ![h] = [at |-> "decode", body |-> b, old |-> cfg]]
          BY <4>1 DEF PutGet
        <5>2. Good([at |-> "decode", body |-> b, old |-> cfg], cfg'.running)
          OBVIOUS
        <5> QED BY <5>1, <5>2
      <4>2. CASE PutDecode(h)
        <5> DEFINE b == q.body
                   n == WithScalars(q.old, b)
        <5>1. b \in Bodies /\ Slice(q.old)
          BY <4>2 DEF PutDecode, Typed
        <5>2. Slice(n) /\ ("running" \notin DOMAIN b => n.running = q.old.running)
          BY <5>1, ScalarsType
        <5>3. CASE "asns" \in DOMAIN b
          <6>1. b["asns"] \in Seq(ASNs)
            BY <5>1, <5>3, ConfigAssumption DEF Values
          <6> DEFINE d == Decoded(n, heap, b["asns"])
          <6>2. d.running = n.running
            <7> HIDE DEF n, b
            <7> QED BY <5>2, <6>1, DecodedType DEF TypeOK
          <6>3. req' = [req EXCEPT ![h] = [at |-> "validate", body |-> b, old |-> q.old, next |-> d]]
            BY <4>2, <5>3 DEF PutDecode
          <6> HIDE DEF d, n, b
          <6>4. Good([at |-> "validate", body |-> b, old |-> q.old, next |-> d], cfg'.running)
            BY <5>2, <6>2
          <6> QED BY <6>3, <6>4
        <5>4. CASE "asns" \notin DOMAIN b
          <6>1. req' = [req EXCEPT ![h] = [at |-> "validate", body |-> b, old |-> q.old, next |-> n]]
            BY <4>2, <5>4 DEF PutDecode
          <6> HIDE DEF n, b
          <6>2. Good([at |-> "validate", body |-> b, old |-> q.old, next |-> n], cfg'.running)
            BY <5>2
          <6> QED BY <6>1, <6>2
        <5> QED BY <5>3, <5>4
      <4>3. CASE PutReject(h)
        BY <4>3, <1>0 DEF PutReject, Answer
      <4>4. CASE PutDiff(h)
        <5> DEFINE r == [at |-> "swap", next |-> q.next, was |-> q.old,
                         running |-> "running" \in DOMAIN q.body, change |-> Diff(q.old, q.next, heap)]
        <5>1. req' = [req EXCEPT ![h] = r] /\ q.at = "validate"
          BY <4>4 DEF PutDiff
        <5>2. Good(r, cfg'.running)
          BY <5>1, <1>0
        <5> QED BY <5>1, <5>2
      <4> QED BY <2>1, <4>1, <4>2, <4>3, <4>4
    <3> QED BY <1>1, <1>2, <3>1, <3>2 DEF ToggleInv
  <2>2. CASE Replace(h)
    <3> DEFINE r == [at |-> "persist", change |-> q.change, promise |-> {}]
    <3>1. /\ lock = "free" /\ lock' = h /\ q.at = "swap" /\ cfg' = q.next
          /\ req' = [req EXCEPT ![h] = r]
          /\ promise' = IF q.running \/ q.was.running # cfg.running THEN {} ELSE promise
      BY <2>2 DEF Replace
    <3>2. Good(r, cfg'.running)
      OBVIOUS
    <3>3. ~q.running => q.next.running = q.was.running
      BY <1>0, <3>1
    <3>4. \A v \in promise' : v = cfg'.running
      BY <3>1, <3>3 DEF ToggleInv
    <3>5. lock' # "free"
      BY <3>1, ConfigAssumption
    <3> HIDE DEF r
    <3> QED BY <1>1, <1>2, <3>1, <3>2, <3>4, <3>5
  <2> QED BY <1>3, <2>1, <2>2 DEF Put
<1>4. ASSUME NEW h \in Handlers, Toggle(h) PROVE ToggleInv'
  <2> PICK q : q = req[h] /\ Typed(q)
    BY DEF TypeOK
  <2>1. CASE ToggleGet(h)
    <3>1. PICK f \in {"running", "dev"}, v \in BOOLEAN :
            /\ req' = [req EXCEPT ![h] = [at |-> "update", field |-> f, value |-> v]]
            /\ UNCHANGED <<cfg, lock, file, unsaved, promise>>
      BY <2>1 DEF ToggleGet
    <3> QED BY <1>1, <1>2, <3>1 DEF ToggleInv
  <2>2. CASE Update(h)
    <3> DEFINE r == [at |-> "persist", change |-> [f \in {q.field} |-> q.value],
                     promise |-> IF q.field = "running" THEN {q.value} ELSE {}]
    <3>1. /\ lock = "free" /\ lock' = h /\ q.at = "update"
          /\ cfg' = [cfg EXCEPT ![q.field] = q.value]
          /\ req' = [req EXCEPT ![h] = r]
          /\ promise' = IF q.field = "running" THEN {} ELSE promise
      BY <2>2 DEF Update
    <3>2. q.field \in {"running", "dev"}
      BY <3>1 DEF Typed
    <3>3. cfg'.running = IF q.field = "running" THEN q.value ELSE cfg.running
      BY <3>1, <3>2 DEF TypeOK, Slice, Structs
    <3>4. Good(r, cfg'.running)
      BY <3>3
    <3>5. \A v \in promise' : v = cfg'.running
      BY <3>1, <3>3 DEF ToggleInv
    <3>6. lock' # "free"
      BY <3>1, ConfigAssumption
    <3> HIDE DEF r
    <3> QED BY <1>1, <1>2, <3>1, <3>4, <3>5, <3>6
  <2> QED BY <1>4, <2>1, <2>2 DEF Toggle
<1>5. ASSUME NEW h \in Handlers, Finish(h) PROVE ToggleInv'
  <2> PICK q : q = req[h] /\ Typed(q)
    BY DEF TypeOK
  <2>1. CASE Persist(h)
    <3> DEFINE r == [at |-> "audit", change |-> q.change]
    <3>1. /\ q.at = "persist" /\ cfg' = cfg /\ file' = Contents(cfg, heap)
          /\ req' = [req EXCEPT ![h] = r]
          /\ promise' = IF q.promise # {} THEN q.promise ELSE promise
      BY <2>1 DEF Persist
    <3>2. Good(r, cfg'.running)
      OBVIOUS
    <3>3. \A v \in promise' : v = cfg'.running
      BY <1>0, <3>1 DEF ToggleInv
    <3>4. file'["running"] = cfg'.running
      BY <3>1 DEF Contents, Fields
    <3> HIDE DEF r
    <3> QED BY <1>1, <1>2, <3>1, <3>2, <3>3, <3>4
  <2>2. CASE PersistFails(h) \/ Audit(h)
    <3>1. /\ UNCHANGED <<cfg, file, promise>> /\ req' = [req EXCEPT ![h] = None]
          /\ (lock' = "free" /\ unsaved') \/ (UNCHANGED <<lock, unsaved>>)
      BY <2>2 DEF PersistFails, Audit, Answer
    <3> HIDE DEF None
    <3> QED BY <1>0, <1>1, <1>2, <3>1 DEF ToggleInv
  <2> QED BY <1>5, <2>1, <2>2 DEF Finish
<1>6. CASE Restart
  <2>1. \A g \in Handlers : Good(req'[g], cfg'.running)
    BY <1>0, <1>6 DEF Restart, None
  <2>2. cfg'.running = file["running"] /\ file' = file
    BY <1>6 DEF Restart, Fresh
  <2>3. promise' # {} => promise' = promise /\ ~unsaved /\ lock = "free"
    BY <1>6 DEF Restart
  <2>4. \A v \in promise' : v = cfg'.running
    BY <2>2, <2>3 DEF ToggleInv
  <2> QED BY <1>2, <2>1, <2>2, <2>4
<1>7. CASE CycleStart \/ CycleEnd \/ UNCHANGED vars
  BY <1>0, <1>7 DEF CycleStart, CycleEnd, vars, ToggleInv
<1> QED BY <1>3, <1>4, <1>5, <1>6, <1>7 DEF Next

-----------------------------------------------------------------------------
(* The file.                                                               *)

\* What the arrays held they still hold.
Same(g) == g \in Seq(Seq(ASNs)) /\ \A a \in DOMAIN heap : a \in DOMAIN g /\ g[a] = heap[a]

\* A list that agrees with the array it is decoded into changes nothing in it.
LEMMA DecodedInPlace ==
    ASSUME ListsAgree, ArraysAgree, heap \in Seq(Seq(ASNs)), NEW c, Slice(c),
           NEW list \in Values("asns")
    PROVE  DecodedHeap(c, heap, list) \in {heap, Append(heap, list)}
<1> DEFINE over == Overwritten(c, heap, list)
<1>1. /\ over \in Seq(Seq(ASNs)) /\ Len(over) = Len(heap)
      /\ \A a \in 1..Len(heap) :
            over[a] = IF a = c.arr
                      THEN [i \in 1..Len(heap[a]) |-> IF i <= Len(list) THEN list[i] ELSE heap[a][i]]
                      ELSE heap[a]
  BY ConfigAssumption, OverwrittenType
<1>2. list \in Seq(ASNs) /\ Len(list) \in Nat /\ DOMAIN list = 1..Len(list)
  BY ConfigAssumption, LenProperties
<1>3. ASSUME NEW a \in 1..Len(heap) PROVE over[a] = heap[a]
  <2>1. heap[a] \in Seq(ASNs) /\ DOMAIN heap = 1..Len(heap)
    BY ElementOfSeq, LenProperties
  <2>2. Len(heap[a]) \in Nat /\ heap[a] \in [1..Len(heap[a]) -> ASNs]
    BY <2>1, LenProperties
  <2>3. Agree(heap[a], list)
    BY <2>1 DEF ArraysAgree
  <2>4. \A i \in 1..Len(heap[a]) : (IF i <= Len(list) THEN list[i] ELSE heap[a][i]) = heap[a][i]
    <3> TAKE i \in 1..Len(heap[a])
    <3>1. CASE i <= Len(list)
      <4>1. i \in DOMAIN list /\ i \in DOMAIN heap[a]
        BY <1>2, <2>2, <3>1
      <4>2. heap[a][i] = list[i]
        BY <4>1, <2>3, Zenon DEF Agree
      <4> QED BY <4>2
    <3>2. CASE ~(i <= Len(list))
      BY <3>2
    <3> QED BY <3>1, <3>2
  <2>5. [i \in 1..Len(heap[a]) |-> IF i <= Len(list) THEN list[i] ELSE heap[a][i]] = heap[a]
    BY <2>2, <2>4
  <2> HIDE DEF over
  <2> QED BY <1>1, <2>5
<1>4. over = heap
  <2> HIDE DEF over
  <2> QED BY <1>1, <1>3, SeqEqual
<1> QED BY <1>4 DEF DecodedHeap

\* A config shows the same fields while the arrays hold the same.
LEMMA ContentsKept ==
    ASSUME NEW c, Slice(c), NEW g, Same(g)
    PROVE  Contents(c, g) = Contents(c, heap)
  BY DEF Slice, Same, Contents, List

\* While the lists agree a step keeps what the arrays hold, or restarts.
LEMMA ArraysNext ==
    ASSUME ListsAgree
    PROVE  TypeOK /\ TypeOK' /\ ArraysAgree /\ [Next]_vars =>
              ArraysAgree' /\ (Same(heap') \/ Restart)
<1> SUFFICES ASSUME TypeOK, TypeOK', ArraysAgree, [Next]_vars
             PROVE  ArraysAgree' /\ (Same(heap') \/ Restart)
  OBVIOUS
<1>1. /\ heap' = heap => Same(heap')
      /\ heap' = heap /\ file' = file => ArraysAgree'
  BY DEF TypeOK, Same, ArraysAgree
<1>2. ASSUME NEW h \in Handlers, PutDecode(h) PROVE ArraysAgree' /\ Same(heap')
  <2> PICK q : q = req[h] /\ Typed(q)
    BY DEF TypeOK
  <2>1. CASE heap' = heap
    BY <1>1, <1>2, <2>1 DEF PutDecode
  <2>2. CASE heap' # heap
    <3> DEFINE list == q.body["asns"]
               n == WithScalars(q.old, q.body)
    <3>1. q.body \in Bodies /\ Slice(q.old) /\ "asns" \in DOMAIN q.body
          /\ heap' = DecodedHeap(n, heap, list)
      BY <1>2, <2>2 DEF PutDecode, Typed
    <3>2. list \in Values("asns")
      BY <3>1 DEF Values
    <3>3. Slice(n)
      BY <3>1, ScalarsType
    <3>4. heap' = Append(heap, list)
      <4> HIDE DEF n, list
      <4> QED BY <2>2, <3>1, <3>2, <3>3, DecodedInPlace DEF TypeOK
    <3> HIDE DEF list
    <3>5. /\ list \in Seq(ASNs)
          /\ heap' \in Seq(Seq(ASNs)) /\ Len(heap') = Len(heap) + 1 /\ Len(heap) \in Nat
          /\ \A a \in 1..Len(heap) : heap'[a] = heap[a]
          /\ heap'[Len(heap) + 1] = list
      BY <3>2, <3>4, ConfigAssumption, AppendProperties, LenProperties DEF TypeOK
    <3>6. DOMAIN heap = 1..Len(heap) /\ DOMAIN heap' = 1..(Len(heap) + 1)
      BY <3>5, LenProperties DEF TypeOK
    <3>7. \A a \in DOMAIN heap' : heap'[a] = list \/ (a \in DOMAIN heap /\ heap'[a] = heap[a])
      BY <3>5, <3>6
    <3>8. file' = file
      BY <1>2 DEF PutDecode
    <3>9. ArraysAgree'
      BY <3>2, <3>7, <3>8 DEF ArraysAgree, ListsAgree
    <3>10. Same(heap')
      BY <3>5, <3>6 DEF Same
    <3> QED BY <3>9, <3>10
  <2> QED BY <2>1, <2>2
<1>3. ASSUME NEW h \in Handlers, Persist(h) PROVE ArraysAgree' /\ Same(heap')
  <2>1. heap' = heap /\ file'["asns"] = SubSeq(heap[cfg.arr], 1, cfg.len)
    BY <1>3 DEF Persist, Contents, List, Fields
  <2>2. /\ cfg.arr \in DOMAIN heap /\ heap[cfg.arr] \in Seq(ASNs)
        /\ cfg.len \in 0..Len(heap[cfg.arr])
    BY LenProperties, ElementOfSeq DEF TypeOK, Slice
  <2>3. /\ DOMAIN heap[cfg.arr] = 1..Len(heap[cfg.arr]) /\ Len(heap[cfg.arr]) \in Nat
        /\ \A i \in 1..cfg.len : heap[cfg.arr][i] \in ASNs
    BY <2>2, LenProperties, ElementOfSeq
  <2>4. /\ file'["asns"] \in Seq(ASNs) /\ Len(file'["asns"]) = cfg.len
        /\ \A i \in 1..cfg.len : file'["asns"][i] = heap[cfg.arr][i]
    BY <2>1, <2>2, <2>3, SubSeqProperties
  <2>5. DOMAIN file'["asns"] = 1..cfg.len
    BY <2>4, LenProperties
  <2>6. \A s \in Values("asns") : Agree(file'["asns"], s)
    BY <2>2, <2>3, <2>4, <2>5 DEF ArraysAgree, Agree
  <2> QED BY <1>1, <2>1, <2>6 DEF ArraysAgree
<1>4. CASE Restart
  <2>1. heap' = Append(<<>>, file["asns"]) /\ file' = file
    BY <1>4 DEF Restart
  <2>2. heap' \in Seq(Seq(ASNs)) /\ Len(heap') = 1 /\ heap'[1] = file["asns"]
    BY <2>1, EmptySeq, AppendProperties DEF TypeOK
  <2>3. DOMAIN heap' = 1..1
    BY <2>2, LenProperties
  <2> QED BY <1>4, <2>1, <2>2, <2>3 DEF ArraysAgree
<1>5. CASE heap' = heap /\ file' = file
  BY <1>1, <1>5
<1> QED BY <1>2, <1>3, <1>4, <1>5
        DEF Next, Put, PutGet, PutReject, PutDiff, Replace, Toggle, ToggleGet, Update, Finish,
            PersistFails, Audit, CycleStart, CycleEnd, vars

\* While the lists agree the file is the live config whenever no writer has the lock
\* and its last write did not fail.
LEMMA FileNext ==
    ASSUME ListsAgree
    PROVE  TypeOK /\ TypeOK' /\ ArraysAgree /\ FileIsLive /\ [Next]_vars => FileIsLive'
<1> SUFFICES ASSUME TypeOK, TypeOK', ArraysAgree, FileIsLive, [Next]_vars,
                    lock' = "free", ~unsaved'
             PROVE  file' = Contents(cfg', heap')
  BY DEF FileIsLive
<1>1. CASE Restart
  <2>1. /\ heap' = <<file["asns"]>> /\ cfg' = Fresh(file, <<>>) /\ file' = file
    BY <1>1 DEF Restart
  <2>2. heap'[cfg'.arr] = file["asns"] /\ cfg'.len = Len(file["asns"])
    BY <2>1, FreshType DEF TypeOK
  <2>3. List(cfg', heap') = file["asns"]
    BY <2>2, SubSeqFull DEF List, TypeOK
  <2>4. \A f \in Fields : Contents(cfg', heap')[f] = file[f]
    BY <2>1, <2>3 DEF Contents, Fresh, Fields
  <2>5. Contents(cfg', heap') = [f \in Fields |-> file[f]]
    BY <2>4 DEF Contents
  <2> QED BY <2>1, <2>5 DEF TypeOK
<1>2. ASSUME NEW h \in Handlers, Persist(h) PROVE file' = Contents(cfg', heap')
  BY <1>2 DEF Persist
<1>3. CASE Same(heap') /\ UNCHANGED <<cfg, file, unsaved, lock>>
  BY <1>3, ContentsKept, Zenon DEF FileIsLive, TypeOK
<1>4. ASSUME NEW h \in Handlers, Replace(h) \/ Update(h) \/ PersistFails(h) PROVE FALSE
  <2>1. h # "free"
    BY ConfigAssumption
  <2> QED BY <1>4, <2>1, Zenon DEF Replace, Update, PersistFails
<1>5. CASE Same(heap')
  <2>1. ASSUME NEW h \in Handlers, Put(h) \/ Toggle(h) \/ Finish(h)
        PROVE  file' = Contents(cfg', heap')
    <3>1. Persist(h) \/ Replace(h) \/ Update(h) \/ PersistFails(h)
          \/ UNCHANGED <<cfg, file, unsaved, lock>>
      BY <2>1, Zenon DEF Put, PutGet, PutDecode, PutReject, PutDiff, Toggle, ToggleGet, Finish, Audit
    <3> QED BY <1>2, <1>3, <1>4, <1>5, <3>1
  <2>2. CASE CycleStart \/ CycleEnd \/ UNCHANGED vars
    <3>1. UNCHANGED <<cfg, file, unsaved, lock>>
      BY <2>2, Zenon DEF CycleStart, CycleEnd, vars
    <3> QED BY <1>3, <1>5, <3>1
  <2> QED BY <1>1, <2>1, <2>2 DEF Next
<1> QED BY <1>1, <1>5, ArraysNext

-----------------------------------------------------------------------------
(* The audit log.                                                          *)

\* A step of one request leaves the others where they are.
LEMMA OthersStay ==
    ASSUME TypeOK, NEW h \in Handlers, Put(h) \/ Toggle(h) \/ Finish(h)
    PROVE  \A g \in Handlers \ {h} : req'[g] = req[g]
<1>1. CASE PutGet(h) \/ ToggleGet(h) \/ PutReject(h) \/ Audit(h) \/ PersistFails(h)
  BY <1>1 DEF PutGet, ToggleGet, PutReject, Audit, PersistFails, Answer, TypeOK
<1>2. CASE PutDecode(h)
  BY <1>2 DEF PutDecode, TypeOK
<1>3. CASE PutDiff(h)
  BY <1>3 DEF PutDiff, TypeOK
<1>4. CASE Replace(h) \/ Update(h) \/ Persist(h)
  BY <1>4 DEF Replace, Update, Persist, TypeOK
<1> QED BY <1>1, <1>2, <1>3, <1>4 DEF Put, Toggle, Finish

\* A field the log need not tell stays one.
LEMMA UntoldGrows == [Next]_vars => untold \subseteq untold'
<1>1. ASSUME NEW h \in Handlers, Put(h) \/ Toggle(h) \/ Finish(h) PROVE untold \subseteq untold'
  BY <1>1, Zenon DEF Put, PutGet, PutDecode, PutReject, PutDiff, Replace, Toggle, ToggleGet, Update,
             Finish, Persist, PersistFails, Audit
<1>2. CASE CycleStart \/ CycleEnd \/ UNCHANGED vars
  BY <1>2, Zenon DEF CycleStart, CycleEnd, vars
<1>3. CASE Restart
  BY <1>3, Zenon DEF Restart
<1> QED BY <1>1, <1>2, <1>3, Zenon DEF Next

\* A diff stays one of the configs it was made of.
LEMMA ShowsNext ==
    ASSUME TypeOK, [Next]_vars, ~Restart, Same(heap'), \A h \in Handlers : Shows(req[h]),
           NEW g \in Handlers
    PROVE  Shows(req[g])'
<1>1. ASSUME NEW c, Slice(c) PROVE Contents(c, heap') = Contents(c, heap)
  BY <1>1, ContentsKept
<1>2. CASE req'[g] = req[g]
  <2>1. PICK q : q = req[g] /\ Typed(q) /\ Shows(q)
    BY DEF TypeOK
  <2>2. q.at = "swap" => Slice(q.next) /\ Slice(q.was)
    BY <2>1 DEF Typed
  <2>3. Shows(q)'
    BY <1>1, <2>1, <2>2 DEF Shows
  <2> QED BY <1>2, <2>1, <2>3 DEF Shows
<1>3. CASE req'[g].at # "swap"
  BY <1>3 DEF Shows
<1>4. CASE PutDiff(g)
  <2>1. PICK q : q = req[g]
    OBVIOUS
  <2>2. req' = [req EXCEPT ![g] = [at |-> "swap", next |-> q.next, was |-> q.old,
                                   running |-> "running" \in DOMAIN q.body,
                                   change |-> Diff(q.old, q.next, heap)]] /\ heap' = heap
    BY <1>4, <2>1 DEF PutDiff
  <2>3. /\ req'[g].next = q.next /\ req'[g].was = q.old
        /\ req'[g].change = Diff(q.old, q.next, heap)
    BY <2>2 DEF TypeOK
  <2> QED BY <2>2, <2>3 DEF Shows, Diff
<1>5. CASE PutGet(g) \/ PutDecode(g) \/ PutReject(g) \/ Replace(g) \/ Toggle(g) \/ Finish(g)
  <2>1. CASE PutReject(g) \/ Audit(g) \/ PersistFails(g)
    BY <1>3, <2>1 DEF PutReject, Audit, PersistFails, Answer, None, TypeOK
  <2>2. CASE PutDecode(g)
    BY <1>3, <2>2 DEF PutDecode, TypeOK
  <2>3. CASE PutGet(g) \/ Replace(g) \/ ToggleGet(g) \/ Update(g) \/ Persist(g)
    BY <1>3, <2>3 DEF PutGet, Replace, ToggleGet, Update, Persist, TypeOK
  <2> QED BY <1>5, <2>1, <2>2, <2>3 DEF Toggle, Finish
<1>6. ASSUME NEW h \in Handlers, h # g, Put(h) \/ Toggle(h) \/ Finish(h) PROVE req'[g] = req[g]
  BY <1>6, OthersStay
<1>7. CASE CycleStart \/ CycleEnd \/ UNCHANGED vars
  BY <1>2, <1>7 DEF CycleStart, CycleEnd, vars
<1> QED BY <1>2, <1>4, <1>5, <1>6, <1>7 DEF Next, Put

\* A step that neither changes the field nor touches a request that has.
LEMMA FieldStays ==
    ASSUME NEW f, FieldInv(f), audit' = audit, file' = file,
           Contents(cfg', heap')[f] = Contents(cfg, heap)[f],
           \A g \in Handlers : \/ req'[g] = req[g]
                               \/ ~Pending(g, f) /\ req'[g].at \notin {"persist", "audit"}
    PROVE  FieldInv(f)'
<1>1. \A g \in Handlers : Pending(g, f)' => Pending(g, f) /\ req'[g] = req[g]
  BY DEF Pending
<1>2. \A g \in Handlers : Pending(g, f) => Pending(g, f)' /\ req'[g] = req[g]
  BY DEF Pending
<1> QED BY <1>1, <1>2 DEF FieldInv

\* Replace and Update make a config live in which field f is the one the request names
\* for it, or what it was.
LEMMA FieldChanges ==
    ASSUME TypeOK, NEW f, FieldInv(f), lock = "free", NEW h \in Handlers, NEW change,
           req[h].at \notin {"persist", "audit"},
           req'[h].at = "persist", req'[h].change = change,
           \A g \in Handlers \ {h} : req'[g] = req[g],
           audit' = audit, file' = file,
           IF f \in DOMAIN change
           THEN Contents(cfg', heap')[f] = change[f] /\ f \notin Unrecorded
           ELSE Contents(cfg', heap')[f] = Contents(cfg, heap)[f]
    PROVE  FieldInv(f)'
<1>1. \A g \in Handlers : req[g].at # "persist"
  BY ConfigAssumption DEF TypeOK
<1>2. ~Pending(h, f) /\ (Pending(h, f)' <=> f \in DOMAIN change)
  BY DEF Pending
<1>3. \A g \in Handlers \ {h} : Pending(g, f)' <=> Pending(g, f)
  BY DEF Pending
<1>4. CASE f \in DOMAIN change
  <2>1. \A g \in Handlers : ~Pending(g, f)
    BY <1>1, <1>4 DEF Unrecorded, Pending
  <2>2. Contents(cfg, heap)[f] = audit[f] /\ file[f] = Contents(cfg, heap)[f]
    BY <2>1 DEF FieldInv
  <2>3. \A g \in Handlers : Pending(g, f)' <=> g = h
    BY <1>2, <1>3, <1>4, <2>1
  <2> QED BY <1>4, <2>2, <2>3 DEF FieldInv
<1>5. CASE f \notin DOMAIN change
  <2>1. \A g \in Handlers : (Pending(g, f)' => Pending(g, f) /\ req'[g] = req[g])
                            /\ (Pending(g, f) => Pending(g, f)' /\ req'[g] = req[g])
    BY <1>2, <1>3, <1>5
  <2> QED BY <1>5, <2>1 DEF FieldInv
<1> QED BY <1>4, <1>5

\* The two ways a config is made live.
LEMMA FieldSwapped ==
    ASSUME TypeOK, NEW f \in Fields, FieldInv(f), f \notin untold', NEW h \in Handlers,
           Shows(req[h]), Replace(h) \/ Update(h)
    PROVE  FieldInv(f)'
<1>1. \A g \in Handlers \ {h} : req'[g] = req[g]
  BY OthersStay DEF Put, Toggle
<1>2. CASE Replace(h)
  <2>1. PICK q : q = req[h]
    OBVIOUS
  <2>2. /\ q.at = "swap" /\ lock = "free" /\ cfg' = q.next /\ heap' = heap
        /\ audit' = audit /\ file' = file
        /\ req' = [req EXCEPT ![h] = [at |-> "persist", change |-> q.change, promise |-> {}]]
    BY <1>2, <2>1 DEF Replace
  <2>3. f \notin Stale(h) /\ f \notin (DOMAIN q.change \cap Unrecorded)
    BY <1>2, <2>1 DEF Replace
  <2>4. Contents(q.was, heap)[f] = Contents(cfg, heap)[f]
    BY <2>1, <2>3 DEF Stale
  <2>5. IF f \in DOMAIN q.change THEN q.change[f] = Contents(q.next, heap)[f]
        ELSE Contents(q.was, heap)[f] = Contents(q.next, heap)[f]
    BY <2>1, <2>2 DEF Shows
  <2>6. req'[h].at = "persist" /\ req'[h].change = q.change
    BY <2>2 DEF TypeOK
  <2>7. PICK change : change = q.change
    OBVIOUS
  <2>8. IF f \in DOMAIN change
        THEN Contents(cfg', heap')[f] = change[f] /\ f \notin Unrecorded
        ELSE Contents(cfg', heap')[f] = Contents(cfg, heap)[f]
    BY <2>2, <2>3, <2>4, <2>5, <2>7
  <2>9. req[h].at \notin {"persist", "audit"}
    BY <2>1, <2>2
  <2> QED BY <1>1, <2>2, <2>6, <2>7, <2>8, <2>9, FieldChanges
<1>3. CASE Update(h)
  <2>1. PICK q : q = req[h] /\ Typed(q)
    BY DEF TypeOK
  <2>2. /\ q.at = "update" /\ lock = "free" /\ heap' = heap /\ audit' = audit /\ file' = file
        /\ cfg' = [cfg EXCEPT ![q.field] = q.value] /\ f \notin ({q.field} \cap Unrecorded)
    BY <1>3, <2>1 DEF Update
  <2>3. PICK change : change = [g \in {q.field} |-> q.value]
    OBVIOUS
  <2>4. req'[h].at = "persist" /\ req'[h].change = change
    <3> DEFINE r == [at |-> "persist", change |-> change,
                     promise |-> IF q.field = "running" THEN {q.value} ELSE {}]
    <3>1. req' = [req EXCEPT ![h] = r]
      BY <1>3, <2>1, <2>3 DEF Update
    <3>2. req'[h] = r
      <4> HIDE DEF r
      <4> QED BY <3>1 DEF TypeOK
    <3> QED BY <3>2
  <2>5. q.field \in {"running", "dev"}
    BY <2>1, <2>2 DEF Typed
  <2>6. CASE f = q.field
    <3>1. Contents(cfg', heap')[f] = q.value
      BY <2>2, <2>5, <2>6 DEF Contents, Fields, TypeOK, Slice, Structs
    <3>2. f \in DOMAIN change /\ change[f] = q.value /\ f \notin Unrecorded
      BY <2>2, <2>3, <2>6
    <3>3. req[h].at \notin {"persist", "audit"}
      BY <2>1, <2>2
    <3> QED BY <1>1, <2>2, <2>4, <3>1, <3>2, <3>3, FieldChanges
  <2>7. CASE f # q.field
    <3>1. Contents(cfg', heap')[f] = Contents(cfg, heap)[f]
      BY <2>2, <2>5, <2>7 DEF Contents, Fields, TypeOK, Slice, Structs, List
    <3>2. f \notin DOMAIN change
      BY <2>3, <2>7
    <3>3. req[h].at \notin {"persist", "audit"}
      BY <2>1, <2>2
    <3> QED BY <1>1, <2>2, <2>4, <3>1, <3>2, <3>3, FieldChanges
  <2> QED BY <2>6, <2>7
<1> QED BY <1>2, <1>3

\* The file is written, or is not; the record is appended, or is not.
LEMMA FieldWritten ==
    ASSUME TypeOK, NEW f \in Fields, FieldInv(f), f \notin untold', NEW h \in Handlers, Finish(h)
    PROVE  FieldInv(f)'
<1>1. \A g \in Handlers \ {h} : req'[g] = req[g]
  BY OthersStay
<1>2. CASE Persist(h)
  <2>1. PICK ch : ch = req[h].change /\ req[h].at = "persist" /\ lock = h
    BY <1>2 DEF Persist
  <2>2. /\ file' = Contents(cfg, heap) /\ UNCHANGED <<cfg, heap, audit>>
        /\ req' = [req EXCEPT ![h] = [at |-> "audit", change |-> ch]]
    BY <1>2, <2>1 DEF Persist
  <2>3. req'[h].at = "audit" /\ req'[h].change = ch
    BY <2>2 DEF TypeOK
  <2>4. \A g \in Handlers : Pending(g, f)' <=> Pending(g, f)
    BY <1>1, <2>1, <2>3 DEF Pending
  <2>5. \A g \in Handlers : req'[g].at # "persist"
    <3>1. \A g \in Handlers \ {h} : req[g].at # "persist"
      BY <2>1 DEF TypeOK
    <3> QED BY <1>1, <2>3, <3>1
  <2>6. \A g \in Handlers : Pending(g, f) => req'[g].change = req[g].change
    BY <1>1, <2>1, <2>3
  <2> QED BY <2>2, <2>4, <2>5, <2>6 DEF FieldInv
<1>3. CASE PersistFails(h)
  <2>1. f \notin DOMAIN req[h].change /\ UNCHANGED <<cfg, heap, file, audit>>
    BY <1>3 DEF PersistFails
  <2>2. req'[h] = None
    BY <1>3 DEF PersistFails, Answer, TypeOK
  <2>3. ~Pending(h, f) /\ req'[h].at \notin {"persist", "audit"}
    BY <2>1, <2>2 DEF Pending, None
  <2> QED BY <1>1, <2>1, <2>3, FieldStays
<1>4. CASE Audit(h)
  <2>1. PICK ch : ch = req[h].change /\ req[h].at = "audit"
    BY <1>4 DEF Audit
  <2>2. req'[h] = None /\ UNCHANGED <<cfg, heap, file>>
    BY <1>4 DEF Audit, Answer, TypeOK
  <2>3. ~Pending(h, f)'
    BY <2>2 DEF Pending, None
  <2>4. CASE f \notin DOMAIN ch
    <3>1. audit'[f] = audit[f]
      BY <1>4, <2>1, <2>4 DEF Audit
    <3>2. \A g \in Handlers : /\ Pending(g, f)' <=> Pending(g, f)
                              /\ Pending(g, f) => req'[g] = req[g]
      BY <1>1, <2>1, <2>3, <2>4 DEF Pending
    <3> QED BY <2>2, <3>1, <3>2 DEF FieldInv
  <2>5. CASE f \in DOMAIN ch
    <3>1. audit' = [x \in Fields |-> IF x \in DOMAIN ch THEN ch[x] ELSE audit[x]]
      BY <1>4, <2>1, <2>5 DEF Audit
    <3>2. audit'[f] = ch[f]
      BY <2>5, <3>1
    <3>3. Pending(h, f)
      BY <2>1, <2>5 DEF Pending
    <3>4. \A g \in Handlers : Pending(g, f) => g = h
      BY <3>3 DEF FieldInv
    <3>5. \A g \in Handlers : ~Pending(g, f)'
      BY <1>1, <2>3, <3>4 DEF Pending
    <3>6. ch[f] = Contents(cfg, heap)[f] /\ file[f] = Contents(cfg, heap)[f]
      BY <2>1, <3>3, <3>4 DEF FieldInv
    <3> QED BY <2>2, <3>2, <3>5, <3>6 DEF FieldInv
  <2> QED BY <2>4, <2>5
<1> QED BY <1>2, <1>3, <1>4 DEF Finish

\* A restart makes the file live, whose last write the log tells of.
LEMMA FieldRestarted ==
    ASSUME TypeOK, NEW f \in Fields, FieldInv(f), f \notin untold', Restart
    PROVE  FieldInv(f)'
<1>1. /\ heap' = <<file["asns"]>> /\ cfg' = Fresh(file, <<>>) /\ file' = file /\ audit' = audit
      /\ f \notin Unrecorded /\ \A h \in Handlers : req'[h] = None
  BY DEF Restart
<1>2. List(cfg', heap') = file["asns"]
  <2>1. heap'[cfg'.arr] = file["asns"] /\ cfg'.len = Len(file["asns"])
    BY <1>1, FreshType DEF TypeOK
  <2> QED BY <2>1, SubSeqFull DEF List, TypeOK
<1>3. Contents(cfg', heap')[f] = file[f]
  BY <1>1, <1>2 DEF Contents, Fresh, Fields
<1>4. \A h \in Handlers : Pending(h, f) => req[h].at = "persist"
  BY <1>1 DEF Unrecorded, Pending
<1>5. file[f] = audit[f]
  <2>1. CASE \E h \in Handlers : Pending(h, f)
    BY <1>4, <2>1 DEF FieldInv
  <2>2. CASE \A h \in Handlers : ~Pending(h, f)
    BY <2>2 DEF FieldInv
  <2> QED BY <2>1, <2>2
<1>6. \A h \in Handlers : ~Pending(h, f)'
  BY <1>1 DEF Pending, None
<1> QED BY <1>1, <1>3, <1>5, <1>6 DEF FieldInv

\* No step parts the log from what is live, but for the fields it makes untold.
LEMMA AuditNext ==
    ASSUME ListsAgree
    PROVE  TypeOK /\ TypeOK' /\ ArraysAgree /\ AuditInv /\ [Next]_vars => AuditInv'
<1> SUFFICES ASSUME TypeOK, TypeOK', ArraysAgree, AuditInv, [Next]_vars PROVE AuditInv'
  OBVIOUS
<1>1. Same(heap') \/ Restart
  BY ArraysNext
<1>2. ASSUME NEW h \in Handlers PROVE Shows(req[h])'
  <2>1. CASE Restart
    BY <1>2, <2>1 DEF Restart, Shows, None
  <2>2. CASE ~Restart
    BY <1>1, <1>2, <2>2, ShowsNext DEF AuditInv
  <2> QED BY <2>1, <2>2
<1>3. ASSUME NEW f \in Fields, f \notin untold' PROVE FieldInv(f)'
  <2>1. FieldInv(f)
    BY <1>3, UntoldGrows DEF AuditInv
  <2>2. ASSUME NEW h \in Handlers, PutGet(h) \/ PutDecode(h) \/ PutReject(h) \/ PutDiff(h) \/ ToggleGet(h)
        PROVE  FieldInv(f)'
    <3>2. UNCHANGED <<cfg, file, audit>>
      BY <2>2, Zenon DEF PutGet, PutDecode, PutReject, PutDiff, ToggleGet
    <3>3. Same(heap')
      <4>1. CASE heap' = heap
        BY <4>1 DEF Same, TypeOK
      <4>2. CASE PutDecode(h)
        <5>1. req'[h].at = "validate"
          BY <4>2 DEF PutDecode, TypeOK
        <5>2. ~Restart
          BY <5>1 DEF Restart, None
        <5> QED BY <1>1, <5>2
      <4> QED BY <2>2, <4>1, <4>2 DEF PutGet, PutReject, PutDiff, ToggleGet
    <3>4. Contents(cfg', heap')[f] = Contents(cfg, heap)[f]
      BY <3>2, <3>3, ContentsKept DEF TypeOK
    <3>5. \A g \in Handlers \ {h} : req'[g] = req[g]
      BY <2>2, OthersStay DEF Put, Toggle
    <3>6. ~Pending(h, f)
      BY <2>2 DEF PutGet, PutDecode, PutReject, PutDiff, ToggleGet, Accept, Pending, None
    <3>7. req'[h].at \notin {"persist", "audit"}
      <4>1. CASE PutDecode(h)
        BY <4>1 DEF PutDecode, TypeOK
      <4>2. CASE PutReject(h)
        BY <4>2 DEF PutReject, Answer, None, TypeOK
      <4>3. CASE PutGet(h) \/ PutDiff(h) \/ ToggleGet(h)
        BY <4>3 DEF PutGet, PutDiff, ToggleGet, TypeOK
      <4> QED BY <2>2, <4>1, <4>2, <4>3
    <3> QED BY <2>1, <3>2, <3>4, <3>5, <3>6, <3>7, FieldStays
  <2>3. ASSUME NEW h \in Handlers, Replace(h) \/ Update(h) PROVE FieldInv(f)'
    BY <1>3, <2>1, <2>3, FieldSwapped DEF AuditInv
  <2>4. ASSUME NEW h \in Handlers, Finish(h) PROVE FieldInv(f)'
    BY <1>3, <2>1, <2>4, FieldWritten
  <2>5. CASE Restart
    BY <1>3, <2>1, <2>5, FieldRestarted
  <2>6. CASE CycleStart \/ CycleEnd \/ UNCHANGED vars
    <3>1. UNCHANGED <<cfg, heap, req, file, audit>>
      BY <2>6, Zenon DEF CycleStart, CycleEnd, vars
    <3> QED BY <2>1, <3>1, FieldStays
  <2> QED BY <2>2, <2>3, <2>4, <2>5, <2>6 DEF Next, Put, Toggle
<1> QED BY <1>2, <1>3 DEF AuditInv

-----------------------------------------------------------------------------
(* Theorems.                                                               *)

\* The first process reads the first file.
LEMMA InvInit == Init => TypeOK /\ ToggleInv /\ FileIsLive /\ AuditInv /\ (ListsAgree => ArraysAgree)
<1> SUFFICES ASSUME Init
             PROVE  TypeOK /\ ToggleInv /\ FileIsLive /\ AuditInv /\ (ListsAgree => ArraysAgree)
  OBVIOUS
<1>1. /\ Initial["asns"] \in Values("asns") /\ Initial["rest"] \in Values("rest")
      /\ Initial["running"] \in Values("running") /\ Initial["dev"] \in Values("dev")
  BY ConfigAssumption DEF Values, Fields
<1>2. /\ Initial["asns"] \in Seq(ASNs) /\ Initial["running"] \in BOOLEAN /\ Initial["dev"] \in BOOLEAN
  BY <1>1, ConfigAssumption
<1>3. heap = Append(<<>>, Initial["asns"]) /\ file = Initial
  BY DEF Init
<1>4. heap \in Seq(Seq(ASNs)) /\ Len(heap) = 1 /\ heap[1] = Initial["asns"]
  BY <1>2, <1>3, EmptySeq, AppendProperties
<1>5. DOMAIN heap = 1..1 /\ Len(Initial["asns"]) \in Nat
  BY <1>2, <1>4, LenProperties
<1>6. cfg = [running |-> Initial["running"], dev |-> Initial["dev"], rest |-> Initial["rest"],
             arr |-> 1, len |-> Len(Initial["asns"])]
  BY DEF Init, Fresh
<1>7. Slice(cfg)
  BY <1>1, <1>2, <1>4, <1>5, <1>6 DEF Slice, Structs
<1>8. \A h \in Handlers : req[h] = None /\ Typed(req[h]) /\ Shows(req[h])
  BY DEF Init, Typed, Shows, None
<1>9. TypeOK
  <2>1. \A h \in Handlers : (req[h].at = "persist" <=> lock = h)
    BY <1>8, ConfigAssumption DEF Init, None
  <2> QED BY <1>1, <1>2, <1>3, <1>4, <1>7, <1>8, <2>1, ConfigAssumption DEF Init, TypeOK
<1>10. Contents(cfg, heap) = file
  <2>1. List(cfg, heap) = Initial["asns"]
    BY <1>2, <1>4, <1>6, SubSeqFull DEF List
  <2>2. \A f \in Fields : Contents(cfg, heap)[f] = Initial[f]
    BY <1>6, <2>1 DEF Contents, Fields
  <2>3. Contents(cfg, heap) = [f \in Fields |-> Initial[f]]
    BY <2>2 DEF Contents
  <2> QED BY <1>3, <2>3, ConfigAssumption
<1>11. ToggleInv
  BY <1>3, <1>6, <1>8 DEF Init, ToggleInv, None
<1>12. AuditInv
  <2>1. \A h \in Handlers : \A f : ~Pending(h, f)
    BY <1>8 DEF Pending, None
  <2>2. audit = file
    BY <1>3 DEF Init
  <2> QED BY <1>8, <1>10, <2>1, <2>2 DEF AuditInv, FieldInv
<1>13. ListsAgree => ArraysAgree
  BY <1>1, <1>3, <1>4, <1>5 DEF ListsAgree, ArraysAgree
<1> QED BY <1>9, <1>10, <1>11, <1>12, <1>13 DEF FileIsLive

\* Every variable has its type, slices stay inside their arrays, and the request that
\* is writing has the lock.
THEOREM TypeCorrect == Spec => []TypeOK
<1>1. Init => TypeOK
  BY InvInit
<1> QED BY <1>1, TypeNext, PTL DEF Spec

\* A start or stop answered 200 holds, in memory, in the file and after a restart, until
\* another start or stop or a PUT that names running or was decoded before it: whatever
\* the other bodies are, also where a list is decoded in place.
THEOREM ToggleHolds == Spec => []AnsweredToggleHolds
<1>1. Init => ToggleInv
  BY InvInit
<1>2. Spec => []ToggleInv
  BY <1>1, TypeCorrect, ToggleNext, PTL DEF Spec
<1>3. ToggleInv => AnsweredToggleHolds
  BY DEF ToggleInv, AnsweredToggleHolds
<1> QED BY <1>2, <1>3, PTL

\* While the lists agree, the file is the live config once the lock is free, unless its
\* last write failed.
THEOREM FileStaysLive ==
    ASSUME ListsAgree
    PROVE  Spec => []FileIsLive
<1>1. Init => ArraysAgree /\ FileIsLive
  BY InvInit
<1>2. TypeOK /\ TypeOK' /\ ArraysAgree /\ FileIsLive /\ [Next]_vars => ArraysAgree' /\ FileIsLive'
  BY ArraysNext, FileNext
<1>3. Spec => [](ArraysAgree /\ FileIsLive)
  BY <1>1, <1>2, TypeCorrect, PTL DEF Spec
<1> QED BY <1>3, PTL

\* While the lists agree, what the newest record of a field says is what is live, once
\* the request that changed the field is past its record, but for the fields of failed
\* writes, of crashes before the record, of two requests that both changed the field,
\* and of a PUT decoded over a config that was no longer live.
THEOREM ChangesReachTheLog ==
    ASSUME ListsAgree
    PROVE  Spec => []ChangesAreAudited
<1>1. Init => ArraysAgree /\ AuditInv
  BY InvInit
<1>2. TypeOK /\ TypeOK' /\ ArraysAgree /\ AuditInv /\ [Next]_vars => ArraysAgree' /\ AuditInv'
  BY ArraysNext, AuditNext
<1>3. Spec => [](ArraysAgree /\ AuditInv)
  BY <1>1, <1>2, TypeCorrect, PTL DEF Spec
<1>4. AuditInv => ChangesAreAudited
  BY DEF AuditInv, FieldInv, Pending, ChangesAreAudited
<1> QED BY <1>3, <1>4, PTL

=============================================================================
