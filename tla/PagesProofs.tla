----------------------------- MODULE PagesProofs -----------------------------
(***************************************************************************)
(* The invariants of the pages of the web client, for every value b of     *)
(* their constants, and what follows of them: for each page by itself, and *)
(* for the parts of module MCPages together.  With the list of tenants     *)
(* goes what the arithmetic of module Paging comes to.                     *)
(***************************************************************************)
EXTENDS MCPages, Paging, FiniteSetTheorems, SequenceTheorems,
        WellFoundedInduction, TLAPS

-----------------------------------------------------------------------------
(* Counting and ordering.                                                  *)

LEMMA LeastNumber ==
  ASSUME NEW S \in SUBSET Nat, S # {}
  PROVE  \E k \in S : \A m \in S : k <= m
<1>1. PICK k \in S : \A m \in S : ~ (<<m, k>> \in OpToRel(<, Nat))
  BY NatLessThanWellFounded, WFMin
<1>2. \A m \in S : ~(m < k)
  BY <1>1 DEF OpToRel
<1> QED
  BY <1>2

LEMMA CountUpTo ==
  ASSUME NEW n \in Nat
  PROVE  IsFiniteSet(1 .. n) /\ Cardinality(1 .. n) = n
<1>1. /\ 1 \in Int /\ n \in Int /\ n - 1 + 1 = n
      /\ (1 > n => n = 0)
  OBVIOUS
<1> QED
  BY <1>1, FS_Interval

(* In a finite set with a strict order R, every rank is that of exactly    *)
(* one element: ranks grow with the order, so no two elements share one,   *)
(* and there are as many ranks as elements.                                *)
StrictOrder(S, R) ==
  /\ \A x \in S : <<x, x>> \notin R
  /\ \A x, y \in S : x # y => <<x, y>> \in R \/ <<y, x>> \in R
  /\ \A x, y, z \in S : <<x, y>> \in R /\ <<y, z>> \in R => <<x, z>> \in R

Rank(S, R, t) == Cardinality({u \in S : <<u, t>> \in R})

HasRank(S, R, i) == \E t \in S : Rank(S, R, t) = i - 1

LEMMA RankedOnce ==
  ASSUME NEW S, IsFiniteSet(S), NEW R, StrictOrder(S, R)
  PROVE  /\ \A i \in 1 .. Cardinality(S) : HasRank(S, R, i)
         /\ \A t, v \in S : Rank(S, R, t) = Rank(S, R, v) => t = v
<1> DEFINE Below(t) == {u \in S : <<u, t>> \in R}
           n == Cardinality(S)
<1>0. n \in Nat
  BY FS_CardinalityType
<1>1. ASSUME NEW t \in S
      PROVE  Cardinality(Below(t)) \in 0 .. n - 1 /\ IsFiniteSet(Below(t))
  <2>1. Below(t) \in SUBSET S /\ Below(t) # S
    BY DEF StrictOrder
  <2> HIDE DEF Below
  <2>2. IsFiniteSet(Below(t)) /\ Cardinality(Below(t)) <= n /\ Cardinality(Below(t)) # n
    BY <2>1, FS_Subset
  <2>3. Cardinality(Below(t)) \in Nat
    BY <2>2, FS_CardinalityType
  <2> HIDE DEF n
  <2> QED
    BY <1>0, <2>2, <2>3
<1>2. ASSUME NEW t \in S, NEW v \in S, t # v
      PROVE  Cardinality(Below(t)) # Cardinality(Below(v))
  <2>1. ASSUME NEW x \in S, NEW y \in S, <<x, y>> \in R
        PROVE  Cardinality(Below(x)) # Cardinality(Below(y))
    <3>1. Below(x) \in SUBSET Below(y) /\ x \in Below(y) /\ x \notin Below(x)
      BY <2>1 DEF StrictOrder
    <3>2. IsFiniteSet(Below(y))
      BY <1>1
    <3> HIDE DEF Below
    <3> QED
      BY <3>1, <3>2, FS_Subset
  <2>2. <<t, v>> \in R \/ <<v, t>> \in R
    BY <1>2 DEF StrictOrder
  <2> HIDE DEF Below
  <2> QED
    BY <2>1, <2>2
<1>3. ASSUME NEW i \in 1 .. Cardinality(S) PROVE \E t \in S : Cardinality(Below(t)) = i - 1
  <2> SUFFICES ASSUME \A t \in S : Cardinality(Below(t)) # i - 1 PROVE FALSE
    OBVIOUS
  <2> DEFINE T == (0 .. n - 1) \ {i - 1}
             f == [t \in S |-> Cardinality(Below(t))]
  <2>1. f \in [S -> T]
    BY <1>1
  <2>2. IsFiniteSet(T) /\ Cardinality(T) < n
    <3>1. IsFiniteSet(0 .. n - 1) /\ Cardinality(0 .. n - 1) = n
      <4>1. /\ 0 \in Int /\ n - 1 \in Int /\ n - 1 - 0 + 1 = n
            /\ (0 > n - 1 => n = 0)
        BY <1>0
      <4> HIDE DEF n
      <4> QED
        BY <4>1, FS_Interval
    <3>2. i - 1 \in 0 .. n - 1
      BY <1>0
    <3>3. IsFiniteSet(T) /\ Cardinality(T) = n - 1
      <4> DEFINE I == 0 .. n - 1
                 x == i - 1
      <4>1. T = I \ {x} /\ IsFiniteSet(I) /\ Cardinality(I) = n /\ x \in I
        BY <3>1, <3>2
      <4> HIDE DEF I, x, T, n
      <4> QED
        BY <4>1, FS_RemoveElement
    <3> QED
      BY <1>0, <3>3
  <2>3. PICK t, v \in S : t # v /\ f[t] = f[v]
    <3> HIDE DEF f, T
    <3> QED
      BY <2>1, <2>2, FS_PigeonHole
  <2> HIDE DEF Below
  <2> QED
    BY <1>2, <2>3
<1> HIDE DEF Below
<1>4. \A t, v \in S : Cardinality(Below(t)) = Cardinality(Below(v)) => t = v
  BY <1>2
<1>5. ASSUME NEW i \in 1 .. Cardinality(S) PROVE HasRank(S, R, i)
  BY <1>3 DEF Below, Rank, HasRank
<1> QED
  BY <1>4, <1>5 DEF Below, Rank

-----------------------------------------------------------------------------
(* The form of a domain.  Until a field is changed it holds the domain it  *)
(* was filled from, or what the end of a creation has emptied it to.       *)
HostFilled(b) ==
  domain # HostForm(b)!New /\ ~hostTyped =>
    hostForm = HostForm(b)!defaultValues(domain) \/ hostForm = HostForm(b)!defaultValues(HostForm(b)!New)

HostInv(b) == HostForm(b)!TypeOK /\ HostFilled(b)

LEMMA HostPresets ==
  ASSUME NEW b, NEW p \in HostForm(b)!Presets
  PROVE  p \in Int /\ p >= 60
BY DEF HostForm!Presets, HostForm!Day

(* A field that is given the value it has stays as it is.                  *)
LEMMA HostKeeps ==
  ASSUME NEW s, s = [x \in DOMAIN s |-> s[x]], NEW v
  PROVE  [s EXCEPT !.port = s.port, !.enabled = v, !.interval = s.interval] = [s EXCEPT !.enabled = v]
OBVIOUS

LEMMA HostDefaults ==
  ASSUME NEW b, HostForm(b)!DomainFormAssumption, NEW d \in HostForm(b)!Domains \cup {HostForm(b)!New}
  PROVE  HostForm(b)!defaultValues(d) \in HostForm(b)!Fields
<1>1. CASE d = HostForm(b)!New
  BY <1>1 DEF HostForm!defaultValues, HostForm!Fields, HostForm!Hosts, HostForm!Targets, HostForm!Presets, HostForm!Day
<1>2. CASE d # HostForm(b)!New
  <2>1. /\ d.hostname \in HostForm(b)!Hosts /\ d.port = 443 /\ d.target_ip \in HostForm(b)!Targets
        /\ d.enabled \in BOOLEAN /\ d.interval \in b.intervals
    BY <1>2 DEF HostForm!Domains, HostForm!Hosts, HostForm!Targets
  <2>2. /\ HostForm(b)!presetForInterval(d.interval).preset \in HostForm(b)!Presets \cup {HostForm(b)!Custom}
        /\ HostForm(b)!presetForInterval(d.interval).custom \in b.intervals \cup {HostForm(b)!Blank}
    BY <2>1 DEF HostForm!presetForInterval
  <2> QED
    BY <1>2, <2>1, <2>2 DEF HostForm!defaultValues, HostForm!Fields
<1> QED
  BY <1>1, <1>2

LEMMA HostStarts ==
  ASSUME NEW b, HostForm(b)!DomainFormAssumption, HostForm(b)!Init
  PROVE  HostInv(b)
<1>1. HostForm(b)!TypeOK
  BY HostDefaults DEF HostForm!Init, HostForm!TypeOK
<1>2. HostFilled(b)
  BY DEF HostForm!Init, HostFilled
<1> QED
  BY <1>1, <1>2 DEF HostInv

LEMMA HostTyped ==
  ASSUME NEW b, HostInv(b), NEW f \in HostForm(b)!Fields, HostForm(b)!Type(f)
  PROVE  HostInv(b)'
BY DEF HostInv, HostFilled, HostForm!Type, HostForm!TypeOK

LEMMA HostSteps ==
  ASSUME NEW b, HostForm(b)!DomainFormAssumption, HostInv(b), HostForm(b)!Next
  PROVE  HostInv(b)'
<1>1. ASSUME NEW d \in HostForm(b)!Domains \cup {HostForm(b)!New}, HostForm(b)!Show(d)
      PROVE  HostInv(b)'
  BY <1>1, HostDefaults DEF HostForm!Show, HostInv, HostFilled, HostForm!TypeOK
<1>2. ASSUME NEW n \in b.typed \cup {HostForm(b)!Blank, HostForm(b)!Fractional}, HostForm(b)!TypeCustom(n)
      PROVE  HostInv(b)'
  <2>1. [hostForm EXCEPT !.custom = n, !.preset = IF n = HostForm(b)!Blank THEN @ ELSE HostForm(b)!Custom] \in HostForm(b)!Fields
    <3>1. hostForm \in HostForm(b)!Fields
      BY DEF HostInv, HostForm!TypeOK
    <3>2. n \in b.typed \cup b.intervals \cup {HostForm(b)!Blank, HostForm(b)!Fractional}
      BY <1>2
    <3>3. ASSUME NEW p \in HostForm(b)!Presets \cup {HostForm(b)!Custom}
          PROVE  [hostForm EXCEPT !.custom = n, !.preset = p] \in HostForm(b)!Fields
      BY <3>1, <3>2, <3>3, ZenonT(60) DEF HostForm!Fields
    <3>4. hostForm.preset \in HostForm(b)!Presets \cup {HostForm(b)!Custom}
      BY <3>1 DEF HostForm!Fields
    <3>5. (IF n = HostForm(b)!Blank THEN hostForm.preset ELSE HostForm(b)!Custom) \in HostForm(b)!Presets \cup {HostForm(b)!Custom}
      BY <3>4
    <3> QED
      BY <3>3, <3>5
  <2> QED
    BY <1>2, <2>1, HostTyped DEF HostForm!TypeCustom
<1>3. CASE HostForm(b)!TypeField
  <2>1. hostForm \in HostForm(b)!Fields
    BY DEF HostInv, HostForm!TypeOK
  <2>2. ASSUME NEW h \in HostForm(b)!Hosts PROVE [hostForm EXCEPT !.hostname = h] \in HostForm(b)!Fields
    BY <2>1, <2>2 DEF HostForm!Fields
  <2>3. ASSUME NEW n \in b.typed \cup {HostForm(b)!Blank, HostForm(b)!Fractional}
        PROVE  [hostForm EXCEPT !.port = n] \in HostForm(b)!Fields
    BY <2>1, <2>3 DEF HostForm!Fields
  <2>4. ASSUME NEW a \in HostForm(b)!Targets PROVE [hostForm EXCEPT !.target_ip = a] \in HostForm(b)!Fields
    BY <2>1, <2>4 DEF HostForm!Fields
  <2>5. ASSUME NEW e \in BOOLEAN PROVE [hostForm EXCEPT !.enabled = e] \in HostForm(b)!Fields
    BY <2>1, <2>5 DEF HostForm!Fields
  <2>6. ASSUME NEW p \in HostForm(b)!Presets \cup {HostForm(b)!Custom}
        PROVE  [hostForm EXCEPT !.preset = p] \in HostForm(b)!Fields
    BY <2>1, <2>6 DEF HostForm!Fields
  <2> QED
    BY <1>3, <2>2, <2>3, <2>4, <2>5, <2>6, HostTyped DEF HostForm!TypeField
<1>4. CASE HostForm(b)!Submit
  <2>1. HostForm(b)!Legal(HostForm(b)!Sent(hostForm)) \in BOOLEAN
    BY DEF HostForm!Legal
  <2>2. (domain = HostForm(b)!New) \in BOOLEAN
    OBVIOUS
  <2>3. sending' \in [legal : BOOLEAN, fresh : BOOLEAN] /\ UNCHANGED <<domain, hostForm, hostTyped>>
    BY <1>4, <2>1, <2>2 DEF HostForm!Submit
  <2> QED
    BY <2>3 DEF HostInv, HostFilled, HostForm!TypeOK
<1>5. CASE HostForm(b)!Succeed
  <2>1. HostForm(b)!defaultValues(HostForm(b)!New) \in HostForm(b)!Fields
    BY HostDefaults
  <2> QED
    BY <1>5, <2>1 DEF HostForm!Succeed, HostInv, HostFilled, HostForm!TypeOK
<1>6. CASE HostForm(b)!Fail
  BY <1>6 DEF HostForm!Fail, HostInv, HostFilled, HostForm!TypeOK
<1> QED
  BY <1>1, <1>2, <1>3, <1>4, <1>5, <1>6 DEF HostForm!Next

LEMMA HostStands ==
  ASSUME NEW b, HostInv(b), UNCHANGED hostVars
  PROVE  HostInv(b)'
BY DEF HostInv, HostFilled, HostForm!TypeOK, hostVars

LEMMA HostTells ==
  ASSUME NEW b, HostForm(b)!DomainFormAssumption, HostInv(b)
  PROVE  /\ HostForm(b)!TypeOK
         /\ HostForm(b)!SentIsStored
         /\ HostForm(b)!UntouchedKeepsDomain
<1>1. HostForm(b)!TypeOK
  BY DEF HostInv
<1>2. hostForm \in HostForm(b)!Fields /\ hostForm.enabled \in BOOLEAN
  BY <1>1 DEF HostForm!TypeOK, HostForm!Fields
<1>3. HostForm(b)!SentIsStored
  <2> SUFFICES ASSUME HostForm(b)!Accepts(hostForm)
               PROVE  \/ HostForm(b)!Stored(HostForm(b)!Sent(hostForm), domain = HostForm(b)!New) = HostForm(b)!Sent(hostForm)
                      \/ /\ domain = HostForm(b)!New /\ ~hostForm.enabled
                         /\ HostForm(b)!Stored(HostForm(b)!Sent(hostForm), TRUE) = [HostForm(b)!Sent(hostForm) EXCEPT !.enabled = TRUE]
    BY DEF HostForm!SentIsStored
  <2> DEFINE s == HostForm(b)!Sent(hostForm)
  <2>1. s.port # 0 /\ ~(s.interval <= 0)
    <3>1. /\ s.port = hostForm.port
          /\ s.interval = IF hostForm.custom # HostForm(b)!Blank THEN hostForm.custom ELSE hostForm.preset
      BY DEF HostForm!Sent
    <3>2. /\ hostForm.port \in 1 .. HostForm(b)!MaxPort
          /\ IF hostForm.custom = HostForm(b)!Blank THEN hostForm.preset # HostForm(b)!Custom ELSE hostForm.custom >= 60
      BY DEF HostForm!Accepts
    <3>3. hostForm.preset \in HostForm(b)!Presets \cup {HostForm(b)!Custom}
          /\ hostForm.custom \in b.typed \cup b.intervals \cup {HostForm(b)!Blank, HostForm(b)!Fractional}
      BY <1>2 DEF HostForm!Fields
    <3>4. hostForm.custom \in Int
      BY <3>3 DEF HostForm!Blank, HostForm!Fractional, HostForm!DomainFormAssumption
    <3>6. CASE hostForm.custom = HostForm(b)!Blank
      <4>1. hostForm.preset \in HostForm(b)!Presets /\ s.interval = hostForm.preset
        BY <3>1, <3>2, <3>3, <3>6
      <4> QED
        BY <3>1, <3>2, <4>1, HostPresets
    <3>7. CASE hostForm.custom # HostForm(b)!Blank
      <4>1. hostForm.custom >= 60 /\ s.interval = hostForm.custom
        BY <3>1, <3>2, <3>7
      <4> QED
        BY <3>1, <3>2, <3>4, <4>1
    <3> QED
      BY <3>6, <3>7
  <2>2. /\ s = [s EXCEPT !.port = s.port, !.enabled = s.enabled, !.interval = s.interval]
        /\ s.enabled = hostForm.enabled
    BY DEF HostForm!Sent
  <2>3. ASSUME NEW n \in BOOLEAN
        PROVE  HostForm(b)!Stored(s, n) = [s EXCEPT !.port = s.port, !.enabled = s.enabled \/ n, !.interval = s.interval]
    BY <2>1, Zenon DEF HostForm!Stored
  <2>4. CASE hostForm.enabled = TRUE
    <3>1. (s.enabled \/ domain = HostForm(b)!New) = s.enabled
      BY <2>2, <2>4
    <3> QED
      BY <2>2, <2>3, <3>1
  <2>5. CASE hostForm.enabled = FALSE /\ domain # HostForm(b)!New
    <3>1. (s.enabled \/ domain = HostForm(b)!New) = s.enabled
      BY <2>2, <2>5
    <3> QED
      BY <2>2, <2>3, <3>1
  <2>6. CASE hostForm.enabled = FALSE /\ domain = HostForm(b)!New
    <3>1. (s.enabled \/ TRUE) = TRUE
      OBVIOUS
    <3>2. HostForm(b)!Stored(s, TRUE) = [s EXCEPT !.port = s.port, !.enabled = TRUE, !.interval = s.interval]
      BY <2>3, <3>1
    <3>3. [s EXCEPT !.port = s.port, !.enabled = TRUE, !.interval = s.interval] = [s EXCEPT !.enabled = TRUE]
      <4>1. s = [x \in DOMAIN s |-> s[x]]
        BY DEF HostForm!Sent
      <4> HIDE DEF s
      <4> QED
        BY <4>1, HostKeeps
    <3> QED
      BY <2>6, <3>2, <3>3
  <2> QED
    BY <1>2, <2>4, <2>5, <2>6
<1>4. HostForm(b)!UntouchedKeepsDomain
  <2> SUFFICES ASSUME domain # HostForm(b)!New, ~hostTyped, hostForm.hostname # HostForm(b)!Empty
               PROVE  /\ HostForm(b)!Accepts(hostForm) <=> domain.interval >= 60
                      /\ HostForm(b)!Accepts(hostForm) => HostForm(b)!Sent(hostForm) = domain
    BY DEF HostForm!UntouchedKeepsDomain
  <2>1. hostForm = HostForm(b)!defaultValues(domain)
    BY DEF HostInv, HostFilled, HostForm!defaultValues
  <2>2. domain \in HostForm(b)!Domains /\ domain.interval \in Nat \ {0} /\ domain.port = 443
    BY <1>1 DEF HostForm!TypeOK, HostForm!Domains, HostForm!DomainFormAssumption
  <2>3. /\ hostForm.hostname = domain.hostname /\ hostForm.port = 443 /\ hostForm.target_ip = domain.target_ip
        /\ hostForm.enabled = domain.enabled
        /\ hostForm.preset = HostForm(b)!presetForInterval(domain.interval).preset
        /\ hostForm.custom = HostForm(b)!presetForInterval(domain.interval).custom
    BY <2>1, <2>2 DEF HostForm!defaultValues
  <2>4. /\ hostForm.custom = HostForm(b)!Blank => hostForm.preset = domain.interval /\ domain.interval \in HostForm(b)!Presets
        /\ hostForm.custom # HostForm(b)!Blank => hostForm.custom = domain.interval
    BY <2>2, <2>3 DEF HostForm!presetForInterval, HostForm!Blank
  <2>5. HostForm(b)!Accepts(hostForm) <=> domain.interval >= 60
    <3>1. hostForm.hostname # HostForm(b)!Empty /\ hostForm.port \in 1 .. HostForm(b)!MaxPort
      BY <2>3 DEF HostForm!MaxPort
    <3>2. ASSUME hostForm.custom = HostForm(b)!Blank
          PROVE  hostForm.preset # HostForm(b)!Custom /\ domain.interval >= 60
      BY <2>4, <3>2, HostPresets DEF HostForm!Custom
    <3>3. ASSUME hostForm.custom # HostForm(b)!Blank
          PROVE  hostForm.custom >= 60 <=> domain.interval >= 60
      BY <2>4, <3>3
    <3> QED
      BY <3>1, <3>2, <3>3 DEF HostForm!Accepts
  <2>6. HostForm(b)!Sent(hostForm).interval = domain.interval
    BY <2>4 DEF HostForm!Sent
  <2>7. HostForm(b)!Sent(hostForm) = domain
    BY <2>2, <2>3, <2>6 DEF HostForm!Sent, HostForm!Domains
  <2> QED
    BY <2>5, <2>7
<1> QED
  BY <1>1, <1>3, <1>4

-----------------------------------------------------------------------------
(* The form of an endpoint.  What was not changed by hand is what is       *)
(* stored, and what is stored is what a creation or an update could leave: *)
(* values under the keys of the type only, all that the type requires, and *)
(* no value of a header without its name.                                  *)
TargetShows(b) ==
  /\ targetForm.named \/ "name" \in targetTyped
  /\ targetForm.type = stored.type \/ "type" \in targetTyped
  /\ \A k \in TargetForm(b)!Fields : targetForm.config[k] = stored.config[k] \/ k \in targetTyped

TargetHolds(b, type, c) ==
  /\ \A k \in TargetForm(b)!Fields : c[k] # TargetForm(b)!Empty => k \in TargetForm(b)!Inputs(type)
  /\ \A k \in TargetForm(b)!Required[type] : c[k] # TargetForm(b)!Empty
  /\ "auth_header_value" \in TargetForm(b)!Fields /\ c["auth_header_value"] # TargetForm(b)!Empty =>
       c["auth_header_name"] # TargetForm(b)!Empty

TargetInv(b) ==
  /\ TargetForm(b)!TypeOK
  /\ TargetShows(b)
  /\ TargetHolds(b, stored.type, stored.config)

(* What a type requires is shown for it, and is no header.                 *)
LEMMA TargetKeys ==
  ASSUME NEW b, TargetForm(b)!EndpointFormAssumption, NEW type \in b.types
  PROVE  /\ TargetForm(b)!Required[type] \subseteq TargetForm(b)!Inputs(type)
         /\ TargetForm(b)!Inputs(type) \subseteq TargetForm(b)!Fields
         /\ "auth_header_value" \notin TargetForm(b)!Required[type]
         /\ "auth_header_name" \notin TargetForm(b)!Required[type]
         /\ "auth_header_value" \in TargetForm(b)!Inputs(type) <=> type = "webhook"
         /\ "auth_header_name" \in TargetForm(b)!Inputs(type) <=> type = "webhook"
         /\ "type" \notin TargetForm(b)!Inputs(type)
<1>1. type \in {"email", "telegram", "webhook"}
  BY DEF TargetForm!EndpointFormAssumption
<1>2. TargetForm(b)!Required[type] \subseteq {"recipient_email", "bot_token", "chat_id", "url"}
  BY <1>1 DEF TargetForm!Required
<1> QED
  BY <1>1, <1>2 DEF TargetForm!Inputs, TargetForm!Fields

(* What is sent and stored under a key.                                    *)
LEMMA TargetSent ==
  ASSUME NEW b, TargetForm(b)!EndpointFormAssumption, TargetForm(b)!TypeOK,
         NEW k \in TargetForm(b)!Fields
  PROVE  /\ k \notin TargetForm(b)!Inputs(targetForm.type) => TargetForm(b)!Payload(targetForm)[k] = TargetForm(b)!Empty
         /\ k \in TargetForm(b)!Inputs(targetForm.type) /\ k # "auth_header_value" =>
              TargetForm(b)!Payload(targetForm)[k] = targetForm.config[k]
         /\ targetForm.config["auth_header_name"] # TargetForm(b)!Empty /\ k \in TargetForm(b)!Inputs(targetForm.type) =>
              TargetForm(b)!Payload(targetForm)[k] = targetForm.config[k]
         /\ TargetForm(b)!Payload(targetForm)[k] \in b.values \cup {TargetForm(b)!Empty, TargetForm(b)!Mask}
BY DEF TargetForm!Payload, TargetForm!TypeOK, TargetForm!Configs

LEMMA TargetStores ==
  ASSUME NEW b, TargetForm(b)!EndpointFormAssumption, TargetForm(b)!TypeOK
  PROVE  LET s == TargetForm(b)!Payload(targetForm)
             r == TargetForm(b)!Stored(targetForm)
         IN  /\ r = [type |-> targetForm.type, config |-> r.config]
             /\ r.type = targetForm.type
             /\ r.config = [k \in TargetForm(b)!Fields |-> r.config[k]]
             /\ \A k \in TargetForm(b)!Fields :
                  /\ k \in TargetForm(b)!Required[targetForm.type] =>
                       r.config[k] = TargetForm(b)!Kept(k, s, stored)
                  /\ k # "auth_header_value" /\ k \notin TargetForm(b)!Required[targetForm.type] => r.config[k] = s[k]
                  /\ targetForm.type # "webhook" /\ k \notin TargetForm(b)!Required[targetForm.type] => r.config[k] = s[k]
             /\ targetForm.type = "webhook" =>
                  r.config["auth_header_value"] =
                    IF s["auth_header_name"] = TargetForm(b)!Empty THEN TargetForm(b)!Empty
                    ELSE IF s["auth_header_name"] = stored.config["auth_header_name"]
                    THEN TargetForm(b)!Kept("auth_header_value", s, stored)
                    ELSE s["auth_header_value"]
<1> DEFINE s == TargetForm(b)!Payload(targetForm)
           r == TargetForm(b)!Stored(targetForm)
<1>1. /\ r = [type |-> targetForm.type, config |-> r.config] /\ r.type = targetForm.type
      /\ r.config = TargetForm(b)!mergeEndpointConfig(targetForm.type, s, stored)
  BY DEF TargetForm!Stored
<1>2. targetForm.type \in b.types
  BY DEF TargetForm!TypeOK
<1>3. r.config = [k \in TargetForm(b)!Fields |-> r.config[k]]
  BY <1>1 DEF TargetForm!mergeEndpointConfig
<1>4. ASSUME NEW k \in TargetForm(b)!Fields
      PROVE  /\ k \in TargetForm(b)!Required[targetForm.type] =>
                  r.config[k] = TargetForm(b)!Kept(k, s, stored)
             /\ k # "auth_header_value" /\ k \notin TargetForm(b)!Required[targetForm.type] => r.config[k] = s[k]
             /\ targetForm.type # "webhook" /\ k \notin TargetForm(b)!Required[targetForm.type] => r.config[k] = s[k]
  <2>1. CASE k \in TargetForm(b)!Required[targetForm.type]
    <3>1. k # "auth_header_value"
      BY <1>2, <2>1, TargetKeys
    <3>2. r.config[k] = TargetForm(b)!Kept(k, s, stored)
      BY <1>1, <1>4, <2>1, <3>1 DEF TargetForm!mergeEndpointConfig
    <3> QED
      BY <2>1, <3>2
  <2>2. CASE k \notin TargetForm(b)!Required[targetForm.type] /\ k # "auth_header_value"
    <3>1. r.config[k] = s[k]
      BY <1>1, <1>4, <2>2 DEF TargetForm!mergeEndpointConfig
    <3> QED
      BY <2>2, <3>1
  <2>3. CASE k \notin TargetForm(b)!Required[targetForm.type] /\ targetForm.type # "webhook"
    <3>1. r.config[k] = s[k]
      BY <1>1, <1>4, <2>3 DEF TargetForm!mergeEndpointConfig
    <3> QED
      BY <2>3, <3>1
  <2>4. CASE k = "auth_header_value" /\ k \notin TargetForm(b)!Required[targetForm.type] /\ targetForm.type = "webhook"
    BY <2>4
  <2> QED
    BY <2>1, <2>2, <2>3, <2>4
<1>5. ASSUME targetForm.type = "webhook"
      PROVE  r.config["auth_header_value"] =
                IF s["auth_header_name"] = TargetForm(b)!Empty THEN TargetForm(b)!Empty
                ELSE IF s["auth_header_name"] = stored.config["auth_header_name"]
                THEN TargetForm(b)!Kept("auth_header_value", s, stored)
                ELSE s["auth_header_value"]
  <2>1. "auth_header_value" \in TargetForm(b)!Fields /\ "auth_header_value" \notin TargetForm(b)!Required[targetForm.type]
    BY <1>2, <1>5, TargetKeys
  <2> QED
    BY <1>1, <1>5, <2>1 DEF TargetForm!mergeEndpointConfig
<1> QED
  BY <1>1, <1>3, <1>4, <1>5

(* What is required and filled in is stored filled in.                     *)
LEMMA TargetAccepts ==
  ASSUME NEW b, TargetForm(b)!EndpointFormAssumption, TargetForm(b)!TypeOK, TargetForm(b)!Valid(targetForm)
  PROVE  TargetForm(b)!validateEndpointConfig(TargetForm(b)!Stored(targetForm))
<1>1. targetForm.type \in b.types
  BY DEF TargetForm!TypeOK
<1>2. ASSUME NEW k \in TargetForm(b)!Required[targetForm.type]
      PROVE  TargetForm(b)!Stored(targetForm).config[k] # TargetForm(b)!Empty
  <2>1. k \in TargetForm(b)!Inputs(targetForm.type) /\ k \in TargetForm(b)!Fields /\ k # "auth_header_value"
    BY <1>1, <1>2, TargetKeys
  <2>2. TargetForm(b)!Payload(targetForm)[k] = targetForm.config[k] /\ targetForm.config[k] # TargetForm(b)!Empty
    BY <2>1, TargetSent, <1>2 DEF TargetForm!Valid
  <2>3. TargetForm(b)!Stored(targetForm).config[k] = TargetForm(b)!Kept(k, TargetForm(b)!Payload(targetForm), stored)
    BY <1>2, <2>1, TargetStores
  <2> QED
    BY <2>2, <2>3 DEF TargetForm!Kept
<1>3. TargetForm(b)!Stored(targetForm).type = targetForm.type
  BY TargetStores
<1> QED
  BY <1>2, <1>3 DEF TargetForm!validateEndpointConfig

LEMMA TargetStarts ==
  ASSUME NEW b, TargetForm(b)!EndpointFormAssumption, TargetForm(b)!Init
  PROVE  TargetInv(b)
<1>1. PICK type \in b.types, c \in [TargetForm(b)!Fields -> b.values \cup {TargetForm(b)!Empty}] :
        TargetForm(b)!Stores(type, c) /\ stored = [type |-> type, config |-> c]
  BY DEF TargetForm!Init
<1>2. c \in TargetForm(b)!Configs
  BY <1>1 DEF TargetForm!Configs
<1>3. TargetForm(b)!TypeOK
  BY <1>1, <1>2 DEF TargetForm!Init, TargetForm!TypeOK, TargetForm!endpointDefaults
<1>4. TargetShows(b)
  BY DEF TargetForm!Init, TargetForm!endpointDefaults, TargetShows
<1>5. TargetHolds(b, stored.type, stored.config)
  BY <1>1 DEF TargetForm!Stores, TargetHolds
<1> QED
  BY <1>3, <1>4, <1>5 DEF TargetInv

LEMMA TargetSaved ==
  ASSUME NEW b, TargetForm(b)!EndpointFormAssumption, TargetInv(b), TargetForm(b)!Save
  PROVE  TargetInv(b)'
<1> DEFINE s == TargetForm(b)!Payload(targetForm)
           r == TargetForm(b)!Stored(targetForm)
           type == targetForm.type
<1>1. /\ stored' = r /\ targetForm' = TargetForm(b)!endpointDefaults(r) /\ targetTyped' = {}
      /\ TargetForm(b)!Valid(targetForm) /\ TargetForm(b)!TypeOK
  BY DEF TargetForm!Save, TargetInv
<1>2. type \in b.types /\ r.type = type
  BY <1>1, TargetStores DEF TargetForm!TypeOK
<1>3. ASSUME NEW k \in TargetForm(b)!Fields
      PROVE  r.config[k] \in b.values \cup {TargetForm(b)!Empty, TargetForm(b)!Mask}
  <2>1. s[k] \in b.values \cup {TargetForm(b)!Empty, TargetForm(b)!Mask}
    BY <1>1, <1>3, TargetSent
  <2>2. stored.config[k] \in b.values \cup {TargetForm(b)!Empty, TargetForm(b)!Mask}
    BY <1>1, <1>3 DEF TargetForm!TypeOK, TargetForm!Configs
  <2>3. TargetForm(b)!Kept(k, s, stored) \in b.values \cup {TargetForm(b)!Empty, TargetForm(b)!Mask}
    BY <2>1, <2>2 DEF TargetForm!Kept
  <2>4. \/ r.config[k] = TargetForm(b)!Kept(k, s, stored) \/ r.config[k] = s[k] \/ r.config[k] = TargetForm(b)!Empty
    BY <1>1, <1>3, TargetStores
  <2> QED
    BY <2>1, <2>3, <2>4
<1>4. r.config \in TargetForm(b)!Configs
  BY <1>1, <1>3, TargetStores DEF TargetForm!Configs
<1>5. TargetForm(b)!TypeOK'
  <2>1. r \in [type : b.types, config : TargetForm(b)!Configs]
    <3>1. r = [type |-> type, config |-> r.config]
      BY <1>1, TargetStores
    <3> HIDE DEF r
    <3> QED
      BY <1>2, <1>4, <3>1
  <2> QED
    BY <1>1, <1>2, <1>4, <2>1 DEF TargetForm!TypeOK, TargetForm!endpointDefaults
<1>6. TargetShows(b)'
  BY <1>1 DEF TargetShows, TargetForm!endpointDefaults
<1>7. ASSUME NEW k \in TargetForm(b)!Fields, k \notin TargetForm(b)!Inputs(type)
      PROVE  r.config[k] = TargetForm(b)!Empty
  <2>1. s[k] = TargetForm(b)!Empty
    BY <1>1, <1>7, TargetSent
  <2>2. k \notin TargetForm(b)!Required[type] /\ (k = "auth_header_value" => type # "webhook")
    BY <1>2, <1>7, TargetKeys
  <2> QED
    BY <1>1, <1>7, <2>1, <2>2, TargetStores
<1>8. \A k \in TargetForm(b)!Required[type] : r.config[k] # TargetForm(b)!Empty
  BY <1>1, <1>2, TargetAccepts DEF TargetForm!validateEndpointConfig
<1>9. ASSUME "auth_header_value" \in TargetForm(b)!Fields, r.config["auth_header_value"] # TargetForm(b)!Empty
      PROVE  r.config["auth_header_name"] # TargetForm(b)!Empty
  <2>1. type = "webhook"
    BY <1>2, <1>7, <1>9, TargetKeys
  <2>2. "auth_header_name" \in TargetForm(b)!Fields /\ "auth_header_name" \notin TargetForm(b)!Required[type]
    BY <1>2, <2>1, TargetKeys
  <2>3. s["auth_header_name"] # TargetForm(b)!Empty
    BY <1>1, <1>9, <2>1, TargetStores
  <2>4. r.config["auth_header_name"] = s["auth_header_name"]
    BY <1>1, <2>2, TargetStores
  <2> QED
    BY <2>3, <2>4
<1>10. TargetHolds(b, stored.type, stored.config)'
  BY <1>1, <1>2, <1>7, <1>8, <1>9 DEF TargetHolds
<1> QED
  BY <1>5, <1>6, <1>10 DEF TargetInv

LEMMA TargetSteps ==
  ASSUME NEW b, TargetForm(b)!EndpointFormAssumption, TargetInv(b), TargetForm(b)!Next
  PROVE  TargetInv(b)'
<1>1. CASE TargetForm(b)!TypeName
  BY <1>1 DEF TargetForm!TypeName, TargetInv, TargetForm!TypeOK, TargetShows, TargetHolds
<1>2. ASSUME NEW type \in b.types, TargetForm(b)!ChooseType(type) PROVE TargetInv(b)'
  BY <1>2 DEF TargetForm!ChooseType, TargetInv, TargetForm!TypeOK, TargetShows, TargetHolds
<1>3. ASSUME NEW k \in TargetForm(b)!Fields, NEW v \in b.values \cup {TargetForm(b)!Empty, TargetForm(b)!Mask},
             TargetForm(b)!TypeValue(k, v)
      PROVE  TargetInv(b)'
  <2>1. /\ targetForm \in [named : BOOLEAN, type : b.types, config : TargetForm(b)!Configs]
        /\ targetForm' = [targetForm EXCEPT !.config = [targetForm.config EXCEPT ![k] = v]]
        /\ targetTyped' = targetTyped \cup {k} /\ stored' = stored
    BY <1>3 DEF TargetForm!TypeValue, TargetInv, TargetForm!TypeOK
  <2>2. [targetForm.config EXCEPT ![k] = v] \in TargetForm(b)!Configs
    BY <1>3, <2>1 DEF TargetForm!Configs
  <2>3. TargetForm(b)!TypeOK'
    BY <2>1, <2>2, <1>3 DEF TargetInv, TargetForm!TypeOK
  <2>4. targetForm.config \in TargetForm(b)!Configs /\ targetForm'.config = [targetForm.config EXCEPT ![k] = v]
        /\ targetForm'.named = targetForm.named /\ targetForm'.type = targetForm.type
    BY <2>1
  <2>5. TargetShows(b)'
    BY <2>1, <2>4 DEF TargetInv, TargetShows, TargetForm!Configs
  <2> QED
    BY <2>1, <2>3, <2>5 DEF TargetInv, TargetHolds
<1> QED
  BY <1>1, <1>2, <1>3, TargetSaved DEF TargetForm!Next

LEMMA TargetStands ==
  ASSUME NEW b, TargetInv(b), UNCHANGED targetVars
  PROVE  TargetInv(b)'
BY DEF TargetInv, TargetForm!TypeOK, TargetShows, TargetHolds, targetVars

LEMMA TargetTells ==
  ASSUME NEW b, TargetForm(b)!EndpointFormAssumption, TargetInv(b)
  PROVE  /\ TargetForm(b)!TypeOK
         /\ TargetForm(b)!AcceptedByTheServer
         /\ TargetForm(b)!UntouchedKeepsEndpoint
         /\ TargetForm(b)!SavedIsShown
         /\ TargetForm(b)!HeaderValueStaysWithItsName
<1> DEFINE s == TargetForm(b)!Payload(targetForm)
           r == TargetForm(b)!Stored(targetForm)
           type == targetForm.type
<1>1. TargetForm(b)!TypeOK
  BY DEF TargetInv
<1>2. type \in b.types
  BY <1>1 DEF TargetForm!TypeOK
<1>3. TargetForm(b)!AcceptedByTheServer
  BY <1>1, TargetAccepts DEF TargetForm!AcceptedByTheServer
<1>4. TargetForm(b)!UntouchedKeepsEndpoint
  <2> SUFFICES ASSUME targetTyped \subseteq {"type"}, type = stored.type, targetForm.named
               PROVE  TargetForm(b)!Valid(targetForm) /\ r = stored
    BY DEF TargetForm!UntouchedKeepsEndpoint
  <2>1. ASSUME NEW k \in TargetForm(b)!Fields PROVE targetForm.config[k] = stored.config[k]
    <3>1. k # "type"
      BY <2>1, TargetKeys DEF TargetForm!Fields
    <3> QED
      BY <2>1, <3>1 DEF TargetInv, TargetShows
  <2>2. TargetForm(b)!Valid(targetForm)
    BY <1>2, <2>1, TargetKeys DEF TargetForm!Valid, TargetInv, TargetHolds
  <2>3. ASSUME NEW k \in TargetForm(b)!Fields PROVE r.config[k] = stored.config[k]
    <3>1. CASE k \in TargetForm(b)!Required[type]
      <4>1. s[k] = stored.config[k]
        BY <1>1, <1>2, <2>1, <3>1, TargetKeys, TargetSent
      <4>2. r.config[k] = TargetForm(b)!Kept(k, s, stored)
        BY <1>1, <3>1, <2>3, TargetStores
      <4> QED
        BY <4>1, <4>2 DEF TargetForm!Kept
    <3>2. CASE k \notin TargetForm(b)!Required[type] /\ (k # "auth_header_value" \/ type # "webhook")
      <4>1. r.config[k] = s[k]
        BY <1>1, <2>3, <3>2, TargetStores
      <4>2. CASE k \in TargetForm(b)!Inputs(type)
        BY <1>1, <1>2, <2>1, <2>3, <3>2, <4>1, <4>2, TargetKeys, TargetSent
      <4>3. CASE k \notin TargetForm(b)!Inputs(type)
        BY <1>1, <2>3, <4>1, <4>3, TargetSent DEF TargetInv, TargetHolds
      <4> QED
        BY <4>2, <4>3
    <3>3. CASE k = "auth_header_value" /\ type = "webhook"
      <4>1. /\ "auth_header_name" \in TargetForm(b)!Fields /\ "auth_header_name" \in TargetForm(b)!Inputs(type)
            /\ k \in TargetForm(b)!Inputs(type)
        BY <1>2, <3>3, TargetKeys
      <4>2. s["auth_header_name"] = stored.config["auth_header_name"] /\ targetForm.config["auth_header_name"] = stored.config["auth_header_name"]
        BY <1>1, <2>1, <4>1, TargetSent
      <4>3. CASE stored.config["auth_header_name"] = TargetForm(b)!Empty
        <5>1. stored.config[k] = TargetForm(b)!Empty
          BY <2>3, <3>3, <4>3 DEF TargetInv, TargetHolds
        <5> QED
          BY <1>1, <3>3, <4>2, <4>3, <5>1, TargetStores
      <4>4. CASE stored.config["auth_header_name"] # TargetForm(b)!Empty
        <5>1. s[k] = stored.config[k]
          BY <1>1, <2>1, <2>3, <4>1, <4>2, <4>4, TargetSent
        <5>2. r.config[k] = TargetForm(b)!Kept(k, s, stored)
          BY <1>1, <3>3, <4>2, <4>4, TargetStores
        <5> QED
          BY <5>1, <5>2 DEF TargetForm!Kept
      <4> QED
        BY <4>3, <4>4
    <3> QED
      BY <3>1, <3>2, <3>3, <1>2, TargetKeys
  <2>4. /\ stored = [type |-> stored.type, config |-> stored.config]
        /\ stored.config = [k \in TargetForm(b)!Fields |-> stored.config[k]]
    BY <1>1 DEF TargetForm!TypeOK, TargetForm!Configs
  <2>5. r.config = [k \in TargetForm(b)!Fields |-> r.config[k]] /\ r = [type |-> type, config |-> r.config]
    BY <1>1, TargetStores
  <2>6. r.config = stored.config
    BY <2>3, <2>4, <2>5
  <2> QED
    BY <2>2, <2>4, <2>5, <2>6
<1>5. TargetForm(b)!SavedIsShown
  <2> SUFFICES ASSUME TargetForm(b)!Valid(targetForm), NEW k \in TargetForm(b)!Inputs(type)
               PROVE  \/ r.config[k] = targetForm.config[k]
                      \/ targetForm.config[k] = TargetForm(b)!Mask /\ r.config[k] = stored.config[k]
                      \/ /\ k = "auth_header_value"
                         /\ \/ targetForm.config["auth_header_name"] = TargetForm(b)!Empty /\ r.config[k] = TargetForm(b)!Empty
                            \/ /\ targetForm.config["auth_header_name"] = stored.config["auth_header_name"]
                               /\ targetForm.config[k] = TargetForm(b)!Empty
    BY DEF TargetForm!SavedIsShown
  <2>1. k \in TargetForm(b)!Fields
    BY <1>2, TargetKeys
  <2>2. TargetForm(b)!Masked(stored)[k] = TargetForm(b)!Mask \/ TargetForm(b)!Masked(stored)[k] = stored.config[k]
    BY <2>1 DEF TargetForm!Masked
  <2>3. \/ TargetForm(b)!Kept(k, s, stored) = s[k]
        \/ TargetForm(b)!Kept(k, s, stored) = stored.config[k] /\ s[k] = TargetForm(b)!Empty
        \/ TargetForm(b)!Kept(k, s, stored) = stored.config[k] /\ s[k] = TargetForm(b)!Mask
    BY <2>2 DEF TargetForm!Kept
  <2>4. CASE k # "auth_header_value"
    <3>1. s[k] = targetForm.config[k]
      BY <1>1, <2>1, <2>4, TargetSent
    <3>2. CASE k \in TargetForm(b)!Required[type]
      <4>1. s[k] # TargetForm(b)!Empty
        BY <3>1, <3>2 DEF TargetForm!Valid
      <4>2. r.config[k] = TargetForm(b)!Kept(k, s, stored)
        BY <1>1, <2>1, <3>2, TargetStores
      <4> QED
        BY <2>3, <3>1, <4>1, <4>2
    <3>3. CASE k \notin TargetForm(b)!Required[type]
      BY <1>1, <2>1, <2>4, <3>1, <3>3, TargetStores
    <3> QED
      BY <3>2, <3>3
  <2>5. CASE k = "auth_header_value"
    <3>1. /\ type = "webhook" /\ "auth_header_name" \in TargetForm(b)!Fields
          /\ "auth_header_name" \in TargetForm(b)!Inputs(type)
      BY <1>2, <2>5, TargetKeys
    <3>2. s["auth_header_name"] = targetForm.config["auth_header_name"]
      BY <1>1, <3>1, TargetSent
    <3>3. CASE targetForm.config["auth_header_name"] = TargetForm(b)!Empty
      BY <1>1, <2>5, <3>1, <3>2, <3>3, TargetStores
    <3>4. CASE targetForm.config["auth_header_name"] # TargetForm(b)!Empty
      <4>1. s[k] = targetForm.config[k]
        BY <1>1, <2>1, <3>4, TargetSent
      <4>2. CASE targetForm.config["auth_header_name"] = stored.config["auth_header_name"]
        <5>1. r.config[k] = TargetForm(b)!Kept(k, s, stored)
          BY <1>1, <2>5, <3>1, <3>2, <3>4, <4>2, TargetStores
        <5> QED
          BY <2>3, <2>5, <4>1, <4>2, <5>1
      <4>3. CASE targetForm.config["auth_header_name"] # stored.config["auth_header_name"]
        BY <1>1, <2>5, <3>1, <3>2, <3>4, <4>1, <4>3, TargetStores
      <4> QED
        BY <4>2, <4>3
    <3> QED
      BY <3>3, <3>4
  <2> QED
    BY <2>4, <2>5
<1>6. TargetForm(b)!HeaderValueStaysWithItsName
  <2> SUFFICES ASSUME TargetForm(b)!Valid(targetForm), type = "webhook",
                      targetForm.config["auth_header_value"] \in {TargetForm(b)!Empty, TargetForm(b)!Mask},
                      targetForm.config["auth_header_name"] # stored.config["auth_header_name"]
               PROVE  r.config["auth_header_value"] \in {TargetForm(b)!Empty, TargetForm(b)!Mask}
    BY DEF TargetForm!HeaderValueStaysWithItsName
  <2>1. /\ "auth_header_name" \in TargetForm(b)!Fields /\ "auth_header_name" \in TargetForm(b)!Inputs(type)
        /\ "auth_header_value" \in TargetForm(b)!Fields /\ "auth_header_value" \in TargetForm(b)!Inputs(type)
    BY <1>2, TargetKeys
  <2>2. s["auth_header_name"] = targetForm.config["auth_header_name"]
    BY <1>1, <2>1, TargetSent
  <2>3. targetForm.config["auth_header_name"] # TargetForm(b)!Empty => s["auth_header_value"] = targetForm.config["auth_header_value"]
    BY <1>1, <2>1, TargetSent
  <2> QED
    BY <1>1, <2>2, <2>3, TargetStores
<1> QED
  BY <1>1, <1>3, <1>4, <1>5, <1>6

-----------------------------------------------------------------------------
(* The two forms of policies.  A form that nobody has changed holds the    *)
(* policy it is of, as the page has read it.                               *)
RulePolicies(b) == [Rules(b)!Scopes -> Rules(b)!View \cup {Rules(b)!None}]
RuleReadings(b) == [at : {"idle", "asked", "answered"}, data : RulePolicies(b)]
RuleTexts(b) == b.texts \cup SUBSET (Nat \cup {Rules(b)!Blank})
RuleForms(b) == [text : RuleTexts(b), ends : SUBSET b.endpoints, typed : BOOLEAN]
RuleCalls(b) ==
  [at : {"asked", "done", "refused"}, scope : Rules(b)!Scopes,
   days : SUBSET (Nat \cup {Rules(b)!Fraction}), ends : SUBSET b.endpoints]

RulesRead(b) ==
  /\ policy \in RulePolicies(b)
  /\ shown \in RulePolicies(b)
  /\ loaded \in BOOLEAN
  /\ ruleReading \in RuleReadings(b)

RulesChosen(b) ==
  /\ listed \subseteq b.domains
  /\ ruleSelected \in b.domains \cup {Rules(b)!Absent}

RuleIsShown(f, p) == f.ends = p.ends /\ f.text = IF p.days = {} THEN {-1} ELSE p.days

RuleFormsOK(b) ==
  /\ ruleForm \in [Rules(b)!Forms -> RuleForms(b)]
  /\ \A f \in Rules(b)!Forms :
       Rules(b)!Mounted(f) /\ ~ruleForm[f].typed /\ shown[Rules(b)!ScopeOf(f)] # Rules(b)!None =>
         RuleIsShown(ruleForm[f], shown[Rules(b)!ScopeOf(f)])

RuleCallsOK(b) ==
  /\ ruleCall = [c \in b.calls |-> ruleCall[c]]
  /\ \A c \in b.calls : ruleCall[c] = Rules(b)!IdleCall \/ ruleCall[c] \in RuleCalls(b)

RuleHistoryOK(b) ==
  /\ saved = [s \in Rules(b)!Scopes |-> saved[s]]
  /\ ruleCrossed \subseteq Rules(b)!Scopes
  /\ saves \in 0 .. b.maxSaves

(* Where no two saves have met, the policy is the one saved last, or the   *)
(* one save under way brings it there; and the page has it, or will read   *)
(* it.                                                                     *)
RuleUnder(c, s) == ruleCall[c].at # "idle" /\ ruleCall[c].scope = s

RuleBrings(b, c, s) ==
  /\ ruleCall[c].at = "asked" => saved[s] = Rules(b)!Result(s, ruleCall[c].days, ruleCall[c].ends)
  /\ ruleCall[c].at = "done" => saved[s] = policy[s]

RuleSettled(b, s) ==
  /\ (\A c \in b.calls : ~RuleUnder(c, s)) => saved[s] = policy[s]
  /\ \A c \in b.calls : RuleUnder(c, s) => RuleBrings(b, c, s)
  /\ \A c, d \in b.calls : RuleUnder(c, s) /\ RuleUnder(d, s) => c = d

RuleFresh(b, s) ==
  \/ \E c \in b.calls : ruleCall[c].at = "done" /\ ruleCall[c].scope = s
  \/ ruleReading.at = "asked"
  \/ ruleReading.at = "answered" /\ ruleReading.data[s] = policy[s]
  \/ ruleReading.at = "idle" /\ shown[s] = policy[s]

RuleInv(b) ==
  /\ RulesRead(b)
  /\ RulesChosen(b)
  /\ RuleFormsOK(b)
  /\ RuleCallsOK(b)
  /\ RuleHistoryOK(b)
  /\ \A s \in Rules(b)!Scopes \ ruleCrossed : RuleSettled(b, s) /\ RuleFresh(b, s)

LEMMA RuleFills ==
  ASSUME NEW b, NEW p \in Rules(b)!View \cup {Rules(b)!None}
  PROVE  /\ Rules(b)!Filled(p) \in RuleForms(b)
         /\ p # Rules(b)!None => RuleIsShown(Rules(b)!Filled(p), p)
         /\ Rules(b)!Filled(p).typed = FALSE
<1>1. CASE p = Rules(b)!None
  <2>1. Rules(b)!DefaultText \in RuleTexts(b)
    BY DEF Rules!DefaultText, RuleTexts
  <2> QED
    BY <1>1, <2>1 DEF Rules!Filled, RuleForms
<1>2. CASE p # Rules(b)!None
  <2>1. p.days \in SUBSET Nat /\ p.ends \in SUBSET b.endpoints
    BY <1>2 DEF Rules!View
  <2>2. Rules(b)!Joined(p.days) \in RuleTexts(b)
    BY <2>1 DEF Rules!Joined, RuleTexts
  <2>3. Rules(b)!Joined(p.days) = IF p.days = {} THEN {-1} ELSE p.days
    BY DEF Rules!Joined, Rules!Blank
  <2>4. Rules(b)!Filled(p) = [text |-> Rules(b)!Joined(p.days), ends |-> p.ends, typed |-> FALSE]
    BY <1>2 DEF Rules!Filled
  <2> QED
    BY <2>1, <2>2, <2>3, <2>4 DEF RuleForms, RuleIsShown
<1> QED
  BY <1>1, <1>2

LEMMA RuleResults ==
  ASSUME NEW b, NEW s, NEW days \in SUBSET Nat, NEW ends \in SUBSET b.endpoints
  PROVE  Rules(b)!Result(s, days, ends) \in Rules(b)!View \cup {Rules(b)!None}
BY DEF Rules!Result, Rules!View

LEMMA RuleNames ==
  ASSUME NEW b, Rules(b)!PolicyEditorAssumption
  PROVE  /\ Rules(b)!Absent \notin b.domains /\ b.maxSaves \in Nat
         /\ "default" \in Rules(b)!Scopes /\ b.domains \subseteq Rules(b)!Scopes
         /\ Rules(b)!IdleCall.at = "idle"
         /\ Rules(b)!NoReading.at = "idle" /\ Rules(b)!NoReading \in RuleReadings(b)
BY DEF Rules!PolicyEditorAssumption, Rules!Absent, Rules!Scopes, Rules!IdleCall, Rules!NoReading, RuleReadings, RulePolicies

LEMMA RuleStarts ==
  ASSUME NEW b, Rules(b)!PolicyEditorAssumption, Rules(b)!Init
  PROVE  RuleInv(b)
<1>1. PICK v \in {[days |-> Rules(b)!DefaultText, ends |-> e] : e \in SUBSET b.endpoints} :
        policy = [s \in Rules(b)!Scopes |-> IF s = "default" THEN v ELSE Rules(b)!None]
  BY DEF Rules!Init
<1>2. v \in Rules(b)!View
  BY <1>1 DEF Rules!View, Rules!DefaultText
<1>3. policy \in RulePolicies(b)
  BY <1>1, <1>2 DEF RulePolicies
<1>4. RulesRead(b)
  BY <1>3 DEF Rules!Init, RulesRead, RulePolicies, RuleReadings
<1>5. RulesChosen(b)
  BY DEF Rules!Init, RulesChosen
<1>6. RuleFormsOK(b)
  <2>1. ruleForm \in [Rules(b)!Forms -> RuleForms(b)]
    BY RuleFills DEF Rules!Init
  <2>2. ASSUME NEW f \in Rules(b)!Forms, Rules(b)!Mounted(f) PROVE shown[Rules(b)!ScopeOf(f)] = Rules(b)!None
    BY <2>2, RuleNames DEF Rules!Init, Rules!Mounted, Rules!ScopeOf
  <2> QED
    BY <2>1, <2>2 DEF RuleFormsOK
<1>7. /\ ruleCall = [c \in b.calls |-> Rules(b)!IdleCall] /\ saved = policy /\ ruleCrossed = {} /\ saves = 0
      /\ ruleReading.at = "asked"
  BY DEF Rules!Init
<1>8. RuleCallsOK(b)
  BY <1>7 DEF RuleCallsOK
<1>9. RuleHistoryOK(b)
  BY <1>3, <1>7, RuleNames DEF RuleHistoryOK, RulePolicies
<1>10. ASSUME NEW s \in Rules(b)!Scopes PROVE RuleSettled(b, s) /\ RuleFresh(b, s)
  BY <1>7, RuleNames DEF RuleSettled, RuleUnder, RuleFresh
<1> QED
  BY <1>4, <1>5, <1>6, <1>8, <1>9, <1>10 DEF RuleInv

(* Steps that leave the server, the queries and the saves alone.           *)
LEMMA RuleKeeps ==
  ASSUME NEW b, RuleInv(b), UNCHANGED <<policy, shown, ruleReading, ruleCall, saved, ruleCrossed>>
  PROVE  (\A s \in Rules(b)!Scopes \ ruleCrossed : RuleSettled(b, s) /\ RuleFresh(b, s))'
BY DEF RuleInv, RuleSettled, RuleUnder, RuleBrings, RuleFresh

LEMMA RuleFormSteps ==
  ASSUME NEW b, Rules(b)!PolicyEditorAssumption, RuleInv(b),
         \/ \E d \in b.domains \cup {Rules(b)!Absent} : Rules(b)!Select(d)
         \/ \E f \in Rules(b)!Forms : \/ \E t \in b.texts : Rules(b)!Type(f, t)
                                      \/ \E e \in b.endpoints : Rules(b)!Tick(f, e)
         \/ \E d \in b.domains : Rules(b)!Unlist(d)
  PROVE  RuleInv(b)'
<1>1. /\ ruleForm \in [Rules(b)!Forms -> RuleForms(b)] /\ shown \in RulePolicies(b)
      /\ listed \subseteq b.domains /\ ruleSelected \in b.domains \cup {Rules(b)!Absent}
  BY DEF RuleInv, RulesRead, RulesChosen, RuleFormsOK
<1>2. "default" \in Rules(b)!Forms /\ "override" \in Rules(b)!Forms
      /\ \A f \in Rules(b)!Forms : f = "default" \/ f = "override"
  BY DEF Rules!Forms
<1>3. /\ UNCHANGED <<policy, shown, loaded, ruleReading, ruleCall, saved, ruleCrossed, saves>>
      /\ listed' \subseteq b.domains /\ ruleSelected' \in b.domains \cup {Rules(b)!Absent}
  BY <1>1 DEF Rules!Select, Rules!Type, Rules!Tick, Rules!Unlist, Rules!queryVars
<1>4. ASSUME NEW d \in b.domains \cup {Rules(b)!Absent}, Rules(b)!Select(d)
      PROVE  RuleFormsOK(b)'
  <2> DEFINE g == IF d = Rules(b)!Absent THEN Rules(b)!Filled(Rules(b)!None)
                  ELSE IF ruleSelected \in listed /\ shown[ruleSelected] = Rules(b)!None /\ shown[d] = Rules(b)!None
                  THEN [ruleForm["override"] EXCEPT !.typed = FALSE]
                  ELSE Rules(b)!Filled(shown[d])
  <2>1. /\ d \in listed \cup {Rules(b)!Absent} /\ ruleSelected' = d /\ listed' = listed
        /\ ruleForm' = [ruleForm EXCEPT !["override"] = g]
    BY <1>4 DEF Rules!Select, Rules!queryVars
  <2>2. [ruleForm["override"] EXCEPT !.typed = FALSE] \in RuleForms(b)
    BY <1>1, <1>2 DEF RuleForms
  <2>3. d # Rules(b)!Absent => shown[d] \in Rules(b)!View \cup {Rules(b)!None}
    BY <1>1, <2>1, RuleNames DEF RulePolicies
  <2>4. g \in RuleForms(b)
    BY <2>2, <2>3, RuleFills
  <2>5. ruleForm' \in [Rules(b)!Forms -> RuleForms(b)]
    BY <1>1, <1>2, <2>1, <2>4
  <2>6. ASSUME d \in listed, shown[d] # Rules(b)!None
        PROVE  RuleIsShown(g, shown[d])
    BY <1>1, <2>3, <2>6, RuleFills, RuleNames
  <2>7. ASSUME NEW f \in Rules(b)!Forms, Rules(b)!Mounted(f)', ~ruleForm'[f].typed, shown[Rules(b)!ScopeOf(f)'] # Rules(b)!None
        PROVE  RuleIsShown(ruleForm'[f], shown[Rules(b)!ScopeOf(f)'])
    <3>1. CASE f = "default"
      BY <1>1, <1>2, <2>1, <2>7, <3>1 DEF RuleInv, RuleFormsOK, Rules!Mounted, Rules!ScopeOf
    <3>2. CASE f = "override"
      <4>1. Rules(b)!ScopeOf(f)' = d /\ d \in listed
        BY <2>1, <2>7, <3>2 DEF Rules!Mounted, Rules!ScopeOf
      <4> HIDE DEF g
      <4>2. ruleForm'[f] = g
        BY <1>1, <1>2, <2>1, <3>2
      <4> QED
        BY <2>6, <2>7, <4>1, <4>2
    <3> QED
      BY <1>2, <3>1, <3>2
  <2> QED
    BY <1>3, <2>5, <2>7 DEF RuleFormsOK, RuleIsShown
<1>5. ASSUME NEW f \in Rules(b)!Forms, NEW t \in b.texts, Rules(b)!Type(f, t)
      PROVE  RuleFormsOK(b)'
  <2>1. ruleForm' = [ruleForm EXCEPT ![f] = [ruleForm[f] EXCEPT !.text = t, !.typed = TRUE]]
        /\ ruleSelected' = ruleSelected /\ listed' = listed
    BY <1>5, <1>1 DEF Rules!Type, Rules!queryVars
  <2>2. [ruleForm[f] EXCEPT !.text = t, !.typed = TRUE] \in RuleForms(b) /\ [ruleForm[f] EXCEPT !.text = t, !.typed = TRUE].typed
    BY <1>1, <1>5 DEF RuleForms, RuleTexts
  <2> QED
    BY <1>1, <1>3, <2>1, <2>2 DEF RuleInv, RuleFormsOK, RuleIsShown, Rules!Mounted, Rules!ScopeOf
<1>6. ASSUME NEW f \in Rules(b)!Forms, NEW e \in b.endpoints, Rules(b)!Tick(f, e)
      PROVE  RuleFormsOK(b)'
  <2> DEFINE es == IF e \in ruleForm[f].ends THEN ruleForm[f].ends \ {e} ELSE ruleForm[f].ends \cup {e}
  <2>1. ruleForm' = [ruleForm EXCEPT ![f] = [ruleForm[f] EXCEPT !.ends = es, !.typed = TRUE]]
        /\ ruleSelected' = ruleSelected /\ listed' = listed
    BY <1>6, <1>1 DEF Rules!Tick, Rules!queryVars
  <2>2. ruleForm[f] \in RuleForms(b) /\ es \in SUBSET b.endpoints
    BY <1>1, <1>6 DEF RuleForms
  <2>3. [ruleForm[f] EXCEPT !.ends = es, !.typed = TRUE] \in RuleForms(b) /\ [ruleForm[f] EXCEPT !.ends = es, !.typed = TRUE].typed
    <3> HIDE DEF es
    <3> QED
      BY <2>2 DEF RuleForms
  <2> HIDE DEF es
  <2> QED
    BY <1>1, <1>3, <2>1, <2>3 DEF RuleInv, RuleFormsOK, RuleIsShown, Rules!Mounted, Rules!ScopeOf
<1>7. ASSUME NEW d \in b.domains, Rules(b)!Unlist(d)
      PROVE  RuleFormsOK(b)'
  <2>1. /\ listed' = listed \ {d} /\ ruleSelected' = ruleSelected
        /\ ruleForm' = IF ruleSelected = d THEN [ruleForm EXCEPT !["override"] = Rules(b)!Filled(Rules(b)!None)] ELSE ruleForm
    BY <1>7 DEF Rules!Unlist
  <2>2. Rules(b)!Filled(Rules(b)!None) \in RuleForms(b)
    BY RuleFills
  <2>3. ruleForm' \in [Rules(b)!Forms -> RuleForms(b)]
    BY <1>1, <1>2, <2>1, <2>2
  <2>4. ASSUME NEW f \in Rules(b)!Forms, Rules(b)!Mounted(f)' PROVE ruleForm'[f] = ruleForm[f] /\ Rules(b)!Mounted(f) /\ Rules(b)!ScopeOf(f)' = Rules(b)!ScopeOf(f)
    BY <1>1, <1>2, <2>1, <2>4 DEF Rules!Mounted, Rules!ScopeOf
  <2> QED
    BY <1>3, <2>3, <2>4 DEF RuleInv, RuleFormsOK, RuleIsShown
<1>8. RuleFormsOK(b)'
  BY <1>4, <1>5, <1>6, <1>7
<1>9. (\A s \in Rules(b)!Scopes \ ruleCrossed : RuleSettled(b, s) /\ RuleFresh(b, s))'
  BY <1>3, RuleKeeps
<1> QED
  BY <1>3, <1>8, <1>9 DEF RuleInv, RulesRead, RulesChosen, RuleCallsOK, RuleHistoryOK

(* Steps of one save, which leave the forms and the choice alone.          *)
LEMMA RuleFormsStand ==
  ASSUME NEW b, RuleInv(b), UNCHANGED <<shown, listed, ruleSelected, ruleForm>>
  PROVE  RulesChosen(b)' /\ RuleFormsOK(b)'
BY DEF RuleInv, RulesChosen, RuleFormsOK, RuleIsShown, Rules!Mounted, Rules!ScopeOf

LEMMA RuleSubmitted ==
  ASSUME NEW b, Rules(b)!PolicyEditorAssumption, RuleInv(b), NEW f \in Rules(b)!Forms, Rules(b)!Submit(f)
  PROVE  RuleInv(b)'
<1> DEFINE s == Rules(b)!ScopeOf(f)
           days == Rules(b)!Parsed(ruleForm[f].text)
           ends == ruleForm[f].ends
           q == [at |-> "asked", scope |-> s, days |-> days, ends |-> ends]
<1>1. PICK c \in b.calls : ruleCall[c] = Rules(b)!IdleCall /\ ruleCall' = [ruleCall EXCEPT ![c] = q]
  BY DEF Rules!Submit
<1>2. /\ Rules(b)!Mounted(f) /\ saves < b.maxSaves /\ saves' = saves + 1
      /\ saved' = [saved EXCEPT ![s] = Rules(b)!Result(s, days, ends)]
      /\ ruleCrossed' = IF Rules(b)!Underway(s) THEN ruleCrossed \cup {s} ELSE ruleCrossed
      /\ UNCHANGED <<policy, shown, loaded, ruleReading, listed, ruleSelected, ruleForm>>
  BY DEF Rules!Submit, Rules!queryVars
<1>3. s \in Rules(b)!Scopes
  BY <1>2, RuleNames DEF Rules!Mounted, Rules!ScopeOf, RuleInv, RulesChosen
<1>4. ruleForm[f] \in RuleForms(b)
  BY DEF RuleInv, RuleFormsOK
<1>5. days \in SUBSET (Nat \cup {Rules(b)!Fraction}) /\ ends \in SUBSET b.endpoints
  <2>1. ruleForm[f].text \in RuleTexts(b) /\ ends \in SUBSET b.endpoints
    BY <1>4 DEF RuleForms
  <2>2. ruleForm[f].text \subseteq Nat \cup {Rules(b)!Blank, Rules(b)!Fraction, Rules(b)!Junk}
    BY <2>1 DEF RuleTexts, Rules!PolicyEditorAssumption
  <2> QED
    BY <2>1, <2>2 DEF Rules!Parsed
<1> HIDE DEF days, ends
<1>6. q \in RuleCalls(b) /\ q.at = "asked" /\ q.scope = s /\ q.days = days /\ q.ends = ends
  BY <1>3, <1>5 DEF RuleCalls
<1> HIDE DEF q, s
<1>7. RuleCallsOK(b)'
  BY <1>1, <1>6 DEF RuleInv, RuleCallsOK
<1>8. RuleHistoryOK(b)'
  <2>1. saves' \in 0 .. b.maxSaves
    BY <1>2, RuleNames DEF RuleInv, RuleHistoryOK
  <2>2. saved' = [x \in Rules(b)!Scopes |-> saved'[x]]
    BY <1>2 DEF RuleInv, RuleHistoryOK
  <2>3. ruleCrossed' \subseteq Rules(b)!Scopes
    BY <1>2, <1>3 DEF RuleInv, RuleHistoryOK
  <2> QED
    BY <2>1, <2>2, <2>3 DEF RuleHistoryOK
<1>9. ASSUME NEW t \in Rules(b)!Scopes \ ruleCrossed'
      PROVE  RuleSettled(b, t)' /\ RuleFresh(b, t)'
  <2>1. t \in Rules(b)!Scopes \ ruleCrossed /\ RuleSettled(b, t) /\ RuleFresh(b, t)
    BY <1>2, <1>9 DEF RuleInv
  <2>2. /\ ruleCall'[c] = q /\ ~RuleUnder(c, t)
        /\ \A d \in b.calls \ {c} : ruleCall'[d] = ruleCall[d]
    BY <1>1, RuleNames DEF RuleInv, RuleCallsOK, RuleUnder
  <2>3. RuleFresh(b, t)'
    <3>1. \A d \in b.calls : ruleCall[d].at = "done" => ruleCall'[d] = ruleCall[d]
      BY <1>1, <2>2, RuleNames
    <3> QED
      BY <1>2, <2>1, <3>1 DEF RuleFresh
  <2>4. CASE t # s
    <3>1. saved'[t] = saved[t]
      BY <1>2, <2>4 DEF RuleInv, RuleHistoryOK
    <3>2. \A d \in b.calls : RuleUnder(d, t)' <=> RuleUnder(d, t)
      BY <1>6, <2>2, <2>4 DEF RuleUnder
    <3>3. \A d \in b.calls : RuleUnder(d, t) => RuleBrings(b, d, t)'
      BY <1>2, <2>1, <2>2, <3>1 DEF RuleSettled, RuleBrings
    <3>4. RuleSettled(b, t)'
      BY <1>2, <2>1, <3>1, <3>2, <3>3 DEF RuleSettled
    <3> QED
      BY <2>3, <3>4
  <2>5. CASE t = s
    <3>1. ~Rules(b)!Underway(s)
      BY <1>2, <1>9, <2>5, <1>3
    <3>2. \A d \in b.calls : ~RuleUnder(d, s)
      BY <3>1 DEF Rules!Underway, RuleUnder
    <3>3. \A d \in b.calls : RuleUnder(d, t)' => d = c
      BY <2>2, <2>5, <3>2 DEF RuleUnder
    <3>4. RuleUnder(c, t)'
      BY <1>6, <2>2, <2>5 DEF RuleUnder
    <3>5. saved'[t] = Rules(b)!Result(t, q.days, q.ends)
      BY <1>2, <1>3, <1>6, <2>5 DEF RuleInv, RuleHistoryOK
    <3>6. RuleBrings(b, c, t)'
      BY <1>6, <2>2, <3>5 DEF RuleBrings, Rules!Result
    <3>7. RuleSettled(b, t)'
      BY <1>1, <3>3, <3>4, <3>6 DEF RuleSettled
    <3> QED
      BY <2>3, <3>7
  <2> QED
    BY <2>4, <2>5
<1>10. RulesRead(b)'
  BY <1>2 DEF RuleInv, RulesRead
<1> QED
  BY <1>2, <1>7, <1>8, <1>9, <1>10, RuleFormsStand DEF RuleInv

LEMMA RuleServed ==
  ASSUME NEW b, Rules(b)!PolicyEditorAssumption, RuleInv(b), NEW c \in b.calls, Rules(b)!Serve(c)
  PROVE  RuleInv(b)'
<1> DEFINE v == Rules(b)!Result(ruleCall[c].scope, ruleCall[c].days, ruleCall[c].ends)
<1>1. /\ ruleCall[c].at = "asked"
      /\ UNCHANGED <<shown, loaded, ruleReading, listed, ruleSelected, ruleForm, saved, ruleCrossed, saves>>
  BY DEF Rules!Serve, Rules!queryVars
<1>2. \/ ruleCall' = [ruleCall EXCEPT ![c].at = "refused"] /\ policy' = policy
      \/ /\ ruleCall' = [ruleCall EXCEPT ![c].at = "done"] /\ Rules(b)!Fraction \notin ruleCall[c].days
         /\ policy' = [policy EXCEPT ![ruleCall[c].scope] = v]
  BY DEF Rules!Serve
<1>3. ruleCall[c] \in RuleCalls(b)
  BY <1>1, RuleNames DEF RuleInv, RuleCallsOK
<1>4. PICK e \in {"refused", "done"} :
        /\ ruleCall' = [ruleCall EXCEPT ![c] = [ruleCall[c] EXCEPT !.at = e]]
        /\ e = "refused" => policy' = policy
        /\ e = "done" => Rules(b)!Fraction \notin ruleCall[c].days /\ policy' = [policy EXCEPT ![ruleCall[c].scope] = v]
  BY <1>2
<1> DEFINE q == [ruleCall[c] EXCEPT !.at = e]
<1>5. /\ q \in RuleCalls(b) /\ q.at = e /\ q.scope = ruleCall[c].scope /\ q.days = ruleCall[c].days
      /\ q.ends = ruleCall[c].ends /\ ruleCall[c].scope \in Rules(b)!Scopes
      /\ ruleCall[c].days \subseteq Nat \cup {Rules(b)!Fraction} /\ ruleCall[c].ends \subseteq b.endpoints
  BY <1>3, <1>4 DEF RuleCalls
<1> HIDE DEF q, v
<1>6. /\ ruleCall'[c] = q
      /\ \A d \in b.calls \ {c} : ruleCall'[d] = ruleCall[d]
  BY <1>4 DEF RuleInv, RuleCallsOK, q
<1>7. RuleCallsOK(b)'
  BY <1>4, <1>5, <1>6 DEF RuleInv, RuleCallsOK, q
<1>8. RuleHistoryOK(b)'
  BY <1>1 DEF RuleInv, RuleHistoryOK
<1>9. RulesRead(b)'
  <2>1. e = "done" => v \in Rules(b)!View \cup {Rules(b)!None}
    BY <1>4, <1>5, RuleResults DEF v
  <2>2. policy' \in RulePolicies(b)
    BY <1>4, <1>5, <2>1 DEF RuleInv, RulesRead, RulePolicies
  <2> QED
    BY <1>1, <2>2 DEF RuleInv, RulesRead
<1>10. ASSUME NEW t \in Rules(b)!Scopes \ ruleCrossed'
       PROVE  RuleSettled(b, t)' /\ RuleFresh(b, t)'
  <2>1. RuleSettled(b, t) /\ RuleFresh(b, t) /\ t \in Rules(b)!Scopes
    BY <1>1, <1>10 DEF RuleInv
  <2>2. ruleCall[c].at # "idle" /\ q.at # "idle"
    BY <1>1, <1>4, <1>5
  <2>3. \A d \in b.calls : RuleUnder(d, t)' <=> RuleUnder(d, t)
    BY <1>5, <1>6, <2>2 DEF RuleUnder
  <2>4. CASE t # ruleCall[c].scope
    <3>1. policy'[t] = policy[t]
      BY <1>4, <2>4 DEF RuleInv, RulesRead, RulePolicies
    <3>2. ~RuleUnder(c, t)
      BY <2>4 DEF RuleUnder
    <3>3. \A d \in b.calls : RuleUnder(d, t) => RuleBrings(b, d, t)'
      BY <1>1, <1>6, <2>1, <3>1, <3>2 DEF RuleSettled, RuleBrings
    <3>4. RuleSettled(b, t)'
      BY <1>1, <2>1, <2>3, <3>1, <3>3 DEF RuleSettled
    <3>5. \A d \in b.calls : ruleCall[d].scope = t => ruleCall'[d] = ruleCall[d]
      BY <1>6, <2>4
    <3>6. RuleFresh(b, t)'
      BY <1>1, <2>1, <3>1, <3>5 DEF RuleFresh
    <3> QED
      BY <3>4, <3>6
  <2>5. CASE t = ruleCall[c].scope
    <3>1. RuleUnder(c, t) /\ \A d \in b.calls : RuleUnder(d, t) => d = c
      BY <2>1, <2>2, <2>5 DEF RuleSettled, RuleUnder
    <3>2. saved[t] = v
      BY <1>1, <2>1, <2>5, <3>1 DEF RuleSettled, RuleBrings, v
    <3>3. e = "done" => policy'[t] = v
      BY <1>4, <1>5, <2>5 DEF RuleInv, RulesRead, RulePolicies
    <3>4. RuleBrings(b, c, t)'
      BY <1>1, <1>4, <1>5, <1>6, <3>2, <3>3 DEF RuleBrings
    <3>5. RuleSettled(b, t)'
      BY <2>3, <3>1, <3>4 DEF RuleSettled
    <3>6. RuleFresh(b, t)'
      <4>1. CASE e = "done"
        BY <1>5, <1>6, <2>5, <4>1 DEF RuleFresh
      <4>2. CASE e = "refused"
        <5>1. \A d \in b.calls : ruleCall[d].at = "done" => ruleCall'[d] = ruleCall[d]
          BY <1>1, <1>6
        <5> QED
          BY <1>1, <1>4, <2>1, <4>2, <5>1 DEF RuleFresh
      <4> QED
        BY <1>4, <4>1, <4>2
    <3> QED
      BY <3>5, <3>6
  <2> QED
    BY <2>4, <2>5
<1> QED
  BY <1>1, <1>7, <1>8, <1>9, <1>10, RuleFormsStand DEF RuleInv

LEMMA RuleEnds ==
  ASSUME NEW b, Rules(b)!PolicyEditorAssumption, RuleInv(b), NEW c \in b.calls,
         Rules(b)!Succeed(c) \/ Rules(b)!Refused(c)
  PROVE  RuleInv(b)'
<1>1. /\ ruleCall' = [ruleCall EXCEPT ![c] = Rules(b)!IdleCall]
      /\ UNCHANGED <<policy, shown, loaded, listed, ruleSelected, ruleForm, saved, saves>>
  BY DEF Rules!Succeed, Rules!Refused, Rules!queryVars
<1>2. /\ ruleCall'[c] = Rules(b)!IdleCall
      /\ \A d \in b.calls \ {c} : ruleCall'[d] = ruleCall[d]
  BY <1>1 DEF RuleInv, RuleCallsOK
<1>3. RuleCallsOK(b)'
  BY <1>1, <1>2 DEF RuleInv, RuleCallsOK
<1>4. ruleCall[c] \in RuleCalls(b) /\ ruleCall[c].scope \in Rules(b)!Scopes /\ ruleCall[c].at \in {"done", "refused"}
  <2>1. ruleCall[c].at \in {"done", "refused"}
    BY DEF Rules!Succeed, Rules!Refused
  <2>2. ruleCall[c] \in RuleCalls(b)
    BY <2>1, RuleNames DEF RuleInv, RuleCallsOK
  <2> QED
    BY <2>1, <2>2 DEF RuleCalls
<1>5. ruleReading' \in RuleReadings(b) /\ ruleCrossed \subseteq ruleCrossed' /\ ruleCrossed' \subseteq Rules(b)!Scopes
  BY <1>4 DEF Rules!Succeed, Rules!Refused, Rules!queryVars, RuleInv, RulesRead, RuleHistoryOK, RuleReadings, RulePolicies
<1>6. RuleHistoryOK(b)'
  BY <1>1, <1>5 DEF RuleInv, RuleHistoryOK
<1>7. RulesRead(b)'
  BY <1>1, <1>5 DEF RuleInv, RulesRead
<1>8. ASSUME NEW t \in Rules(b)!Scopes \ ruleCrossed'
      PROVE  RuleSettled(b, t)' /\ RuleFresh(b, t)'
  <2>1. RuleSettled(b, t) /\ RuleFresh(b, t) /\ t \in Rules(b)!Scopes
    BY <1>5, <1>8 DEF RuleInv
  <2>2. ~RuleUnder(c, t)' /\ \A d \in b.calls \ {c} : RuleUnder(d, t)' <=> RuleUnder(d, t)
    BY <1>2, RuleNames DEF RuleUnder
  <2>3. CASE Rules(b)!Succeed(c)
    <3>1. /\ ruleCall[c].at = "done" /\ ruleReading'.at = "asked"
      BY <1>8, <2>3 DEF Rules!Succeed
    <3>2. RuleUnder(c, t) => saved[t] = policy[t]
      BY <2>1, <3>1 DEF RuleSettled, RuleBrings
    <3>3. (\A d \in b.calls : ~RuleUnder(d, t)') => saved[t] = policy[t]
      BY <2>1, <2>2, <3>2 DEF RuleSettled
    <3>4. \A d \in b.calls : RuleUnder(d, t)' => RuleBrings(b, d, t)'
      BY <1>1, <1>2, <2>1, <2>2 DEF RuleSettled, RuleBrings
    <3>5. RuleSettled(b, t)'
      BY <1>1, <2>1, <2>2, <3>3, <3>4 DEF RuleSettled
    <3> QED
      BY <3>1, <3>5 DEF RuleFresh
  <2>4. CASE Rules(b)!Refused(c)
    <3>1. ruleCall[c].at = "refused" /\ ruleReading' = ruleReading /\ ruleCall[c].scope # t
      BY <1>8, <2>4 DEF Rules!Refused, Rules!queryVars
    <3>2. ~RuleUnder(c, t)
      BY <3>1 DEF RuleUnder
    <3>3. (\A d \in b.calls : ~RuleUnder(d, t)') => saved[t] = policy[t]
      BY <2>1, <2>2, <3>2 DEF RuleSettled
    <3>4. \A d \in b.calls : RuleUnder(d, t)' => RuleBrings(b, d, t)'
      BY <1>1, <1>2, <2>1, <2>2 DEF RuleSettled, RuleBrings
    <3>5. RuleSettled(b, t)'
      BY <1>1, <2>1, <2>2, <3>3, <3>4 DEF RuleSettled
    <3>6. \A d \in b.calls : ruleCall[d].at = "done" => ruleCall'[d] = ruleCall[d]
      BY <1>2, <3>1
    <3>7. RuleFresh(b, t)'
      BY <1>1, <2>1, <3>1, <3>6 DEF RuleFresh
    <3> QED
      BY <3>5, <3>7
  <2> QED
    BY <2>3, <2>4
<1> QED
  BY <1>1, <1>3, <1>6, <1>7, <1>8, RuleFormsStand DEF RuleInv

LEMMA RuleReads ==
  ASSUME NEW b, Rules(b)!PolicyEditorAssumption, RuleInv(b), Rules(b)!Read
  PROVE  RuleInv(b)'
<1>1. /\ ruleReading' = [at |-> "answered", data |-> policy]
      /\ UNCHANGED <<policy, shown, loaded, listed, ruleSelected, ruleForm, ruleCall, saved, ruleCrossed, saves>>
  BY DEF Rules!Read
<1>2. RulesRead(b)'
  BY <1>1 DEF RuleInv, RulesRead, RuleReadings
<1>3. (\A s \in Rules(b)!Scopes \ ruleCrossed : RuleSettled(b, s) /\ RuleFresh(b, s))'
  BY <1>1 DEF RuleInv, RuleSettled, RuleUnder, RuleBrings, RuleFresh
<1> QED
  BY <1>1, <1>2, <1>3, RuleFormsStand DEF RuleInv, RuleCallsOK, RuleHistoryOK

LEMMA RuleArrives ==
  ASSUME NEW b, Rules(b)!PolicyEditorAssumption, RuleInv(b), Rules(b)!Arrive
  PROVE  RuleInv(b)'
<1>1. /\ ruleReading.at = "answered" /\ shown' = ruleReading.data /\ loaded' = TRUE
      /\ ruleReading' = Rules(b)!NoReading
      /\ ruleForm' = [f \in Rules(b)!Forms |->
           IF Rules(b)!Mounted(f) /\ shown[Rules(b)!ScopeOf(f)] # ruleReading.data[Rules(b)!ScopeOf(f)]
           THEN Rules(b)!Filled(ruleReading.data[Rules(b)!ScopeOf(f)]) ELSE ruleForm[f]]
      /\ UNCHANGED <<policy, listed, ruleSelected, ruleCall, saved, ruleCrossed, saves>>
  BY DEF Rules!Arrive
<1>2. ruleReading.data \in RulePolicies(b) /\ ruleForm \in [Rules(b)!Forms -> RuleForms(b)]
  BY DEF RuleInv, RulesRead, RuleReadings, RuleFormsOK
<1>3. RulesRead(b)'
  BY <1>1, <1>2, RuleNames DEF RuleInv, RulesRead
<1>4. ASSUME NEW f \in Rules(b)!Forms
      PROVE  /\ ruleForm'[f] \in RuleForms(b)
             /\ (/\ Rules(b)!Mounted(f) /\ ~ruleForm'[f].typed
                 /\ ruleReading.data[Rules(b)!ScopeOf(f)] # Rules(b)!None) =>
                  RuleIsShown(ruleForm'[f], ruleReading.data[Rules(b)!ScopeOf(f)])
  <2>1. CASE Rules(b)!Mounted(f) /\ shown[Rules(b)!ScopeOf(f)] # ruleReading.data[Rules(b)!ScopeOf(f)]
    <3>1. Rules(b)!ScopeOf(f) \in Rules(b)!Scopes
      BY <2>1, RuleNames DEF Rules!Mounted, Rules!ScopeOf, RuleInv, RulesChosen
    <3>2. ruleReading.data[Rules(b)!ScopeOf(f)] \in Rules(b)!View \cup {Rules(b)!None}
      BY <1>2, <3>1 DEF RulePolicies
    <3>3. ruleForm'[f] = Rules(b)!Filled(ruleReading.data[Rules(b)!ScopeOf(f)])
      BY <1>1, <1>4, <2>1
    <3> QED
      BY <3>2, <3>3, RuleFills
  <2>2. CASE ~(Rules(b)!Mounted(f) /\ shown[Rules(b)!ScopeOf(f)] # ruleReading.data[Rules(b)!ScopeOf(f)])
    <3>1. ruleForm'[f] = ruleForm[f]
      BY <1>1, <1>4, <2>2
    <3> QED
      BY <1>2, <1>4, <2>2, <3>1 DEF RuleInv, RuleFormsOK
  <2> QED
    BY <2>1, <2>2
<1>5. RuleFormsOK(b)'
  <2>1. ruleForm' \in [Rules(b)!Forms -> RuleForms(b)]
    BY <1>1, <1>4
  <2>2. \A f \in Rules(b)!Forms : (Rules(b)!Mounted(f)' <=> Rules(b)!Mounted(f)) /\ Rules(b)!ScopeOf(f)' = Rules(b)!ScopeOf(f)
    BY <1>1 DEF Rules!Mounted, Rules!ScopeOf
  <2> QED
    BY <1>1, <1>4, <2>1, <2>2 DEF RuleFormsOK, RuleIsShown
<1>6. ASSUME NEW s \in Rules(b)!Scopes \ ruleCrossed PROVE RuleSettled(b, s)' /\ RuleFresh(b, s)'
  <2>1. RuleSettled(b, s)'
    BY <1>1, <1>6 DEF RuleInv, RuleSettled, RuleUnder, RuleBrings
  <2>2. RuleFresh(b, s)'
    BY <1>1, <1>6, RuleNames DEF RuleInv, RuleFresh
  <2> QED
    BY <2>1, <2>2
<1> QED
  BY <1>1, <1>3, <1>5, <1>6 DEF RuleInv, RulesChosen, RuleCallsOK, RuleHistoryOK

LEMMA RuleSteps ==
  ASSUME NEW b, Rules(b)!PolicyEditorAssumption, RuleInv(b), Rules(b)!Next
  PROVE  RuleInv(b)'
BY RuleFormSteps, RuleSubmitted, RuleServed, RuleEnds, RuleReads, RuleArrives DEF Rules!Next

LEMMA RuleStands ==
  ASSUME NEW b, RuleInv(b), UNCHANGED ruleVars
  PROVE  RuleInv(b)'
<1>1. UNCHANGED <<policy, shown, loaded, ruleReading, listed, ruleSelected, ruleForm, ruleCall, saved, ruleCrossed, saves>>
  BY DEF ruleVars
<1>2. RulesRead(b)' /\ RulesChosen(b)' /\ RuleHistoryOK(b)'
  BY <1>1 DEF RuleInv, RulesRead, RulesChosen, RuleHistoryOK
<1>3. RuleFormsOK(b)'
  BY <1>1, Zenon DEF RuleInv, RuleFormsOK, Rules!Mounted, Rules!ScopeOf
<1>4. RuleCallsOK(b)'
  BY <1>1 DEF RuleInv, RuleCallsOK
<1>5. ASSUME NEW s \in Rules(b)!Scopes \ ruleCrossed PROVE (RuleSettled(b, s) /\ RuleFresh(b, s))'
  <2>1. RuleSettled(b, s) /\ RuleFresh(b, s)
    BY <1>5 DEF RuleInv
  <2>2. RuleSettled(b, s)'
    BY <1>1, <2>1 DEF RuleSettled, RuleUnder, RuleBrings
  <2>3. RuleFresh(b, s)'
    BY <1>1, <2>1 DEF RuleFresh
  <2> QED
    BY <2>2, <2>3
<1> QED
  BY <1>1, <1>2, <1>3, <1>4, <1>5 DEF RuleInv

LEMMA RuleTells ==
  ASSUME NEW b, Rules(b)!PolicyEditorAssumption, RuleInv(b)
  PROVE  /\ Rules(b)!TypeOK
         /\ Rules(b)!UntouchedKeepsPolicy
         /\ Rules(b)!QuietPolicyIsTheLastSaved
<1>1. Rules(b)!TypeOK
  <2>1. /\ \A s \in Rules(b)!Scopes : policy[s] = Rules(b)!None \/ policy[s] \in Rules(b)!View
        /\ \A s \in Rules(b)!Scopes : shown[s] = Rules(b)!None \/ shown[s] \in Rules(b)!View
        /\ loaded \in BOOLEAN
        /\ ruleReading.at \in {"idle", "asked", "answered"}
    BY DEF RuleInv, RulesRead, RulePolicies, RuleReadings
  <2>2. ruleForm \in [Rules(b)!Forms -> [text : b.texts \cup SUBSET (Nat \cup {Rules(b)!Blank}), ends : SUBSET b.endpoints, typed : BOOLEAN]]
    BY DEF RuleInv, RuleFormsOK, RuleForms, RuleTexts
  <2>3. \A c \in b.calls : ruleCall[c].at \in {"idle", "asked", "done", "refused"}
    BY DEF RuleInv, RuleCallsOK, RuleCalls, Rules!IdleCall
  <2> QED
    BY <2>1, <2>2, <2>3 DEF Rules!TypeOK, RuleInv, RulesChosen, RuleHistoryOK
<1>2. Rules(b)!UntouchedKeepsPolicy
  <2> SUFFICES ASSUME NEW f \in Rules(b)!Forms, Rules(b)!Mounted(f), ~ruleForm[f].typed,
                      shown[Rules(b)!ScopeOf(f)] # Rules(b)!None
               PROVE  /\ ruleForm[f].ends = shown[Rules(b)!ScopeOf(f)].ends
                      /\ shown[Rules(b)!ScopeOf(f)].days # {} =>
                           Rules(b)!Parsed(ruleForm[f].text) = shown[Rules(b)!ScopeOf(f)].days
    BY DEF Rules!UntouchedKeepsPolicy
  <2>1. RuleIsShown(ruleForm[f], shown[Rules(b)!ScopeOf(f)])
    BY DEF RuleInv, RuleFormsOK
  <2>2. Rules(b)!ScopeOf(f) \in Rules(b)!Scopes
    BY RuleNames DEF Rules!Mounted, Rules!ScopeOf, RuleInv, RulesChosen
  <2>3. shown[Rules(b)!ScopeOf(f)].days \in SUBSET Nat
    BY <2>2 DEF RuleInv, RulesRead, RulePolicies, Rules!View
  <2>4. ASSUME NEW days \in SUBSET Nat PROVE Rules(b)!Parsed(days) = days
    BY <2>4 DEF Rules!Parsed, Rules!Junk, Rules!Blank
  <2> QED
    BY <2>1, <2>3, <2>4 DEF RuleIsShown
<1>3. Rules(b)!QuietPolicyIsTheLastSaved
  <2> SUFFICES ASSUME ruleReading.at = "idle", \A c \in b.calls : ruleCall[c] = Rules(b)!IdleCall,
                      NEW s \in Rules(b)!Scopes \ ruleCrossed
               PROVE  shown[s] = saved[s]
    BY DEF Rules!QuietPolicyIsTheLastSaved
  <2>1. RuleSettled(b, s) /\ RuleFresh(b, s)
    BY DEF RuleInv
  <2>2. \A c \in b.calls : ruleCall[c].at = "idle"
    BY RuleNames
  <2> QED
    BY <2>1, <2>2 DEF RuleSettled, RuleUnder, RuleFresh
<1> QED
  BY <1>1, <1>2, <1>3

-----------------------------------------------------------------------------
(* The dashboard.  Requests are about what they can be about, and unless   *)
(* something has failed, each query that no invalidation has joined holds  *)
(* the rows of the server or is about to: an answer to a mutation, which   *)
(* has it fetched again, or a fetch is still to come.                      *)
BoardCalls(b) ==
  [kind : {"none", "save", "delete", "check"}, id : Board(b)!Ids \cup {Board(b)!New},
   host : b.hosts \cup {""}, fresh : BOOLEAN,
   at : {"idle", "asked", "done", "refused", "settling"}, waits : SUBSET Board(b)!Keys]

BoardFetches(b) == [at : {"idle", "asked", "answered"}, data : Board(b)!Rows]
BoardCaches(b) == [loaded : BOOLEAN, rows : Board(b)!Rows]

BoardServerOK(b) == boardRows \in Board(b)!Rows /\ boardIssued \in 0 .. b.maxId

BoardQueriesOK(b) ==
  /\ cached \in [Board(b)!Keys -> BoardCaches(b)]
  /\ boardFetch \in [Board(b)!Keys -> BoardFetches(b)]
  /\ joined \subseteq Board(b)!Keys

BoardFormOK(b) ==
  /\ boardEditing \in Board(b)!Ids \cup {Board(b)!New}
  /\ boardForm \in [of : Board(b)!Ids \cup {Board(b)!New}, host : b.hosts \cup {""}, typed : BOOLEAN]
  /\ boardLate \in BOOLEAN
  /\ boardForm.of # boardEditing => boardLate

BoardCallFits(b, q) ==
  /\ q.kind = "save" => q.host \in b.hosts
  /\ q.kind \in {"delete", "check"} => q.id \in Board(b)!Ids

BoardCallsOK(b) == boardCall \in [b.calls -> BoardCalls(b)] /\ \A c \in b.calls : BoardCallFits(b, boardCall[c])

BoardCountsOK(b) == boardActs \in 0 .. b.maxActs /\ faults \in 0 .. b.maxFaults

BoardAnswered(b) == \E c \in b.calls : boardCall[c].at = "done"

BoardKeyFresh(k) ==
  \/ boardFetch[k].at = "asked"
  \/ boardFetch[k].at = "answered" /\ boardFetch[k].data = boardRows
  \/ boardFetch[k].at = "idle" /\ cached[k].rows = boardRows

BoardFresh(b) == faults = 0 => BoardAnswered(b) \/ \A k \in Board(b)!Keys \ joined : BoardKeyFresh(k)

BoardInv(b) ==
  /\ BoardServerOK(b)
  /\ BoardQueriesOK(b)
  /\ BoardFormOK(b)
  /\ BoardCallsOK(b)
  /\ BoardCountsOK(b)
  /\ BoardFresh(b)

LEMMA BoardBounds ==
  ASSUME NEW b, Board(b)!DashboardAssumption
  PROVE  b.maxId \in Nat \ {0} /\ b.maxActs \in Nat /\ b.maxFaults \in Nat
BY DEF Board!DashboardAssumption

LEMMA BoardValues ==
  ASSUME NEW b, Board(b)!DashboardAssumption
  PROVE  /\ Board(b)!New \notin Board(b)!Ids
         /\ Board(b)!NoRows \in Board(b)!Rows
         /\ Board(b)!IdleFetch.at = "idle" /\ Board(b)!IdleFetch.data = Board(b)!NoRows
         /\ Board(b)!IdleFetch \in BoardFetches(b)
         /\ Board(b)!IdleCall \in BoardCalls(b) /\ BoardCallFits(b, Board(b)!IdleCall)
         /\ Board(b)!IdleCall.at = "idle"
<1>2. Board(b)!New \notin Board(b)!Ids
  BY BoardBounds DEF Board!New, Board!Ids
<1>3. Board(b)!NoRows \in Board(b)!Rows
  BY DEF Board!NoRows, Board!Rows
<1>4. /\ Board(b)!IdleFetch.at = "idle" /\ Board(b)!IdleFetch.data = Board(b)!NoRows
      /\ Board(b)!IdleFetch \in BoardFetches(b)
  BY <1>3 DEF Board!IdleFetch, BoardFetches
<1>5. Board(b)!IdleCall \in BoardCalls(b)
  BY DEF Board!IdleCall, BoardCalls
<1>6. Board(b)!IdleCall.kind = "none" /\ Board(b)!IdleCall.at = "idle"
  BY DEF Board!IdleCall
<1>7. BoardCallFits(b, Board(b)!IdleCall)
  BY <1>6 DEF BoardCallFits
<1> QED
  BY <1>2, <1>3, <1>4, <1>5, <1>6, <1>7

LEMMA BoardStarts ==
  ASSUME NEW b, Board(b)!DashboardAssumption, Board(b)!Init
  PROVE  BoardInv(b)
<1>1. PICK h \in b.hosts : boardRows = [Board(b)!NoRows EXCEPT ![1] = [host |-> h, checked |-> FALSE]]
  BY DEF Board!Init
<1>2. boardRows \in Board(b)!Rows
  BY <1>1, BoardValues DEF Board!Rows
<1>3. boardIssued \in 0 .. b.maxId
  BY BoardBounds DEF Board!Init
<1>4. BoardQueriesOK(b)
  BY BoardValues DEF Board!Init, BoardQueriesOK, BoardFetches, BoardCaches
<1>5. BoardFormOK(b)
  BY DEF Board!Init, BoardFormOK, Board!EmptyForm
<1>6. BoardCallsOK(b)
  BY BoardValues DEF Board!Init, BoardCallsOK
<1>7. BoardCountsOK(b)
  BY BoardBounds DEF Board!Init, BoardCountsOK
<1>8. BoardFresh(b)
  BY DEF Board!Init, BoardFresh, BoardKeyFresh
<1> QED
  BY <1>2, <1>3, <1>4, <1>5, <1>6, <1>7, <1>8 DEF BoardInv, BoardServerOK

(* The form: filled, typed in, closed; nothing else moves.                 *)
LEMMA BoardFormMoves ==
  ASSUME NEW b, BoardInv(b), BoardFormOK(b)',
         UNCHANGED <<boardRows, boardIssued, cached, boardFetch, boardCall, joined, boardActs, faults>>
  PROVE  BoardInv(b)'
BY DEF BoardInv, BoardServerOK, BoardQueriesOK, BoardCallsOK, BoardCountsOK, BoardFresh, BoardAnswered, BoardKeyFresh

LEMMA BoardPasses ==
  ASSUME NEW b, NEW i \in Board(b)!Ids \cup {Board(b)!New}, NEW h \in b.hosts \cup {""}, Board(b)!Pass(i, h)
  PROVE  BoardFormOK(b)'
BY DEF Board!Pass, BoardFormOK

LEMMA BoardFormSteps ==
  ASSUME NEW b, BoardInv(b),
         \/ \E i \in Board(b)!Ids : Board(b)!Edit(i)
         \/ Board(b)!Cancel
         \/ \E h \in b.hosts : Board(b)!Type(h)
  PROVE  BoardInv(b)'
<1>1. ASSUME NEW i \in Board(b)!Ids, Board(b)!Edit(i) PROVE BoardInv(b)'
  <2>1. /\ Board(b)!Pass(i, cached["domains"].rows[i].host) /\ i \in Board(b)!Shown
        /\ UNCHANGED <<boardRows, boardIssued, cached, boardFetch, boardCall, joined, boardActs, faults>>
    BY <1>1 DEF Board!Edit
  <2>2. cached["domains"].rows[i].host \in b.hosts
    <3>1. cached["domains"].rows \in Board(b)!Rows
      BY DEF BoardInv, BoardQueriesOK, BoardCaches, Board!Keys
    <3>2. cached["domains"].rows[i] \in [host : b.hosts, checked : BOOLEAN]
      BY <2>1, <3>1 DEF Board!Rows, Board!Shown
    <3> QED
      BY <3>2
  <2> QED
    BY <2>1, <2>2, BoardPasses, BoardFormMoves
<1>2. ASSUME Board(b)!Cancel PROVE BoardInv(b)'
  BY <1>2, BoardPasses, BoardFormMoves DEF Board!Cancel
<1>3. ASSUME NEW h \in b.hosts, Board(b)!Type(h) PROVE BoardInv(b)'
  <2>1. BoardFormOK(b)'
    BY <1>3 DEF Board!Type, BoardInv, BoardFormOK
  <2> QED
    BY <1>3, <2>1, BoardFormMoves DEF Board!Type
<1> QED
  BY <1>1, <1>2, <1>3

(* A request is changed to another one that can be.                        *)
LEMMA BoardCallChanges ==
  ASSUME NEW b, BoardCallsOK(b), NEW c \in b.calls, NEW q \in BoardCalls(b), BoardCallFits(b, q),
         boardCall' = [boardCall EXCEPT ![c] = q]
  PROVE  /\ BoardCallsOK(b)'
         /\ \A d \in b.calls : boardCall'[d] = IF d = c THEN q ELSE boardCall[d]
         /\ q.at = "done" => BoardAnswered(b)'
         /\ boardCall[c].at # "done" \/ q.at = "done" => (BoardAnswered(b) => BoardAnswered(b)')
BY DEF BoardCallsOK, BoardAnswered

LEMMA BoardCounts ==
  ASSUME NEW b, Board(b)!DashboardAssumption, BoardCountsOK(b), boardActs < b.maxActs, boardActs' = boardActs + 1,
         UNCHANGED faults
  PROVE  BoardCountsOK(b)'
BY BoardBounds DEF BoardCountsOK

LEMMA BoardBegins ==
  ASSUME NEW b, Board(b)!DashboardAssumption, BoardInv(b), Board(b)!Submit \/ Board(b)!Delete \/ Board(b)!Check
  PROVE  BoardInv(b)'
<1>1. PICK kind \in {"save", "delete", "check"}, i \in Board(b)!Ids \cup {Board(b)!New},
           h \in b.hosts \cup {""}, new \in BOOLEAN :
        /\ Board(b)!Begin(kind, i, h, new)
        /\ kind = "save" => h \in b.hosts
        /\ kind \in {"delete", "check"} => i \in Board(b)!Ids
  <2>1. CASE Board(b)!Submit
    <3>1. boardForm.host \in b.hosts /\ boardEditing \in Board(b)!Ids \cup {Board(b)!New}
      BY <2>1 DEF Board!Submit, BoardInv, BoardFormOK
    <3> QED
      BY <2>1, <3>1 DEF Board!Submit
  <2>2. CASE Board(b)!Delete
    BY <2>2 DEF Board!Delete, Board!Shown
  <2>3. CASE Board(b)!Check
    BY <2>3 DEF Board!Check, Board!Shown
  <2> QED
    BY <2>1, <2>2, <2>3
<1> DEFINE q == [kind |-> kind, id |-> i, host |-> h, fresh |-> new, at |-> "asked", waits |-> {}]
<1>2. PICK c \in b.calls : boardCall[c] = Board(b)!IdleCall /\ boardCall' = [boardCall EXCEPT ![c] = q]
  BY <1>1 DEF Board!Begin
<1>3. q \in BoardCalls(b)
  BY DEF BoardCalls
<1>4. q.kind = kind /\ q.id = i /\ q.host = h
  OBVIOUS
<1> HIDE DEF q
<1>5. BoardCallFits(b, q)
  BY <1>1, <1>4 DEF BoardCallFits
<1>6. BoardCallsOK(b)' /\ (BoardAnswered(b) => BoardAnswered(b)')
  BY <1>2, <1>3, <1>5, BoardCallChanges, BoardValues DEF BoardInv
<1>7. /\ UNCHANGED <<boardRows, boardIssued, cached, boardFetch, boardEditing, boardForm, boardLate, joined, faults>>
      /\ boardActs < b.maxActs /\ boardActs' = boardActs + 1
  BY <1>1 DEF Board!Begin, Board!pageVars
<1>8. BoardCountsOK(b)'
  <2>1. BoardCountsOK(b)
    BY DEF BoardInv
  <2> QED
    BY <1>7, <2>1, BoardCounts
<1>9. BoardFresh(b)'
  BY <1>6, <1>7 DEF BoardInv, BoardFresh, BoardKeyFresh
<1> QED
  BY <1>6, <1>7, <1>8, <1>9 DEF BoardInv, BoardServerOK, BoardQueriesOK, BoardFormOK

LEMMA BoardServes ==
  ASSUME NEW b, Board(b)!DashboardAssumption, BoardInv(b), NEW c \in b.calls, Board(b)!Serve(c)
  PROVE  BoardInv(b)'
<1> DEFINE i == boardCall[c].id
           h == boardCall[c].host
           Changed == boardCall' = [boardCall EXCEPT ![c].at = "done"]
<1>1. /\ UNCHANGED <<cached, boardFetch, boardEditing, boardForm, boardLate, joined, boardActs, faults>>
      /\ boardCall[c].at = "asked"
  BY DEF Board!Serve, Board!pageVars
<1>2. \/ /\ Changed /\ BoardServerOK(b)'
      \/ /\ boardCall' = [boardCall EXCEPT ![c].at = "refused"] /\ UNCHANGED <<boardRows, boardIssued>>
  <2>1. boardRows \in Board(b)!Rows /\ boardIssued \in 0 .. b.maxId
    BY DEF BoardInv, BoardServerOK
  <2>2. BoardCallFits(b, boardCall[c]) /\ i \in Board(b)!Ids \cup {Board(b)!New}
    BY DEF BoardInv, BoardCallsOK, BoardCalls
  <2>3. CASE /\ boardCall[c].kind = "save" /\ i = Board(b)!New /\ boardIssued < b.maxId
             /\ boardIssued' = boardIssued + 1
             /\ boardRows' = [boardRows EXCEPT ![boardIssued + 1] = [host |-> h, checked |-> FALSE]]
             /\ Changed
    <3>1. h \in b.hosts
      BY <2>2, <2>3 DEF BoardCallFits
    <3>2. boardIssued' \in 0 .. b.maxId
      BY <2>1, <2>3, BoardBounds
    <3>3. boardRows' \in Board(b)!Rows
      BY <2>1, <2>3, <3>1 DEF Board!Rows
    <3> QED
      BY <2>3, <3>2, <3>3 DEF BoardServerOK
  <2>4. CASE /\ boardCall[c].kind = "save" /\ i # Board(b)!New /\ boardRows[i] # Board(b)!Absent
             /\ boardRows' = [boardRows EXCEPT ![i].host = h]
             /\ Changed /\ UNCHANGED boardIssued
    <3>1. h \in b.hosts
      BY <2>2, <2>4 DEF BoardCallFits
    <3>2. boardRows' \in Board(b)!Rows
      BY <2>1, <2>2, <2>4, <3>1 DEF Board!Rows
    <3> QED
      BY <2>1, <2>4, <3>2 DEF BoardServerOK
  <2>5. CASE /\ boardCall[c].kind = "delete"
             /\ boardRows' = [boardRows EXCEPT ![i] = Board(b)!Absent]
             /\ Changed /\ UNCHANGED boardIssued
    <3>2. boardRows' \in Board(b)!Rows
      BY <2>1, <2>5 DEF Board!Rows
    <3> QED
      BY <2>1, <2>5, <3>2 DEF BoardServerOK
  <2>6. CASE /\ boardCall[c].kind = "check" /\ boardRows[i] # Board(b)!Absent
             /\ boardRows' = [boardRows EXCEPT ![i].checked = TRUE]
             /\ Changed /\ UNCHANGED boardIssued
    <3>1. i \in Board(b)!Ids
      BY <2>2, <2>6 DEF BoardCallFits
    <3>2. boardRows' \in Board(b)!Rows
      BY <2>1, <2>6, <3>1 DEF Board!Rows
    <3> QED
      BY <2>1, <2>6, <3>2 DEF BoardServerOK
  <2>7. CASE boardCall' = [boardCall EXCEPT ![c].at = "refused"] /\ UNCHANGED <<boardRows, boardIssued>>
    BY <2>7
  <2> QED
    BY <2>3, <2>4, <2>5, <2>6, <2>7 DEF Board!Serve
<1>3. ASSUME NEW a \in {"done", "refused"}, boardCall' = [boardCall EXCEPT ![c].at = a]
      PROVE  /\ BoardCallsOK(b)' /\ (BoardAnswered(b) => BoardAnswered(b)')
             /\ a = "done" => BoardAnswered(b)'
  <2> DEFINE q == [boardCall[c] EXCEPT !.at = a]
  <2>1. boardCall[c] \in BoardCalls(b) /\ BoardCallFits(b, boardCall[c]) /\ BoardCallsOK(b)
    BY DEF BoardInv, BoardCallsOK
  <2>2. q \in BoardCalls(b) /\ q.at = a /\ q.kind = boardCall[c].kind
        /\ q.id = boardCall[c].id /\ q.host = boardCall[c].host
    BY <2>1 DEF BoardCalls
  <2>3. boardCall' = [boardCall EXCEPT ![c] = q]
    BY <1>3
  <2> HIDE DEF q
  <2>4. BoardCallFits(b, q)
    BY <2>1, <2>2 DEF BoardCallFits
  <2> QED
    BY <1>1, <2>1, <2>2, <2>3, <2>4, BoardCallChanges
<1>4. BoardServerOK(b)' /\ BoardCallsOK(b)'
  BY <1>2, <1>3 DEF BoardInv, BoardServerOK
<1>5. BoardFresh(b)'
  BY <1>1, <1>2, <1>3 DEF BoardInv, BoardFresh, BoardKeyFresh
<1> QED
  BY <1>1, <1>4, <1>5 DEF BoardInv, BoardQueriesOK, BoardFormOK, BoardCountsOK

(* Once something has failed, nothing is promised of the queries.          *)
LEMMA BoardFails ==
  ASSUME NEW b, Board(b)!DashboardAssumption, BoardInv(b), faults < b.maxFaults, faults' = faults + 1,
         boardActs' = boardActs
  PROVE  BoardCountsOK(b)' /\ BoardFresh(b)'
<1>1. faults \in Nat /\ faults' \in 0 .. b.maxFaults /\ faults' # 0
  BY BoardBounds DEF BoardInv, BoardCountsOK
<1> QED
  BY <1>1 DEF BoardInv, BoardCountsOK, BoardFresh

LEMMA BoardLoses ==
  ASSUME NEW b, Board(b)!DashboardAssumption, BoardInv(b), NEW c \in b.calls, Board(b)!Lose(c)
  PROVE  BoardInv(b)'
<1> DEFINE q == [boardCall[c] EXCEPT !.at = "refused"]
<1>1. /\ UNCHANGED <<boardRows, boardIssued, cached, boardFetch, boardEditing, boardForm, boardLate, joined,
                     boardActs>>
      /\ faults < b.maxFaults /\ faults' = faults + 1
      /\ boardCall' = [boardCall EXCEPT ![c] = q]
  BY DEF Board!Lose, Board!pageVars
<1>2. boardCall[c] \in BoardCalls(b) /\ BoardCallFits(b, boardCall[c]) /\ BoardCallsOK(b)
  BY DEF BoardInv, BoardCallsOK
<1>3. q \in BoardCalls(b) /\ q.kind = boardCall[c].kind /\ q.id = boardCall[c].id /\ q.host = boardCall[c].host
  BY <1>2 DEF BoardCalls
<1> HIDE DEF q
<1>4. BoardCallsOK(b)'
  BY <1>1, <1>2, <1>3, BoardCallChanges DEF BoardCallFits
<1> QED
  BY <1>1, <1>4, BoardFails DEF BoardInv, BoardServerOK, BoardQueriesOK, BoardFormOK

(* The fetches.                                                            *)
LEMMA BoardFetchChanges ==
  ASSUME NEW b, BoardQueriesOK(b), NEW k \in Board(b)!Keys,
         NEW f \in BoardFetches(b),
         boardFetch' = [boardFetch EXCEPT ![k] = f],
         joined' = joined,
         NEW x \in BoardCaches(b),
         cached' = [cached EXCEPT ![k] = x]
  PROVE  /\ BoardQueriesOK(b)'
         /\ boardFetch'[k] = f /\ cached'[k] = x
         /\ \A m \in Board(b)!Keys \ {k} : boardFetch'[m] = boardFetch[m] /\ cached'[m] = cached[m]
BY DEF BoardQueriesOK

LEMMA BoardReleases ==
  ASSUME NEW b, BoardCallsOK(b), NEW k \in Board(b)!Keys, Board(b)!Release(k)
  PROVE  BoardCallsOK(b)' /\ BoardAnswered(b)' = BoardAnswered(b)
<1> DEFINE q(c) == [boardCall[c] EXCEPT !.waits = @ \ {k}]
<1>1. boardCall' = [c \in b.calls |-> q(c)]
  BY DEF Board!Release
<1>2. ASSUME NEW c \in b.calls
      PROVE  /\ q(c) \in BoardCalls(b) /\ q(c).kind = boardCall[c].kind /\ q(c).id = boardCall[c].id
             /\ q(c).host = boardCall[c].host /\ q(c).at = boardCall[c].at
  <2>1. boardCall[c] \in BoardCalls(b)
    BY DEF BoardCallsOK
  <2> QED
    BY <2>1 DEF BoardCalls
<1> HIDE DEF q
<1>3. \A c \in b.calls : boardCall'[c] = q(c)
  BY <1>1
<1>4. boardCall' \in [b.calls -> BoardCalls(b)]
  BY <1>1, <1>2
<1>5. \A c \in b.calls : BoardCallFits(b, boardCall'[c])
  BY <1>2, <1>3 DEF BoardCallsOK, BoardCallFits
<1>6. BoardAnswered(b)' = BoardAnswered(b)
  BY <1>2, <1>3 DEF BoardAnswered
<1> QED
  BY <1>4, <1>5, <1>6 DEF BoardCallsOK

LEMMA BoardReads ==
  ASSUME NEW b, Board(b)!DashboardAssumption, BoardInv(b), NEW k \in Board(b)!Keys,
         Board(b)!Read(k) \/ Board(b)!Arrive(k)
  PROVE  BoardInv(b)'
<1>1. CASE Board(b)!Read(k)
  <2> DEFINE f == [at |-> "answered", data |-> boardRows]
  <2>1. /\ UNCHANGED <<boardRows, boardIssued, cached, boardEditing, boardForm, boardLate, boardCall, joined,
                       boardActs, faults>>
        /\ boardFetch' = [boardFetch EXCEPT ![k] = f]
    BY <1>1 DEF Board!Read, Board!pageVars
  <2>2. f \in BoardFetches(b) /\ f.at = "answered" /\ f.data = boardRows
    BY DEF BoardInv, BoardServerOK, BoardFetches
  <2> HIDE DEF f
  <2>3. /\ BoardQueriesOK(b)' /\ boardFetch'[k] = f
        /\ \A m \in Board(b)!Keys \ {k} : boardFetch'[m] = boardFetch[m]
    <3> DEFINE x == cached[k]
    <3>1. cached' = [cached EXCEPT ![k] = x] /\ x \in BoardCaches(b)
      BY <2>1 DEF BoardInv, BoardQueriesOK
    <3> HIDE DEF x
    <3>2. BoardQueriesOK(b) /\ joined' = joined /\ boardFetch' = [boardFetch EXCEPT ![k] = f] /\ f \in BoardFetches(b)
      BY <2>1, <2>2 DEF BoardInv
    <3> QED
      BY <3>1, <3>2 DEF BoardQueriesOK
  <2>4. \A m \in Board(b)!Keys : BoardKeyFresh(m) \/ m = k => BoardKeyFresh(m)'
    BY <2>1, <2>2, <2>3 DEF BoardKeyFresh
  <2>5. BoardFresh(b)'
    BY <2>1, <2>4 DEF BoardInv, BoardFresh, BoardAnswered
  <2> QED
    BY <2>1, <2>3, <2>5 DEF BoardInv, BoardServerOK, BoardFormOK, BoardCallsOK, BoardCountsOK
<1>2. CASE Board(b)!Arrive(k)
  <2> DEFINE r == boardFetch[k].data
             x == [loaded |-> TRUE, rows |-> r]
  <2>1. /\ UNCHANGED <<boardRows, boardIssued, boardEditing, boardForm, boardLate, joined, boardActs, faults>>
        /\ boardFetch[k].at = "answered"
        /\ boardFetch' = [boardFetch EXCEPT ![k] = Board(b)!IdleFetch]
        /\ cached' = [cached EXCEPT ![k] = x]
        /\ Board(b)!Release(k)
    BY <1>2 DEF Board!Arrive, Board!pageVars
  <2>2. r \in Board(b)!Rows
    BY DEF BoardInv, BoardQueriesOK, BoardFetches
  <2>3. x \in BoardCaches(b) /\ x.rows = r
    BY <2>2 DEF BoardCaches
  <2> HIDE DEF x, r
  <2>4. /\ BoardQueriesOK(b)' /\ boardFetch'[k] = Board(b)!IdleFetch /\ cached'[k] = x
        /\ \A m \in Board(b)!Keys \ {k} : boardFetch'[m] = boardFetch[m] /\ cached'[m] = cached[m]
    <3>1. BoardQueriesOK(b) /\ joined' = joined /\ boardFetch' = [boardFetch EXCEPT ![k] = Board(b)!IdleFetch]
          /\ Board(b)!IdleFetch \in BoardFetches(b) /\ cached' = [cached EXCEPT ![k] = x] /\ x \in BoardCaches(b)
      BY <2>1, <2>3, BoardValues DEF BoardInv
    <3> QED
      BY <3>1, BoardFetchChanges, ZenonT(60)
  <2>6. BoardCallsOK(b)' /\ BoardAnswered(b)' = BoardAnswered(b)
    BY <2>1, BoardReleases DEF BoardInv
  <2>7. \A m \in Board(b)!Keys : BoardKeyFresh(m) => BoardKeyFresh(m)'
    <3>1. BoardKeyFresh(k) => r = boardRows
      BY <2>1 DEF BoardKeyFresh, r
    <3>2. BoardKeyFresh(k) => BoardKeyFresh(k)'
      BY <2>1, <2>3, <2>4, <3>1, BoardValues DEF BoardKeyFresh
    <3>3. \A m \in Board(b)!Keys \ {k} : BoardKeyFresh(m) => BoardKeyFresh(m)'
      BY <2>1, <2>4 DEF BoardKeyFresh
    <3> QED
      BY <3>2, <3>3
  <2>8. BoardFresh(b)'
    BY <2>1, <2>6, <2>7 DEF BoardInv, BoardFresh
  <2> QED
    BY <2>1, <2>4, <2>6, <2>8 DEF BoardInv, BoardServerOK, BoardFormOK, BoardCountsOK
<1> QED
  BY <1>1, <1>2

LEMMA BoardGivesUp ==
  ASSUME NEW b, Board(b)!DashboardAssumption, BoardInv(b), NEW k \in Board(b)!Keys, Board(b)!GiveUp(k)
  PROVE  BoardInv(b)'
<1>1. /\ UNCHANGED <<boardRows, boardIssued, cached, boardEditing, boardForm, boardLate, joined, boardActs>>
      /\ faults < b.maxFaults /\ faults' = faults + 1
      /\ boardFetch' = [boardFetch EXCEPT ![k] = Board(b)!IdleFetch]
      /\ Board(b)!Release(k)
  BY DEF Board!GiveUp, Board!pageVars
<1>2. cached' = [cached EXCEPT ![k] = cached[k]] /\ cached[k] \in BoardCaches(b)
      /\ BoardQueriesOK(b)
  BY <1>1 DEF BoardInv, BoardQueriesOK
<1>3. BoardQueriesOK(b)'
  BY <1>1, <1>2, BoardValues, BoardFetchChanges DEF Board!GiveUp
<1>4. BoardCallsOK(b)'
  BY <1>1, BoardReleases DEF BoardInv
<1> QED
  BY <1>1, <1>3, <1>4, BoardFails DEF BoardInv, BoardServerOK, BoardFormOK

(* After a success both queries are asked again, or one joins its first    *)
(* fetch.                                                                  *)
LEMMA BoardInvalidates ==
  ASSUME NEW b, Board(b)!DashboardAssumption, BoardQueriesOK(b), Board(b)!Invalidate, cached' = cached
  PROVE  BoardQueriesOK(b)' /\ \A k \in Board(b)!Keys \ joined' : BoardKeyFresh(k)'
<1> DEFINE asked == [at |-> "asked", data |-> Board(b)!NoRows]
<1>1. asked \in BoardFetches(b) /\ asked.at = "asked"
  BY BoardValues DEF BoardFetches
<1>2. boardFetch' = [k \in Board(b)!Keys |->
            IF boardFetch[k].at = "idle" \/ cached[k].loaded THEN asked ELSE boardFetch[k]]
      /\ joined' = {k \in Board(b)!Keys : boardFetch[k].at # "idle" /\ ~cached[k].loaded}
  BY DEF Board!Invalidate
<1> HIDE DEF asked
<1>3. BoardQueriesOK(b)'
  BY <1>1, <1>2 DEF BoardQueriesOK
<1>4. \A k \in Board(b)!Keys \ joined' : boardFetch'[k] = asked
  BY <1>2 DEF BoardQueriesOK
<1> QED
  BY <1>1, <1>3, <1>4 DEF BoardKeyFresh

LEMMA BoardSucceeds ==
  ASSUME NEW b, Board(b)!DashboardAssumption, BoardInv(b), NEW c \in b.calls, Board(b)!Succeed(c)
  PROVE  BoardInv(b)'
<1> DEFINE q == [boardCall[c] EXCEPT !.at = "settling", !.waits = Board(b)!Keys]
<1>1. /\ UNCHANGED <<boardRows, boardIssued, cached, boardActs, faults>>
      /\ Board(b)!Invalidate
      /\ Board(b)!Pass(Board(b)!New, "") \/ UNCHANGED <<boardEditing, boardForm, boardLate>>
      /\ boardCall' = [boardCall EXCEPT ![c].at = "settling", ![c].waits = Board(b)!Keys]
  BY DEF Board!Succeed, Board!pageVars
<1>2. boardCall[c] \in BoardCalls(b) /\ BoardCallFits(b, boardCall[c]) /\ BoardCallsOK(b)
  BY DEF BoardInv, BoardCallsOK
<1>3. q \in BoardCalls(b) /\ q.kind = boardCall[c].kind /\ q.id = boardCall[c].id /\ q.host = boardCall[c].host
  BY <1>2 DEF BoardCalls
<1>4. boardCall' = [boardCall EXCEPT ![c] = q]
  BY <1>1, <1>2 DEF BoardCallsOK, BoardCalls
<1> HIDE DEF q
<1>5. BoardCallsOK(b)'
  BY <1>2, <1>3, <1>4, BoardCallChanges DEF BoardCallFits
<1>6. BoardQueriesOK(b)' /\ BoardFresh(b)'
  BY <1>1, BoardInvalidates DEF BoardInv, BoardFresh
<1>7. BoardFormOK(b)'
  <2>1. CASE Board(b)!Pass(Board(b)!New, "")
    BY <2>1, BoardPasses
  <2>2. CASE UNCHANGED <<boardEditing, boardForm, boardLate>>
    BY <2>2 DEF BoardInv, BoardFormOK
  <2> QED
    BY <1>1, <2>1, <2>2
<1> QED
  BY <1>1, <1>5, <1>6, <1>7 DEF BoardInv, BoardServerOK, BoardCountsOK

LEMMA BoardEnds ==
  ASSUME NEW b, Board(b)!DashboardAssumption, BoardInv(b), NEW c \in b.calls,
         Board(b)!Settle(c) \/ Board(b)!Refused(c)
  PROVE  BoardInv(b)'
<1>1. /\ UNCHANGED <<boardRows, boardIssued, cached, boardFetch, joined, boardActs, faults>>
      /\ boardCall[c].at \in {"settling", "refused"}
      /\ boardCall' = [boardCall EXCEPT ![c] = Board(b)!IdleCall]
      /\ \/ boardForm' = Board(b)!EmptyForm /\ boardLate' = (boardEditing # Board(b)!New) /\ boardEditing' = boardEditing
         \/ UNCHANGED <<boardForm, boardLate, boardEditing>>
  BY DEF Board!Settle, Board!Refused, Board!pageVars
<1>2. BoardCallsOK(b)' /\ (BoardAnswered(b) => BoardAnswered(b)')
  BY <1>1, BoardValues, BoardCallChanges DEF BoardInv
<1>3. BoardFormOK(b)'
  <2>1. CASE boardForm' = Board(b)!EmptyForm /\ boardLate' = (boardEditing # Board(b)!New) /\ boardEditing' = boardEditing
    <3>1. Board(b)!EmptyForm \in [of : Board(b)!Ids \cup {Board(b)!New}, host : b.hosts \cup {""}, typed : BOOLEAN]
          /\ Board(b)!EmptyForm.of = Board(b)!New
      BY DEF Board!EmptyForm
    <3> QED
      BY <2>1, <3>1, Zenon DEF BoardInv, BoardFormOK
  <2>2. CASE UNCHANGED <<boardForm, boardLate, boardEditing>>
    BY <2>2 DEF BoardInv, BoardFormOK
  <2> QED
    BY <1>1, <2>1, <2>2
<1>4. BoardFresh(b)'
  BY <1>1, <1>2 DEF BoardInv, BoardFresh, BoardKeyFresh
<1> QED
  BY <1>1, <1>2, <1>3, <1>4 DEF BoardInv, BoardServerOK, BoardQueriesOK, BoardCountsOK

LEMMA BoardSteps ==
  ASSUME NEW b, Board(b)!DashboardAssumption, BoardInv(b), Board(b)!Next
  PROVE  BoardInv(b)'
BY BoardFormSteps, BoardBegins, BoardServes, BoardLoses, BoardReads, BoardGivesUp, BoardSucceeds, BoardEnds
   DEF Board!Next

LEMMA BoardStands ==
  ASSUME NEW b, BoardInv(b), UNCHANGED boardVars
  PROVE  BoardInv(b)'
BY DEF BoardInv, BoardServerOK, BoardQueriesOK, BoardFormOK, BoardCallsOK, BoardCountsOK, BoardFresh,
       BoardAnswered, BoardKeyFresh, boardVars

LEMMA BoardTells ==
  ASSUME NEW b, Board(b)!DashboardAssumption, BoardInv(b)
  PROVE  /\ Board(b)!TypeOK
         /\ Board(b)!QuietPageIsCurrent
         /\ Board(b)!EditFormShowsItsDomain
<1>1. Board(b)!TypeOK
  BY DEF BoardInv, BoardServerOK, BoardQueriesOK, BoardFormOK, BoardCallsOK, BoardCountsOK, BoardCalls, BoardFetches, BoardCaches, Board!TypeOK
<1>2. Board(b)!EditFormShowsItsDomain
  BY DEF BoardInv, BoardFormOK, Board!EditFormShowsItsDomain
<1>3. ASSUME faults = 0, \A c \in b.calls : boardCall[c] = Board(b)!IdleCall,
             \A k \in Board(b)!Keys : boardFetch[k] = Board(b)!IdleFetch
      PROVE  /\ \A k \in Board(b)!Keys \ joined : cached[k].rows = boardRows
             /\ joined = {} => Board(b)!DomainCount = Board(b)!Cardinality(Board(b)!Shown)
  <2>1. \A k \in Board(b)!Keys \ joined : cached[k].rows = boardRows
    BY <1>3, BoardValues DEF BoardInv, BoardFresh, BoardAnswered, BoardKeyFresh
  <2>2. ASSUME joined = {} PROVE cached["status"].rows = cached["domains"].rows
    BY <2>1, <2>2 DEF Board!Keys
  <2>3. ASSUME joined = {} PROVE Board(b)!DomainCount = Board(b)!Cardinality(Board(b)!Shown)
    BY <2>2, <2>3 DEF Board!DomainCount, Board!Shown
  <2> QED
    BY <2>1, <2>3
<1>4. Board(b)!QuietPageIsCurrent
  BY <1>3 DEF Board!QuietPageIsCurrent
<1> QED
  BY <1>1, <1>2, <1>4

-----------------------------------------------------------------------------
(* The endpoints of the notifications page.  A deletion of the endpoint    *)
(* being edited, if it is not blind to it, sees the form of the moment,    *)
(* and so closes it; and once the row is gone its answer is under way.     *)
AlarmCalls(b) ==
  [kind : {"none", "save", "delete", "test"}, id : Alarms(b)!Ids \cup {Alarms(b)!New},
   text : b.contents \cup {Alarms(b)!Nothing}, at : {"idle", "asked", "done", "refused", "settling"},
   sees : Alarms(b)!Ids \cup {Alarms(b)!New, Alarms(b)!Live}]

AlarmForms(b) == [of : Alarms(b)!Ids \cup {Alarms(b)!New}, text : b.contents \cup {Alarms(b)!Nothing}]
AlarmReadings(b) == [at : {"idle", "asked", "answered"}, data : Alarms(b)!Lists]
AlarmNotices(b) == Alarms(b)!Results \cup {Alarms(b)!Nothing}

AlarmListsOK(b) ==
  /\ alarmRows \in Alarms(b)!Lists
  /\ alarmIssued \in 0 .. b.maxId
  /\ alarmList \in Alarms(b)!Lists
  /\ alarmReading \in AlarmReadings(b)
  /\ alarmActs \in 0 .. b.maxActs

AlarmFormOK(b) ==
  /\ alarmEditing \in Alarms(b)!Ids \cup {Alarms(b)!New}
  /\ alarmForm \in AlarmForms(b)
  /\ alarmLate \in BOOLEAN
  /\ alarmForm.of # alarmEditing => alarmLate

AlarmNoticeOK(b) ==
  /\ notice \in AlarmNotices(b)
  /\ ended \in AlarmNotices(b)
  /\ notice # Alarms(b)!Nothing => notice = ended \/ {notice, ended} = {"created", "updated"}

AlarmCallFits(b, q) ==
  /\ q.at # "idle" => q.kind # "none"
  /\ q.kind = "save" => q.text \in b.contents
  /\ q.kind \in {"delete", "test"} => q.id \in Alarms(b)!Ids

AlarmCallsOK(b) == alarmCall \in [b.calls -> AlarmCalls(b)] /\ \A c \in b.calls : AlarmCallFits(b, alarmCall[c])

AlarmAbout(q, i) == q.kind = "delete" /\ q.id = i

AlarmDeletions(b) ==
  (alarmEditing # Alarms(b)!New /\ ~blind) =>
    /\ \A c \in b.calls : AlarmAbout(alarmCall[c], alarmEditing) => alarmCall[c].sees = Alarms(b)!Live
    /\ alarmRows[alarmEditing] = Alarms(b)!Absent =>
         \E c \in b.calls : AlarmAbout(alarmCall[c], alarmEditing) /\ alarmCall[c].at = "done"

AlarmInv(b) ==
  /\ AlarmListsOK(b)
  /\ AlarmFormOK(b)
  /\ AlarmNoticeOK(b)
  /\ AlarmCallsOK(b)
  /\ blind \in BOOLEAN
  /\ AlarmDeletions(b)

LEMMA AlarmBounds ==
  ASSUME NEW b, Alarms(b)!EndpointEditorAssumption
  PROVE  b.maxId \in Nat \ {0} /\ b.maxActs \in Nat
BY DEF Alarms!EndpointEditorAssumption

LEMMA AlarmValues ==
  ASSUME NEW b, Alarms(b)!EndpointEditorAssumption
  PROVE  /\ Alarms(b)!Absent \notin b.contents
         /\ Alarms(b)!Nothing = Alarms(b)!Absent
         /\ Alarms(b)!New \notin Alarms(b)!Ids
         /\ 1 \in Alarms(b)!Ids
         /\ Alarms(b)!Live \notin Alarms(b)!Ids \cup {Alarms(b)!New}
         /\ Alarms(b)!NoRows \in Alarms(b)!Lists
         /\ Alarms(b)!NoReading \in AlarmReadings(b)
         /\ Alarms(b)!Asked \in AlarmReadings(b)
         /\ Alarms(b)!IdleCall \in AlarmCalls(b)
         /\ AlarmCallFits(b, Alarms(b)!IdleCall)
         /\ Alarms(b)!IdleCall.kind = "none"
         /\ Alarms(b)!IdleCall.at = "idle"
<1>1. Alarms(b)!Absent \notin b.contents
  BY Zenon DEF Alarms!EndpointEditorAssumption
<1>2. Alarms(b)!Nothing = Alarms(b)!Absent
  BY Zenon DEF Alarms!Nothing, Alarms!Absent
<1>3. Alarms(b)!New \notin Alarms(b)!Ids /\ 1 \in Alarms(b)!Ids
      /\ Alarms(b)!Live \notin Alarms(b)!Ids \cup {Alarms(b)!New}
  BY AlarmBounds DEF Alarms!New, Alarms!Ids, Alarms!Live
<1>4. Alarms(b)!NoRows \in Alarms(b)!Lists
  BY DEF Alarms!NoRows, Alarms!Lists
<1>5. Alarms(b)!NoReading \in AlarmReadings(b) /\ Alarms(b)!Asked \in AlarmReadings(b)
  BY <1>4 DEF Alarms!NoReading, Alarms!Asked, AlarmReadings
<1>6. Alarms(b)!IdleCall \in AlarmCalls(b) /\ Alarms(b)!IdleCall.kind = "none" /\ Alarms(b)!IdleCall.at = "idle"
  BY DEF Alarms!IdleCall, AlarmCalls
<1>7. AlarmCallFits(b, Alarms(b)!IdleCall)
  BY <1>6 DEF AlarmCallFits
<1> QED
  BY <1>1, <1>2, <1>3, <1>4, <1>5, <1>6, <1>7

LEMMA AlarmStarts ==
  ASSUME NEW b, Alarms(b)!EndpointEditorAssumption, Alarms(b)!Init
  PROVE  AlarmInv(b)
<1>1. PICK x \in b.contents : alarmRows = [Alarms(b)!NoRows EXCEPT ![1] = x]
  BY DEF Alarms!Init
<1>2. alarmRows \in Alarms(b)!Lists
  BY <1>1, AlarmValues DEF Alarms!Lists
<1>3. alarmIssued \in 0 .. b.maxId /\ alarmActs \in 0 .. b.maxActs
  BY AlarmBounds DEF Alarms!Init
<1>4. AlarmListsOK(b)
  BY <1>2, <1>3, AlarmValues DEF Alarms!Init, AlarmListsOK
<1>5. AlarmFormOK(b)
  BY DEF Alarms!Init, AlarmFormOK, AlarmForms
<1>6. AlarmNoticeOK(b)
  BY DEF Alarms!Init, AlarmNoticeOK, AlarmNotices
<1>7. AlarmCallsOK(b)
  BY AlarmValues DEF Alarms!Init, AlarmCallsOK
<1>8. blind \in BOOLEAN /\ AlarmDeletions(b)
  BY DEF Alarms!Init, AlarmDeletions
<1> QED
  BY <1>4, <1>5, <1>6, <1>7, <1>8 DEF AlarmInv

(* Filled, typed in, closed.                                               *)
LEMMA AlarmPasses ==
  ASSUME NEW b, AlarmFormOK(b), NEW i \in Alarms(b)!Ids \cup {Alarms(b)!New},
         NEW x \in b.contents \cup {Alarms(b)!Nothing}, Alarms(b)!Pass(i, x)
  PROVE  AlarmFormOK(b)' /\ alarmEditing' = i
<1>1. alarmEditing' = i
  BY DEF Alarms!Pass
<1>2. CASE i = alarmEditing
  BY <1>1, <1>2 DEF Alarms!Pass, AlarmFormOK
<1>3. CASE i # alarmEditing
  <2>1. alarmForm' = [of |-> i, text |-> x] /\ alarmLate' = FALSE
    BY <1>3 DEF Alarms!Pass
  <2>2. alarmForm' \in AlarmForms(b) /\ alarmForm'.of = i
    BY <2>1 DEF AlarmForms
  <2> QED
    BY <1>1, <2>1, <2>2 DEF AlarmFormOK
<1> QED
  BY <1>1, <1>2, <1>3

LEMMA AlarmFormSteps ==
  ASSUME NEW b, Alarms(b)!EndpointEditorAssumption, AlarmInv(b),
         \/ \E i \in Alarms(b)!Ids : Alarms(b)!Edit(i)
         \/ Alarms(b)!Cancel
         \/ \E x \in b.contents : Alarms(b)!Type(x)
  PROVE  AlarmInv(b)'
<1>0. AlarmListsOK(b) /\ AlarmFormOK(b) /\ AlarmNoticeOK(b) /\ AlarmCallsOK(b) /\ blind \in BOOLEAN
      /\ AlarmDeletions(b)
  BY DEF AlarmInv
<1>1. ASSUME NEW i \in Alarms(b)!Ids, Alarms(b)!Edit(i) PROVE AlarmInv(b)'
  <2>1. /\ UNCHANGED <<alarmRows, alarmIssued, alarmList, alarmReading, alarmCall, notice, ended, alarmActs>>
        /\ Alarms(b)!Pass(i, alarmList[i]) /\ alarmList[i] # Alarms(b)!Absent
        /\ blind' = (alarmRows[i] = Alarms(b)!Absent \/ Alarms(b)!Detached(i))
    BY <1>1 DEF Alarms!Edit
  <2>2. alarmList[i] \in b.contents
    BY <1>0, <2>1 DEF AlarmListsOK, Alarms!Lists
  <2>3. AlarmFormOK(b)' /\ alarmEditing' = i
    BY <1>0, <2>1, <2>2, AlarmPasses
  <2>4. AlarmDeletions(b)'
    BY <2>1, <2>3 DEF AlarmDeletions, AlarmAbout, Alarms!Detached
  <2>5. blind' \in BOOLEAN
    BY <2>1
  <2> QED
    BY <1>0, <2>1, <2>3, <2>4, <2>5 DEF AlarmInv, AlarmListsOK, AlarmNoticeOK, AlarmCallsOK
<1>2. ASSUME Alarms(b)!Cancel PROVE AlarmInv(b)'
  <2>1. /\ UNCHANGED <<alarmRows, alarmIssued, alarmList, alarmReading, alarmCall, ended, blind, alarmActs>>
        /\ Alarms(b)!Pass(Alarms(b)!New, Alarms(b)!Nothing) /\ notice' = Alarms(b)!Nothing
    BY <1>2 DEF Alarms!Cancel
  <2>2. AlarmFormOK(b)' /\ alarmEditing' = Alarms(b)!New
    BY <1>0, <2>1, AlarmPasses
  <2>3. AlarmNoticeOK(b)'
    BY <1>0, <2>1 DEF AlarmNoticeOK, AlarmNotices
  <2>4. AlarmDeletions(b)'
    BY <2>2 DEF AlarmDeletions
  <2> QED
    BY <1>0, <2>1, <2>2, <2>3, <2>4 DEF AlarmInv, AlarmListsOK, AlarmCallsOK
<1>3. ASSUME NEW x \in b.contents, Alarms(b)!Type(x) PROVE AlarmInv(b)'
  <2>1. /\ UNCHANGED <<alarmRows, alarmIssued, alarmList, alarmReading, alarmEditing, notice, alarmCall, ended,
                       alarmLate, blind, alarmActs>>
        /\ alarmForm' = [alarmForm EXCEPT !.text = x]
    BY <1>3 DEF Alarms!Type
  <2>2. AlarmFormOK(b)'
    BY <1>0, <2>1 DEF AlarmFormOK, AlarmForms
  <2> QED
    BY <1>0, <2>1, <2>2 DEF AlarmInv, AlarmListsOK, AlarmNoticeOK, AlarmCallsOK, AlarmDeletions
<1> QED
  BY <1>1, <1>2, <1>3

(* A new request: the others of its kind are left with what they see.      *)
LEMMA AlarmCounts ==
  ASSUME NEW b, Alarms(b)!EndpointEditorAssumption, alarmActs \in 0 .. b.maxActs,
         alarmActs < b.maxActs, alarmActs' = alarmActs + 1
  PROVE  alarmActs' \in 0 .. b.maxActs
BY AlarmBounds

LEMMA AlarmBegins ==
  ASSUME NEW b, Alarms(b)!EndpointEditorAssumption, AlarmInv(b),
         NEW kind \in {"save", "delete", "test"}, NEW i \in Alarms(b)!Ids \cup {Alarms(b)!New},
         NEW x \in b.contents \cup {Alarms(b)!Nothing}, Alarms(b)!Begin(kind, i, x),
         kind = "save" => x \in b.contents, kind # "save" => i \in Alarms(b)!Ids,
         blind' \in BOOLEAN, blind => blind',
         kind = "delete" /\ ~blind' => \A c \in b.calls : ~AlarmAbout(alarmCall[c], alarmEditing),
         notice' \in {notice, Alarms(b)!Nothing}
  PROVE  AlarmInv(b)'
<1>0. AlarmListsOK(b) /\ AlarmFormOK(b) /\ AlarmNoticeOK(b) /\ AlarmCallsOK(b) /\ AlarmDeletions(b)
  BY DEF AlarmInv
<1> DEFINE new == [kind |-> kind, id |-> i, text |-> x, at |-> "asked", sees |-> Alarms(b)!Live]
           old(d) == [alarmCall[d] EXCEPT !.sees = Alarms(b)!Seen(d)]
<1>1. PICK c \in b.calls :
        /\ alarmCall[c] = Alarms(b)!IdleCall
        /\ alarmCall' = [d \in b.calls |-> IF d = c THEN new
                                          ELSE IF alarmCall[d].kind = kind THEN old(d) ELSE alarmCall[d]]
  BY DEF Alarms!Begin
<1>2. new \in AlarmCalls(b) /\ AlarmCallFits(b, new) /\ new.kind = kind /\ new.sees = Alarms(b)!Live
  <2>1. new \in AlarmCalls(b)
    BY DEF AlarmCalls
  <2>2. new.kind = kind /\ new.id = i /\ new.text = x /\ new.sees = Alarms(b)!Live
    OBVIOUS
  <2> HIDE DEF new
  <2> QED
    BY <2>1, <2>2 DEF AlarmCallFits
<1>3. ASSUME NEW d \in b.calls
      PROVE  /\ old(d) \in AlarmCalls(b) /\ AlarmCallFits(b, old(d)) /\ old(d).kind = alarmCall[d].kind
             /\ old(d).id = alarmCall[d].id /\ old(d).at = alarmCall[d].at
  <2>1. alarmCall[d] \in AlarmCalls(b) /\ AlarmCallFits(b, alarmCall[d])
    BY <1>0 DEF AlarmCallsOK
  <2>2. Alarms(b)!Seen(d) \in Alarms(b)!Ids \cup {Alarms(b)!New, Alarms(b)!Live}
    BY <1>0, <2>1 DEF Alarms!Seen, AlarmFormOK, AlarmCalls
  <2>3. /\ old(d) \in AlarmCalls(b) /\ old(d).kind = alarmCall[d].kind /\ old(d).id = alarmCall[d].id
        /\ old(d).at = alarmCall[d].at /\ old(d).text = alarmCall[d].text
    BY <2>1, <2>2 DEF AlarmCalls
  <2> HIDE DEF old
  <2> QED
    BY <2>1, <2>3 DEF AlarmCallFits
<1> HIDE DEF new, old
<1>4. AlarmCallsOK(b)'
  <2>1. \A d \in b.calls : alarmCall'[d] \in {new, old(d), alarmCall[d]}
    BY <1>1
  <2>2. \A d \in b.calls : alarmCall'[d] \in AlarmCalls(b) /\ AlarmCallFits(b, alarmCall'[d])
    BY <1>0, <1>2, <1>3, <2>1 DEF AlarmCallsOK
  <2>3. alarmCall' \in [b.calls -> AlarmCalls(b)]
    BY <1>1, <2>2
  <2> QED
    BY <2>2, <2>3 DEF AlarmCallsOK
<1>5. /\ UNCHANGED <<alarmRows, alarmIssued, alarmList, alarmReading, alarmEditing, alarmForm, ended, alarmLate>>
      /\ alarmActs < b.maxActs /\ alarmActs' = alarmActs + 1
  BY DEF Alarms!Begin
<1>6. AlarmListsOK(b)'
  BY <1>0, <1>5, AlarmCounts DEF AlarmListsOK
<1>7. AlarmNoticeOK(b)'
  BY <1>0, <1>5 DEF AlarmNoticeOK, AlarmNotices
<1>8. AlarmDeletions(b)'
  <2> SUFFICES ASSUME alarmEditing # Alarms(b)!New, ~blind'
               PROVE  /\ \A d \in b.calls : AlarmAbout(alarmCall'[d], alarmEditing)
                                              => alarmCall'[d].sees = Alarms(b)!Live
                      /\ alarmRows[alarmEditing] = Alarms(b)!Absent =>
                           \E d \in b.calls : AlarmAbout(alarmCall'[d], alarmEditing) /\ alarmCall'[d].at = "done"
    BY <1>5 DEF AlarmDeletions
  <2>1. /\ \A d \in b.calls : AlarmAbout(alarmCall[d], alarmEditing) => alarmCall[d].sees = Alarms(b)!Live
        /\ alarmRows[alarmEditing] = Alarms(b)!Absent =>
             \E d \in b.calls : AlarmAbout(alarmCall[d], alarmEditing) /\ alarmCall[d].at = "done"
    BY <1>0 DEF AlarmDeletions
  <2>2. alarmCall'[c] = new
    BY <1>1
  <2>3. CASE kind = "delete"
    <3>1. \A d \in b.calls : ~AlarmAbout(alarmCall[d], alarmEditing)
      BY <2>3
    <3>2. \A d \in b.calls \ {c} : ~AlarmAbout(alarmCall'[d], alarmEditing)
      BY <1>1, <1>3, <3>1 DEF AlarmAbout
    <3> QED
      BY <1>2, <2>1, <2>2, <3>1, <3>2
  <2>4. CASE kind # "delete"
    <3>1. \A d \in b.calls : d # c /\ alarmCall[d].kind = "delete" => alarmCall'[d] = alarmCall[d]
      BY <1>1, <2>4
    <3>2. \A d \in b.calls \ {c} : AlarmAbout(alarmCall'[d], alarmEditing) <=> AlarmAbout(alarmCall[d], alarmEditing)
      BY <1>1, <1>3 DEF AlarmAbout
    <3>3. ~AlarmAbout(alarmCall'[c], alarmEditing) /\ ~AlarmAbout(alarmCall[c], alarmEditing)
      BY <1>1, <1>2, <2>2, <2>4, AlarmValues DEF AlarmAbout
    <3>4. \A d \in b.calls : AlarmAbout(alarmCall'[d], alarmEditing) <=> AlarmAbout(alarmCall[d], alarmEditing)
      BY <3>2, <3>3
    <3>5. \A d \in b.calls : AlarmAbout(alarmCall[d], alarmEditing) => alarmCall'[d] = alarmCall[d]
      BY <3>1, <3>3 DEF AlarmAbout
    <3> QED
      BY <2>1, <3>4, <3>5
  <2> QED
    BY <2>3, <2>4
<1> QED
  BY <1>0, <1>4, <1>5, <1>6, <1>7, <1>8 DEF AlarmInv, AlarmFormOK

LEMMA AlarmRequests ==
  ASSUME NEW b, Alarms(b)!EndpointEditorAssumption, AlarmInv(b),
         Alarms(b)!Submit \/ \E i \in Alarms(b)!Ids : Alarms(b)!Delete(i) \/ Alarms(b)!Test(i)
  PROVE  AlarmInv(b)'
<1>0. blind \in BOOLEAN /\ AlarmFormOK(b)
  BY DEF AlarmInv
<1>1. CASE Alarms(b)!Submit
  <2>1. /\ alarmForm.text \in b.contents /\ alarmEditing \in Alarms(b)!Ids \cup {Alarms(b)!New}
        /\ Alarms(b)!Begin("save", alarmEditing, alarmForm.text) /\ notice' = Alarms(b)!Nothing /\ blind' = blind
    BY <1>0, <1>1 DEF Alarms!Submit, AlarmFormOK, AlarmForms
  <2> QED
    BY <1>0, <2>1, AlarmBegins
<1>2. ASSUME NEW i \in Alarms(b)!Ids, Alarms(b)!Delete(i) PROVE AlarmInv(b)'
  <2>1. /\ Alarms(b)!Begin("delete", i, Alarms(b)!Nothing) /\ notice' = notice
        /\ blind' = (blind \/ \E c \in b.calls : alarmCall[c].kind = "delete" /\ alarmCall[c].id = alarmEditing)
    BY <1>2 DEF Alarms!Delete
  <2>2. /\ blind' \in BOOLEAN /\ (blind => blind')
        /\ ~blind' => \A c \in b.calls : ~AlarmAbout(alarmCall[c], alarmEditing)
    BY <1>0, <2>1 DEF AlarmAbout
  <2> QED
    BY <2>1, <2>2, AlarmBegins
<1>3. ASSUME NEW i \in Alarms(b)!Ids, Alarms(b)!Test(i) PROVE AlarmInv(b)'
  <2>1. /\ Alarms(b)!Begin("test", i, Alarms(b)!Nothing) /\ notice' = Alarms(b)!Nothing /\ blind' = blind
    BY <1>3 DEF Alarms!Test
  <2> QED
    BY <1>0, <2>1, AlarmBegins
<1> QED
  BY <1>1, <1>2, <1>3

(* A request is changed to another one that can be.                        *)
LEMMA AlarmCallChanges ==
  ASSUME NEW b, AlarmCallsOK(b), NEW c \in b.calls, NEW q \in AlarmCalls(b), AlarmCallFits(b, q),
         alarmCall' = [alarmCall EXCEPT ![c] = q]
  PROVE  /\ AlarmCallsOK(b)'
         /\ \A d \in b.calls : alarmCall'[d] = IF d = c THEN q ELSE alarmCall[d]
BY DEF AlarmCallsOK

LEMMA AlarmMoves ==
  ASSUME NEW b, AlarmCallsOK(b), NEW c \in b.calls, NEW a \in {"done", "refused", "settling"},
         alarmCall[c].at # "idle", alarmCall' = [alarmCall EXCEPT ![c].at = a]
  PROVE  /\ AlarmCallsOK(b)'
         /\ \A d \in b.calls : /\ alarmCall'[d].kind = alarmCall[d].kind /\ alarmCall'[d].id = alarmCall[d].id
                               /\ alarmCall'[d].sees = alarmCall[d].sees
                               /\ d # c => alarmCall'[d].at = alarmCall[d].at
         /\ alarmCall'[c].at = a
<1> DEFINE q == [alarmCall[c] EXCEPT !.at = a]
<1>1. alarmCall[c] \in AlarmCalls(b) /\ AlarmCallFits(b, alarmCall[c])
  BY DEF AlarmCallsOK
<1>2. /\ q \in AlarmCalls(b) /\ q.at = a /\ q.kind = alarmCall[c].kind /\ q.id = alarmCall[c].id
      /\ q.text = alarmCall[c].text /\ q.sees = alarmCall[c].sees
  BY <1>1 DEF AlarmCalls
<1>3. alarmCall' = [alarmCall EXCEPT ![c] = q]
  OBVIOUS
<1> HIDE DEF q
<1>4. AlarmCallFits(b, q)
  BY <1>1, <1>2 DEF AlarmCallFits
<1>5. /\ AlarmCallsOK(b)'
      /\ \A d \in b.calls : alarmCall'[d] = IF d = c THEN q ELSE alarmCall[d]
  BY <1>2, <1>3, <1>4 DEF AlarmCallsOK
<1> QED
  BY <1>2, <1>5

LEMMA AlarmServes ==
  ASSUME NEW b, Alarms(b)!EndpointEditorAssumption, AlarmInv(b), NEW c \in b.calls, Alarms(b)!Serve(c)
  PROVE  AlarmInv(b)'
<1>0. AlarmListsOK(b) /\ AlarmFormOK(b) /\ AlarmNoticeOK(b) /\ AlarmCallsOK(b) /\ AlarmDeletions(b)
      /\ blind \in BOOLEAN
  BY DEF AlarmInv
<1> DEFINE i == alarmCall[c].id
           k == alarmCall[c].kind
           x == alarmCall[c].text
           Moved(a) == alarmCall' = [alarmCall EXCEPT ![c].at = a]
           Gone(j) == alarmRows'[j] = Alarms(b)!Absent =>
                        alarmRows[j] = Alarms(b)!Absent \/ (k = "delete" /\ i = j)
<1>1. /\ UNCHANGED <<alarmList, alarmReading, alarmEditing, alarmForm, notice, ended, alarmLate, blind, alarmActs>>
      /\ alarmCall[c].at = "asked"
  BY DEF Alarms!Serve, Alarms!pageVars
<1>2. /\ k \in {"save", "delete", "test"} /\ i \in Alarms(b)!Ids \cup {Alarms(b)!New}
      /\ k = "save" => x \in b.contents
  BY <1>0, <1>1 DEF AlarmCallsOK, AlarmCalls, AlarmCallFits
<1>3. \/ /\ Moved("done") /\ alarmRows' \in Alarms(b)!Lists /\ alarmIssued' \in 0 .. b.maxId
         /\ \A j \in Alarms(b)!Ids : Gone(j)
      \/ Moved("refused") /\ UNCHANGED <<alarmRows, alarmIssued>>
  <2>1. alarmRows \in Alarms(b)!Lists /\ alarmIssued \in 0 .. b.maxId
    BY <1>0 DEF AlarmListsOK
  <2>2. CASE /\ k = "save" /\ i = Alarms(b)!New /\ alarmIssued < b.maxId
             /\ alarmIssued' = alarmIssued + 1
             /\ alarmRows' = [alarmRows EXCEPT ![alarmIssued + 1] = x]
             /\ alarmCall' = [alarmCall EXCEPT ![c].at = "done"]
    <3>1. alarmIssued' \in 0 .. b.maxId
      BY <2>1, <2>2, AlarmBounds
    <3>2. x \in b.contents
      BY <1>2, <2>2
    <3> DEFINE n == alarmIssued + 1
    <3>3. alarmRows' = [alarmRows EXCEPT ![n] = x]
      BY <2>2
    <3> HIDE DEF x, n
    <3>4. alarmRows' \in Alarms(b)!Lists
          /\ \A j \in Alarms(b)!Ids : alarmRows'[j] = alarmRows[j] \/ alarmRows'[j] = x
      BY <2>1, <3>2, <3>3 DEF Alarms!Lists
    <3>5. \A j \in Alarms(b)!Ids : Gone(j)
      BY <3>2, <3>4, AlarmValues
    <3>6. Moved("done")
      BY <2>2
    <3> HIDE DEF Moved, Gone
    <3> QED
      BY <3>1, <3>4, <3>5, <3>6
  <2>3. CASE /\ i # Alarms(b)!New /\ alarmRows[i] # Alarms(b)!Absent
             /\ alarmRows' = CASE k = "save"   -> [alarmRows EXCEPT ![i] = x]
                               [] k = "delete" -> [alarmRows EXCEPT ![i] = Alarms(b)!Absent]
                               [] k = "test"   -> alarmRows
             /\ alarmCall' = [alarmCall EXCEPT ![c].at = "done"]
             /\ UNCHANGED alarmIssued
    <3>0. Moved("done") /\ alarmIssued' \in 0 .. b.maxId
      BY <2>1, <2>3
    <3>1. CASE k = "save"
      <4>1. alarmRows' = [alarmRows EXCEPT ![i] = x] /\ x \in b.contents
        BY <1>2, <2>3, <3>1
      <4> HIDE DEF x, i
      <4>2. alarmRows' \in Alarms(b)!Lists
            /\ \A j \in Alarms(b)!Ids : alarmRows'[j] = alarmRows[j] \/ alarmRows'[j] = x
        BY <2>1, <4>1 DEF Alarms!Lists
      <4>3. \A j \in Alarms(b)!Ids : Gone(j)
        BY <4>1, <4>2, AlarmValues
      <4> HIDE DEF Moved, Gone
      <4> QED
        BY <3>0, <4>2, <4>3
    <3>2. CASE k = "delete"
      <4>1. alarmRows' = [alarmRows EXCEPT ![i] = Alarms(b)!Absent]
        BY <2>3, <3>2
      <4> HIDE DEF i
      <4>2. alarmRows' \in Alarms(b)!Lists
            /\ \A j \in Alarms(b)!Ids : alarmRows'[j] = alarmRows[j] \/ j = i
        BY <2>1, <4>1 DEF Alarms!Lists
      <4>3. \A j \in Alarms(b)!Ids : Gone(j)
        BY <3>2, <4>2
      <4> HIDE DEF Moved, Gone
      <4> QED
        BY <3>0, <4>2, <4>3
    <3>3. CASE k = "test"
      <4>1. alarmRows' = alarmRows
        BY <2>3, <3>3
      <4>2. \A j \in Alarms(b)!Ids : Gone(j)
        BY <4>1
      <4> HIDE DEF Moved, Gone
      <4> QED
        BY <2>1, <3>0, <4>1, <4>2
    <3> QED
      BY <1>2, <3>1, <3>2, <3>3
  <2>4. CASE Moved("refused") /\ UNCHANGED <<alarmRows, alarmIssued>>
    BY <2>4
  <2> QED
    BY <2>2, <2>3, <2>4 DEF Alarms!Serve
<1> HIDE DEF x
<1>4. ASSUME NEW a \in {"done", "refused"}, alarmCall' = [alarmCall EXCEPT ![c].at = a]
      PROVE  /\ AlarmCallsOK(b)'
             /\ \A d \in b.calls : /\ alarmCall'[d].kind = alarmCall[d].kind /\ alarmCall'[d].id = alarmCall[d].id
                                   /\ alarmCall'[d].sees = alarmCall[d].sees
                                   /\ d # c => alarmCall'[d].at = alarmCall[d].at
             /\ alarmCall'[c].at = a
  BY <1>0, <1>1, <1>4, AlarmMoves
<1>5. /\ AlarmCallsOK(b)'
      /\ \A d \in b.calls : /\ alarmCall'[d].kind = alarmCall[d].kind /\ alarmCall'[d].id = alarmCall[d].id
                            /\ alarmCall'[d].sees = alarmCall[d].sees
                            /\ alarmCall[d].at = "done" => alarmCall'[d].at = "done"
  BY <1>1, <1>3, <1>4
<1>6. \/ alarmRows' = alarmRows
      \/ /\ alarmCall'[c].at = "done"
         /\ \A j \in Alarms(b)!Ids : alarmRows'[j] = Alarms(b)!Absent =>
              alarmRows[j] = Alarms(b)!Absent \/ (k = "delete" /\ i = j)
  BY <1>3, <1>4
<1>7. AlarmDeletions(b)'
  <2> SUFFICES ASSUME alarmEditing # Alarms(b)!New, ~blind
               PROVE  /\ \A d \in b.calls : AlarmAbout(alarmCall'[d], alarmEditing)
                                              => alarmCall'[d].sees = Alarms(b)!Live
                      /\ alarmRows'[alarmEditing] = Alarms(b)!Absent =>
                           \E d \in b.calls : AlarmAbout(alarmCall'[d], alarmEditing) /\ alarmCall'[d].at = "done"
    BY <1>1 DEF AlarmDeletions
  <2>1. /\ \A d \in b.calls : AlarmAbout(alarmCall[d], alarmEditing) => alarmCall[d].sees = Alarms(b)!Live
        /\ alarmRows[alarmEditing] = Alarms(b)!Absent =>
             \E d \in b.calls : AlarmAbout(alarmCall[d], alarmEditing) /\ alarmCall[d].at = "done"
    BY <1>0 DEF AlarmDeletions
  <2>2. \A d \in b.calls : AlarmAbout(alarmCall'[d], alarmEditing) <=> AlarmAbout(alarmCall[d], alarmEditing)
    BY <1>5 DEF AlarmAbout
  <2>3. alarmEditing \in Alarms(b)!Ids
    BY <1>0 DEF AlarmFormOK
  <2>4. CASE alarmRows[alarmEditing] = Alarms(b)!Absent
    BY <1>5, <2>1, <2>2, <2>4
  <2>5. CASE alarmRows[alarmEditing] # Alarms(b)!Absent /\ alarmRows'[alarmEditing] = Alarms(b)!Absent
    <3>1. alarmCall'[c].at = "done" /\ AlarmAbout(alarmCall[c], alarmEditing)
      BY <1>6, <2>3, <2>5 DEF AlarmAbout
    <3> QED
      BY <1>5, <2>1, <2>2, <3>1
  <2> QED
    BY <1>5, <2>1, <2>2, <2>4, <2>5
<1>8. AlarmListsOK(b)'
  BY <1>0, <1>1, <1>3 DEF AlarmListsOK
<1> QED
  BY <1>0, <1>1, <1>5, <1>7, <1>8 DEF AlarmInv, AlarmFormOK, AlarmNoticeOK

LEMMA AlarmReads ==
  ASSUME NEW b, Alarms(b)!EndpointEditorAssumption, AlarmInv(b), Alarms(b)!Read \/ Alarms(b)!Arrive
  PROVE  AlarmInv(b)'
<1>1. UNCHANGED <<alarmRows, alarmIssued, alarmEditing, alarmForm, notice, ended, alarmLate, blind, alarmCall,
                  alarmActs>>
  BY DEF Alarms!Read, Alarms!Arrive, Alarms!pageVars
<1>2. alarmList' \in Alarms(b)!Lists /\ alarmReading' \in AlarmReadings(b)
  BY AlarmValues DEF Alarms!Read, Alarms!Arrive, AlarmInv, AlarmListsOK, AlarmReadings
<1> QED
  BY <1>1, <1>2 DEF AlarmInv, AlarmListsOK, AlarmFormOK, AlarmNoticeOK, AlarmCallsOK, AlarmDeletions

(* The page hears of a save.                                               *)
LEMMA AlarmSaves ==
  ASSUME NEW b, Alarms(b)!EndpointEditorAssumption, AlarmInv(b), NEW c \in b.calls, Alarms(b)!Saved(c)
  PROVE  AlarmInv(b)'
<1>0. AlarmListsOK(b) /\ AlarmFormOK(b) /\ AlarmNoticeOK(b) /\ AlarmCallsOK(b) /\ blind \in BOOLEAN
  BY DEF AlarmInv
<1>1. /\ UNCHANGED <<alarmRows, alarmIssued, alarmList, blind, alarmActs>>
      /\ alarmCall[c].at = "done" /\ Alarms(b)!Pass(Alarms(b)!New, Alarms(b)!Nothing)
      /\ alarmReading' = Alarms(b)!Asked /\ alarmCall' = [alarmCall EXCEPT ![c].at = "settling"]
      /\ notice' \in {"created", "updated"} /\ ended' \in {"created", "updated"}
  BY DEF Alarms!Saved
<1>2. AlarmFormOK(b)' /\ alarmEditing' = Alarms(b)!New
  BY <1>0, <1>1, AlarmPasses
<1>3. AlarmNoticeOK(b)'
  BY <1>1 DEF AlarmNoticeOK, AlarmNotices, Alarms!Results
<1>4. AlarmCallsOK(b)'
  BY <1>0, <1>1, AlarmMoves
<1>5. AlarmListsOK(b)' /\ AlarmDeletions(b)'
  BY <1>0, <1>1, <1>2, AlarmValues DEF AlarmListsOK, AlarmDeletions
<1> QED
  BY <1>0, <1>1, <1>2, <1>3, <1>4, <1>5 DEF AlarmInv

(* A request ends that is no deletion the form still waits for.            *)
LEMMA AlarmEnds ==
  ASSUME NEW b, Alarms(b)!EndpointEditorAssumption, AlarmInv(b), NEW c \in b.calls,
         alarmCall' = [alarmCall EXCEPT ![c] = Alarms(b)!IdleCall],
         UNCHANGED <<alarmRows, blind>>,
         alarmEditing' \in {alarmEditing, Alarms(b)!New},
         \/ alarmEditing' = Alarms(b)!New
         \/ alarmCall[c].at # "done"
         \/ ~AlarmAbout(alarmCall[c], alarmEditing)
  PROVE  AlarmCallsOK(b)' /\ AlarmDeletions(b)'
<1>0. AlarmCallsOK(b) /\ AlarmDeletions(b)
  BY DEF AlarmInv
<1>1. AlarmCallsOK(b)' /\ \A d \in b.calls : alarmCall'[d] = IF d = c THEN Alarms(b)!IdleCall ELSE alarmCall[d]
  BY <1>0, AlarmValues DEF AlarmCallsOK
<1>2. ~AlarmAbout(Alarms(b)!IdleCall, alarmEditing)
  BY AlarmValues DEF AlarmAbout
<1>3. CASE alarmEditing' = alarmEditing /\ alarmEditing # Alarms(b)!New
  BY <1>0, <1>1, <1>2, <1>3 DEF AlarmDeletions
<1>4. CASE alarmEditing' = Alarms(b)!New
  BY <1>1, <1>4 DEF AlarmDeletions
<1> QED
  BY <1>1, <1>3, <1>4

LEMMA AlarmTold ==
  ASSUME NEW b, NEW r \in {"deleted", "tested", "failed"}, Alarms(b)!Tell(r)
  PROVE  AlarmNoticeOK(b)'
BY DEF Alarms!Tell, AlarmNoticeOK, AlarmNotices, Alarms!Results

LEMMA AlarmDeletes ==
  ASSUME NEW b, Alarms(b)!EndpointEditorAssumption, AlarmInv(b), NEW c \in b.calls, Alarms(b)!Deleted(c)
  PROVE  AlarmInv(b)'
<1>0. AlarmListsOK(b) /\ AlarmFormOK(b) /\ AlarmCallsOK(b) /\ AlarmDeletions(b) /\ blind \in BOOLEAN
  BY DEF AlarmInv
<1>1. /\ UNCHANGED <<alarmRows, alarmIssued, alarmList, blind, alarmActs>>
      /\ alarmCall[c].kind = "delete" /\ Alarms(b)!Tell("deleted") /\ alarmReading' = Alarms(b)!Asked
      /\ alarmCall' = [alarmCall EXCEPT ![c] = Alarms(b)!IdleCall]
  BY DEF Alarms!Deleted
<1>2. \/ Alarms(b)!Pass(Alarms(b)!New, Alarms(b)!Nothing)
      \/ Alarms(b)!Seen(c) # alarmCall[c].id /\ UNCHANGED <<alarmEditing, alarmForm, alarmLate>>
  BY DEF Alarms!Deleted
<1>3. AlarmFormOK(b)' /\ alarmEditing' \in {alarmEditing, Alarms(b)!New}
  <2>1. CASE Alarms(b)!Pass(Alarms(b)!New, Alarms(b)!Nothing)
    BY <1>0, <2>1, AlarmPasses
  <2>2. CASE UNCHANGED <<alarmEditing, alarmForm, alarmLate>>
    BY <1>0, <2>2 DEF AlarmFormOK
  <2> QED
    BY <1>2, <2>1, <2>2
<1>4. CASE alarmEditing' = Alarms(b)!New \/ ~AlarmAbout(alarmCall[c], alarmEditing)
  <2>1. AlarmCallsOK(b)' /\ AlarmDeletions(b)'
    BY <1>1, <1>3, <1>4, AlarmEnds
  <2> QED
    BY <1>0, <1>1, <1>3, <2>1, AlarmTold, AlarmValues DEF AlarmInv, AlarmListsOK
<1>5. CASE alarmEditing # Alarms(b)!New /\ UNCHANGED alarmEditing /\ AlarmAbout(alarmCall[c], alarmEditing)
  <2>1. Alarms(b)!Seen(c) # alarmCall[c].id
    BY <1>0, <1>2, <1>5, AlarmPasses
  <2>2. blind
    BY <1>0, <1>5, <2>1 DEF AlarmDeletions, AlarmAbout, Alarms!Seen
  <2>3. AlarmCallsOK(b)'
    BY <1>0, <1>1, AlarmValues, AlarmCallChanges
  <2>4. AlarmDeletions(b)'
    BY <1>1, <2>2 DEF AlarmDeletions
  <2> QED
    BY <1>0, <1>1, <1>3, <2>3, <2>4, AlarmTold, AlarmValues DEF AlarmInv, AlarmListsOK
<1> QED
  BY <1>3, <1>4, <1>5

LEMMA AlarmTests ==
  ASSUME NEW b, Alarms(b)!EndpointEditorAssumption, AlarmInv(b), NEW c \in b.calls, Alarms(b)!Tested(c)
  PROVE  AlarmInv(b)'
<1>1. /\ UNCHANGED <<alarmRows, alarmIssued, alarmList, alarmReading, alarmEditing, alarmForm, alarmLate, blind,
                     alarmActs>>
      /\ alarmCall[c].kind = "test" /\ Alarms(b)!Tell("tested")
      /\ alarmCall' = [alarmCall EXCEPT ![c] = Alarms(b)!IdleCall]
  BY DEF Alarms!Tested
<1>2. ~AlarmAbout(alarmCall[c], alarmEditing)
  BY <1>1 DEF AlarmAbout
<1>3. AlarmCallsOK(b)' /\ AlarmDeletions(b)'
  BY <1>1, <1>2, AlarmEnds
<1> QED
  BY <1>1, <1>3, AlarmTold DEF AlarmInv, AlarmListsOK, AlarmFormOK

(* A save has settled, or a request is refused.                            *)
LEMMA AlarmSettles ==
  ASSUME NEW b, Alarms(b)!EndpointEditorAssumption, AlarmInv(b), NEW c \in b.calls,
         Alarms(b)!Settle(c) \/ Alarms(b)!Refused(c)
  PROVE  AlarmInv(b)'
<1>0. AlarmListsOK(b) /\ AlarmFormOK(b) /\ AlarmNoticeOK(b) /\ blind \in BOOLEAN
  BY DEF AlarmInv
<1>1. /\ UNCHANGED <<alarmRows, alarmIssued, alarmList, alarmReading, alarmEditing, blind, alarmActs>>
      /\ alarmCall[c].at # "done" /\ Alarms(b)!Empty(c)
      /\ UNCHANGED <<notice, ended>> \/ Alarms(b)!Tell("failed")
  BY DEF Alarms!Settle, Alarms!Refused
<1>2. alarmCall' = [alarmCall EXCEPT ![c] = Alarms(b)!IdleCall]
  BY <1>1 DEF Alarms!Empty
<1>3. AlarmCallsOK(b)' /\ AlarmDeletions(b)'
  BY <1>1, <1>2, AlarmEnds
<1>4. AlarmNoticeOK(b)'
  <2>1. CASE UNCHANGED <<notice, ended>>
    BY <1>0, <2>1 DEF AlarmNoticeOK
  <2> QED
    BY <1>1, <2>1, AlarmTold
<1>5. AlarmFormOK(b)'
  <2> DEFINE new == [of |-> Alarms(b)!New, text |-> Alarms(b)!Nothing]
  <2>1. CASE alarmForm' = new /\ alarmLate' = (alarmEditing # Alarms(b)!New)
    <3>1. new \in AlarmForms(b) /\ new.of = Alarms(b)!New
      BY DEF AlarmForms
    <3> HIDE DEF new
    <3> QED
      BY <1>0, <1>1, <2>1, <3>1, Zenon DEF AlarmFormOK
  <2>2. CASE UNCHANGED <<alarmForm, alarmLate>>
    BY <1>0, <1>1, <2>2 DEF AlarmFormOK
  <2> QED
    BY <1>1, <2>1, <2>2 DEF Alarms!Empty
<1> QED
  BY <1>0, <1>1, <1>3, <1>4, <1>5 DEF AlarmInv, AlarmListsOK

LEMMA AlarmSteps ==
  ASSUME NEW b, Alarms(b)!EndpointEditorAssumption, AlarmInv(b), Alarms(b)!Next
  PROVE  AlarmInv(b)'
BY AlarmFormSteps, AlarmRequests, AlarmServes, AlarmReads, AlarmSaves, AlarmDeletes, AlarmTests, AlarmSettles
   DEF Alarms!Next

LEMMA AlarmStands ==
  ASSUME NEW b, AlarmInv(b), UNCHANGED alarmVars
  PROVE  AlarmInv(b)'
BY DEF AlarmInv, AlarmListsOK, AlarmFormOK, AlarmNoticeOK, AlarmCallsOK, AlarmDeletions, alarmVars

LEMMA AlarmTells ==
  ASSUME NEW b, AlarmInv(b)
  PROVE  /\ Alarms(b)!TypeOK
         /\ Alarms(b)!NoticeIsOfTheLastEnd
         /\ Alarms(b)!EditFormShowsItsEndpoint
         /\ Alarms(b)!DeletedIsNotEdited
<1>1. Alarms(b)!TypeOK
  BY DEF AlarmInv, AlarmListsOK, AlarmFormOK, AlarmNoticeOK, AlarmCallsOK, AlarmCalls, AlarmForms, AlarmReadings,
         AlarmNotices, Alarms!TypeOK
<1>2. Alarms(b)!NoticeIsOfTheLastEnd
  BY DEF AlarmInv, AlarmNoticeOK, Alarms!NoticeIsOfTheLastEnd
<1>3. Alarms(b)!EditFormShowsItsEndpoint
  BY DEF AlarmInv, AlarmFormOK, Alarms!EditFormShowsItsEndpoint
<1>4. Alarms(b)!DeletedIsNotEdited
  BY DEF AlarmInv, AlarmDeletions, AlarmAbout, Alarms!DeletedIsNotEdited
<1> QED
  BY <1>1, <1>2, <1>3, <1>4

-----------------------------------------------------------------------------
(* The public page and the list of the dashboard.  The columns of a row    *)
(* that a check writes fit each other, on the server as in every answer;   *)
(* an answer that is as old as the last change has the rows of the server, *)
(* and two answers of the same age have the same rows.                     *)
StatusRows(b) == [Status(b)!Ids -> Status(b)!Row \cup {Status(b)!Absent}]
StatusAnswers(b) == [at : 0 .. b.maxActs \cup {Status(b)!None}, rows : StatusRows(b)]

(* The row q, on the given day or later.                                   *)
RowFits(b, q, day) ==
  q # Status(b)!Absent =>
    /\ (q.days = Status(b)!None) = (q.successful = Status(b)!None)
    /\ (q.expires = Status(b)!None) = (q.successful = Status(b)!None)
    /\ q.successful # Status(b)!None => q.days = q.expires - q.successful /\ q.successful <= day
    /\ q.status = "healthy" => q.successful # Status(b)!None
    /\ q.error = (q.status = "error")

RowsFit(b, r, day) == \A i \in Status(b)!Ids : RowFits(b, r[i], day)

AnswerFits(b, a, r, n, day) ==
  /\ RowsFit(b, a.rows, day)
  /\ a.at = Status(b)!None => a = Status(b)!NoAnswer
  /\ a.at # Status(b)!None => a.at <= n /\ (a.at = n => a.rows = r)

Answers(b) == {answer[k] : k \in Status(b)!Keys} \cup {data[k] : k \in Status(b)!Keys}

StatusTyped(b) ==
  /\ statusRows \in StatusRows(b)
  /\ today \in 0 .. b.maxDay
  /\ statusIssued \in 0 .. b.maxId
  /\ suspended \in BOOLEAN
  /\ answer \in [Status(b)!Keys -> StatusAnswers(b)]
  /\ data \in [Status(b)!Keys -> StatusAnswers(b)]
  /\ expanded \in 0 .. b.maxId
  /\ statusActs \in 0 .. b.maxActs

StatusInv(b) ==
  /\ StatusTyped(b)
  /\ RowsFit(b, statusRows, today)
  /\ \A x \in Answers(b) : AnswerFits(b, x, statusRows, statusActs, today)
  /\ \A x, y \in Answers(b) : x.at = y.at => x.rows = y.rows

LEMMA StatusCounts ==
  ASSUME NEW b
  PROVE  /\ \A S : Status(b)!Cardinality(S) = Cardinality(S)
         /\ b.maxId \in Nat => \A S \in SUBSET Status(b)!Ids : IsFiniteSet(S)
<1>1. \A S : Status(b)!Cardinality(S) = Cardinality(S)
  BY Zenon DEF Cardinality, Status!Cardinality
<1>2. ASSUME b.maxId \in Nat, NEW S \in SUBSET Status(b)!Ids PROVE IsFiniteSet(S)
  <2>1. IsFiniteSet(Status(b)!Ids)
    BY <1>2, CountUpTo DEF Status!Ids
  <2> QED
    BY <1>2, <2>1, FS_Subset
<1> QED
  BY <1>1, <1>2

LEMMA StatusBounds ==
  ASSUME NEW b, Status(b)!StatusPagesAssumption
  PROVE  /\ b.maxId \in Nat /\ b.maxActs \in Nat /\ b.maxDay \in Nat
         /\ b.intervals \subseteq Nat /\ b.day \in Nat \ {0}
         /\ b.expiryOf \in [b.hosts -> Int]
BY DEF Status!StatusPagesAssumption

LEMMA NoAnswerFits ==
  ASSUME NEW b, Status(b)!StatusPagesAssumption, NEW r, NEW n, NEW day
  PROVE  /\ Status(b)!NoAnswer \in StatusAnswers(b)
         /\ AnswerFits(b, Status(b)!NoAnswer, r, n, day)
         /\ Status(b)!NoAnswer.at = Status(b)!None
         /\ Status(b)!NoAnswer.rows \in StatusRows(b)
         /\ RowsFit(b, Status(b)!NoAnswer.rows, day)
<1>1. /\ Status(b)!NoAnswer.at = Status(b)!None
      /\ Status(b)!NoAnswer.rows = [i \in Status(b)!Ids |-> Status(b)!Absent]
      /\ Status(b)!NoAnswer = [at |-> Status(b)!NoAnswer.at, rows |-> Status(b)!NoAnswer.rows]
  BY DEF Status!NoAnswer
<1>2. Status(b)!NoAnswer.rows \in StatusRows(b)
  BY <1>1 DEF StatusRows
<1>3. RowsFit(b, Status(b)!NoAnswer.rows, day)
  BY <1>1 DEF RowsFit, RowFits
<1> QED
  BY <1>1, <1>2, <1>3 DEF StatusAnswers, AnswerFits

LEMMA StatusStarts ==
  ASSUME NEW b, Status(b)!StatusPagesAssumption, Status(b)!Init
  PROVE  StatusInv(b)
<1>1. /\ statusRows = Status(b)!NoAnswer.rows /\ today = 0 /\ statusIssued = 0 /\ suspended = FALSE
      /\ answer = [k \in Status(b)!Keys |-> Status(b)!NoAnswer]
      /\ data = [k \in Status(b)!Keys |-> Status(b)!NoAnswer]
      /\ expanded = 0 /\ statusActs = 0
  BY DEF Status!Init
<1>2. StatusTyped(b)
  <2>1. answer \in [Status(b)!Keys -> StatusAnswers(b)] /\ data \in [Status(b)!Keys -> StatusAnswers(b)]
    BY <1>1, NoAnswerFits
  <2>2. statusRows \in StatusRows(b) /\ suspended \in BOOLEAN
    BY <1>1, NoAnswerFits
  <2>3. today \in 0 .. b.maxDay /\ statusIssued \in 0 .. b.maxId /\ expanded \in 0 .. b.maxId
        /\ statusActs \in 0 .. b.maxActs
    BY <1>1, StatusBounds
  <2> QED
    BY <2>1, <2>2, <2>3 DEF StatusTyped
<1>3. \A x \in Answers(b) : x = Status(b)!NoAnswer
  BY <1>1 DEF Answers
<1> QED
  BY <1>1, <1>2, <1>3, NoAnswerFits DEF StatusInv

(* A change on the server: no answer is as old as what it leaves.          *)
LEMMA ChangeFits ==
  ASSUME NEW b, Status(b)!StatusPagesAssumption, StatusInv(b), Status(b)!Act,
         statusRows' \in StatusRows(b), RowsFit(b, statusRows', today),
         today' = today, statusIssued' \in 0 .. b.maxId, suspended' \in BOOLEAN
  PROVE  StatusInv(b)'
<1>1. /\ statusActs \in 0 .. b.maxActs /\ statusActs < b.maxActs /\ statusActs' = statusActs + 1
      /\ UNCHANGED <<answer, data, expanded>> /\ b.maxActs \in Nat
  BY StatusBounds DEF Status!Act, StatusInv, StatusTyped
<1>2. Answers(b)' = Answers(b)
  BY <1>1 DEF Answers
<1>3. \A x \in Answers(b) : x \in StatusAnswers(b)
  BY DEF Answers, StatusInv, StatusTyped
<1>4. ASSUME NEW x \in Answers(b) PROVE AnswerFits(b, x, statusRows', statusActs', today')
  <2>1. AnswerFits(b, x, statusRows, statusActs, today)
    BY DEF StatusInv
  <2>2. x.at # Status(b)!None => x.at \in 0 .. b.maxActs
    BY <1>3 DEF StatusAnswers
  <2>3. x.at # Status(b)!None => x.at <= statusActs' /\ x.at # statusActs'
    BY <1>1, <2>1, <2>2 DEF AnswerFits
  <2> QED
    BY <2>1, <2>3 DEF AnswerFits
<1>5. StatusTyped(b)'
  <2>1. statusActs' \in 0 .. b.maxActs
    BY <1>1
  <2> QED
    BY <1>1, <2>1 DEF StatusInv, StatusTyped
<1> QED
  BY <1>2, <1>4, <1>5 DEF StatusInv

LEMMA RowChangeFits ==
  ASSUME NEW b, Status(b)!StatusPagesAssumption, StatusInv(b), NEW i \in Status(b)!Ids,
         NEW q \in Status(b)!Row \cup {Status(b)!Absent}, RowFits(b, q, today),
         statusRows' = [statusRows EXCEPT ![i] = q]
  PROVE  statusRows' \in StatusRows(b) /\ RowsFit(b, statusRows', today)
<1>1. statusRows' \in StatusRows(b) /\ \A j \in Status(b)!Ids : statusRows'[j] = IF j = i THEN q ELSE statusRows[j]
  BY DEF StatusInv, StatusTyped, StatusRows
<1> QED
  BY <1>1 DEF StatusInv, RowsFit

LEMMA CreateFits ==
  ASSUME NEW b, Status(b)!StatusPagesAssumption, StatusInv(b), Status(b)!Create
  PROVE  StatusInv(b)'
<1>1. PICK h \in b.hosts, s \in b.intervals :
        statusRows' = [statusRows EXCEPT ![statusIssued + 1] =
            [host |-> h, enabled |-> TRUE, interval |-> s, status |-> "pending", expires |-> Status(b)!None,
             days |-> Status(b)!None, error |-> FALSE, successful |-> Status(b)!None, looked |-> ""]]
  BY DEF Status!Create
<1> DEFINE q == [host |-> h, enabled |-> TRUE, interval |-> s, status |-> "pending", expires |-> Status(b)!None,
                 days |-> Status(b)!None, error |-> FALSE, successful |-> Status(b)!None, looked |-> ""]
<1>2. Status(b)!None \in Int
  BY DEF Status!None
<1>3. q \in Status(b)!Row
  BY <1>2 DEF Status!Row
<1>4. q.days = Status(b)!None /\ q.successful = Status(b)!None /\ q.expires = Status(b)!None
      /\ q.status = "pending" /\ q.error = FALSE
  OBVIOUS
<1> HIDE DEF q
<1>5. RowFits(b, q, today)
  BY <1>4 DEF RowFits
<1>6. statusIssued + 1 \in Status(b)!Ids /\ statusIssued' \in 0 .. b.maxId
  <2>1. statusIssued < b.maxId /\ statusIssued' = statusIssued + 1
    BY Zenon DEF Status!Create
  <2>2. statusIssued \in 0 .. b.maxId
    BY DEF StatusInv, StatusTyped
  <2>3. statusIssued + 1 \in 1 .. b.maxId /\ statusIssued' \in 0 .. b.maxId
    BY <2>1, <2>2, StatusBounds
  <2> QED
    BY <2>3 DEF Status!Ids
<1>7. statusRows' \in StatusRows(b) /\ RowsFit(b, statusRows', today)
  <2>1. statusRows' = [statusRows EXCEPT ![statusIssued + 1] = q]
    BY <1>1 DEF q
  <2> QED
    BY <1>3, <1>5, <1>6, <2>1, RowChangeFits
<1>8. Status(b)!Act /\ today' = today /\ suspended' \in BOOLEAN
  BY DEF Status!Create, StatusInv, StatusTyped
<1> QED
  BY <1>6, <1>7, <1>8, ChangeFits

LEMMA UpdateFits ==
  ASSUME NEW b, Status(b)!StatusPagesAssumption, StatusInv(b), NEW i \in Status(b)!Ids, Status(b)!Update(i)
  PROVE  StatusInv(b)'
<1>1. PICK h \in b.hosts, e \in BOOLEAN, s \in b.intervals :
        statusRows' = [statusRows EXCEPT ![i].host = h, ![i].enabled = e, ![i].interval = s]
  BY DEF Status!Update
<1> DEFINE q == [statusRows[i] EXCEPT !.host = h, !.enabled = e, !.interval = s]
<1>2. statusRows[i] \in Status(b)!Row /\ statusRows \in StatusRows(b) /\ RowFits(b, statusRows[i], today)
      /\ statusRows[i] # Status(b)!Absent
  BY DEF Status!Update, StatusInv, StatusTyped, StatusRows, RowsFit
<1>3. statusRows' = [statusRows EXCEPT ![i] = q]
  BY <1>1, <1>2 DEF StatusRows, Status!Row
<1>4. q \in Status(b)!Row
  BY <1>2 DEF Status!Row
<1>5. /\ q.days = statusRows[i].days /\ q.successful = statusRows[i].successful /\ q.expires = statusRows[i].expires
      /\ q.status = statusRows[i].status /\ q.error = statusRows[i].error
  BY <1>2 DEF Status!Row
<1> HIDE DEF q
<1>6. RowFits(b, q, today)
  BY <1>2, <1>5 DEF RowFits
<1>7. statusRows' \in StatusRows(b) /\ RowsFit(b, statusRows', today)
  BY <1>3, <1>4, <1>6, RowChangeFits
<1>8. Status(b)!Act /\ today' = today /\ suspended' \in BOOLEAN /\ statusIssued' \in 0 .. b.maxId
  BY DEF Status!Update, StatusInv, StatusTyped
<1> QED
  BY <1>7, <1>8, ChangeFits

LEMMA DeleteFits ==
  ASSUME NEW b, Status(b)!StatusPagesAssumption, StatusInv(b), NEW i \in Status(b)!Ids, Status(b)!Delete(i)
  PROVE  StatusInv(b)'
<1>1. RowFits(b, Status(b)!Absent, today)
  BY DEF RowFits
<1>2. statusRows' \in StatusRows(b) /\ RowsFit(b, statusRows', today)
  BY <1>1, RowChangeFits DEF Status!Delete
<1>3. Status(b)!Act /\ today' = today /\ suspended' \in BOOLEAN /\ statusIssued' \in 0 .. b.maxId
  BY DEF Status!Delete, StatusInv, StatusTyped
<1> QED
  BY <1>2, <1>3, ChangeFits

LEMMA CheckFits ==
  ASSUME NEW b, Status(b)!StatusPagesAssumption, StatusInv(b), NEW i \in Status(b)!Ids, Status(b)!Check(i)
  PROVE  StatusInv(b)'
<1> DEFINE r == statusRows[i]
           x == b.expiryOf[r.host]
           p == [r EXCEPT !.status = "healthy", !.expires = x, !.days = x - today, !.error = FALSE,
                          !.successful = today, !.looked = r.host]
           q == [r EXCEPT !.status = "error", !.error = TRUE]
<1>1. r \in Status(b)!Row /\ statusRows \in StatusRows(b) /\ RowFits(b, r, today) /\ r # Status(b)!Absent
      /\ today \in Nat
  <2>1. statusRows \in StatusRows(b) /\ today \in Nat /\ RowsFit(b, statusRows, today)
    BY StatusBounds DEF StatusInv, StatusTyped
  <2>2. r # Status(b)!Absent
    BY DEF Status!Check
  <2>3. r \in Status(b)!Row
    BY <2>1, <2>2 DEF StatusRows
  <2> QED
    BY <2>1, <2>2, <2>3 DEF RowsFit
<1>2. x \in Int
  BY <1>1, StatusBounds DEF Status!Row
<1>3. \/ x >= today /\ statusRows' = [statusRows EXCEPT ![i] = p]
      \/ statusRows' = [statusRows EXCEPT ![i] = q]
  BY <1>1 DEF Status!Check, StatusRows, Status!Row
<1>4. x - today \in Int
  BY <1>1, <1>2
<1>5. p \in Status(b)!Row /\ q \in Status(b)!Row
  <2> HIDE DEF x
  <2>1. p \in Status(b)!Row
    <3> DEFINE p1 == [r EXCEPT !.status = "healthy", !.expires = x, !.days = x - today]
    <3>1. p1 \in Status(b)!Row
      BY <1>1, <1>2, <1>4 DEF Status!Row
    <3>2. p = [p1 EXCEPT !.error = FALSE, !.successful = today, !.looked = r.host]
      OBVIOUS
    <3>3. r.host \in b.hosts
      BY <1>1 DEF Status!Row
    <3>4. today \in Int
      BY <1>1
    <3> HIDE DEF p1, p, r
    <3> QED
      BY <3>1, <3>2, <3>3, <3>4 DEF Status!Row
  <2>2. q \in Status(b)!Row
    BY <1>1 DEF Status!Row
  <2> QED
    BY <2>1, <2>2
<1>6. /\ p.days = x - today /\ p.expires = x /\ p.successful = today /\ p.status = "healthy" /\ p.error = FALSE
      /\ q.days = r.days /\ q.expires = r.expires /\ q.successful = r.successful
      /\ q.status = "error" /\ q.error = TRUE
  BY <1>1 DEF Status!Row
<1> HIDE DEF p, q
<1>7. x >= today => RowFits(b, p, today)
  <2>1. x >= today => x # Status(b)!None /\ today # Status(b)!None /\ x - today # Status(b)!None /\ today <= today
    BY <1>1, <1>2 DEF Status!None
  <2> QED
    BY <1>6, <2>1 DEF RowFits
<1>8. RowFits(b, q, today)
  BY <1>1, <1>6 DEF RowFits
<1>9. statusRows' \in StatusRows(b) /\ RowsFit(b, statusRows', today)
  BY <1>3, <1>5, <1>7, <1>8, RowChangeFits
<1>10. Status(b)!Act /\ today' = today /\ suspended' \in BOOLEAN /\ statusIssued' \in 0 .. b.maxId
  BY DEF Status!Check, StatusInv, StatusTyped
<1> QED
  BY <1>9, <1>10, ChangeFits

LEMMA SuspendFits ==
  ASSUME NEW b, Status(b)!StatusPagesAssumption, StatusInv(b), Status(b)!Suspend
  PROVE  StatusInv(b)'
BY ChangeFits DEF Status!Suspend, StatusInv, StatusTyped

LEMMA TomorrowFits ==
  ASSUME NEW b, Status(b)!StatusPagesAssumption, StatusInv(b), Status(b)!Tomorrow
  PROVE  StatusInv(b)'
<1>1. today \in Nat /\ today' = today + 1 /\ today' \in 0 .. b.maxDay
      /\ UNCHANGED <<statusRows, statusIssued, suspended, answer, data, expanded, statusActs>>
  BY StatusBounds DEF Status!Tomorrow, StatusInv, StatusTyped
<1>2. ASSUME NEW r \in StatusRows(b), RowsFit(b, r, today) PROVE RowsFit(b, r, today')
  <2> SUFFICES ASSUME NEW i \in Status(b)!Ids, r[i] # Status(b)!Absent PROVE RowFits(b, r[i], today')
    BY DEF RowsFit, RowFits
  <2>1. r[i].successful \in Int
    BY DEF StatusRows, Status!Row
  <2>2. r[i].successful <= today => r[i].successful <= today'
    BY <1>1, <2>1
  <2> QED
    BY <1>2, <2>2 DEF RowsFit, RowFits
<1>3. Answers(b)' = Answers(b)
  BY <1>1 DEF Answers
<1>4. \A a \in Answers(b) : a.rows \in StatusRows(b)
  BY DEF Answers, StatusInv, StatusTyped, StatusAnswers
<1>5. \A a \in Answers(b) : AnswerFits(b, a, statusRows, statusActs, today')
  BY <1>2, <1>4 DEF StatusInv, AnswerFits
<1>6. StatusTyped(b)'
  BY <1>1 DEF StatusInv, StatusTyped
<1>7. RowsFit(b, statusRows', today')
  BY <1>1, <1>2 DEF StatusInv, StatusTyped
<1> QED
  BY <1>1, <1>3, <1>5, <1>6, <1>7 DEF StatusInv

(* Answers come, go, and are of the moment they are made.                  *)
LEMMA ReadingFits ==
  ASSUME NEW b, Status(b)!StatusPagesAssumption, StatusInv(b), NEW k \in Status(b)!Keys,
         Status(b)!Read(k) \/ Status(b)!Arrive(k) \/ Status(b)!Lose(k)
  PROVE  StatusInv(b)'
<1> DEFINE now == [at |-> statusActs, rows |-> statusRows]
           Made == Answers(b) \cup {Status(b)!NoAnswer, now}
<1>0. /\ UNCHANGED <<statusRows, today, statusIssued, suspended, expanded, statusActs>>
      /\ statusActs \in 0 .. b.maxActs /\ statusActs \in Nat /\ statusRows \in StatusRows(b)
      /\ answer \in [Status(b)!Keys -> StatusAnswers(b)] /\ data \in [Status(b)!Keys -> StatusAnswers(b)]
      /\ RowsFit(b, statusRows, today)
  BY StatusBounds DEF Status!Read, Status!Arrive, Status!Lose, StatusInv, StatusTyped
<1>1. now \in StatusAnswers(b) /\ AnswerFits(b, now, statusRows, statusActs, today)
  <2>1. statusActs # Status(b)!None /\ statusActs <= statusActs
    BY <1>0 DEF Status!None
  <2>2. now.at = statusActs /\ now.rows = statusRows
    OBVIOUS
  <2>3. now \in StatusAnswers(b)
    BY <1>0 DEF StatusAnswers
  <2> HIDE DEF now
  <2> QED
    BY <1>0, <2>1, <2>2, <2>3 DEF AnswerFits
<1>2. \A x \in Made : AnswerFits(b, x, statusRows, statusActs, today)
  BY <1>1, NoAnswerFits DEF StatusInv
<1>3. ASSUME NEW x \in Made, NEW y \in Made, x.at = y.at PROVE x.rows = y.rows
  <2>1. CASE x \in Answers(b) /\ y \in Answers(b)
    BY <1>3, <2>1 DEF StatusInv
  <2>2. ASSUME NEW u \in Made, NEW v \in Made, u.at = v.at, u = now PROVE u.rows = v.rows
    <3>1. v.at = statusActs /\ u.rows = statusRows /\ statusActs # Status(b)!None
      BY <1>0, <2>2 DEF Status!None
    <3> QED
      BY <1>2, <3>1 DEF AnswerFits
  <2>3. ASSUME NEW u \in Made, NEW v \in Made, u.at = v.at, u = Status(b)!NoAnswer PROVE u.rows = v.rows
    BY <1>2, <2>3, NoAnswerFits DEF AnswerFits
  <2> QED
    BY <1>3, <2>1, <2>2, <2>3
<1>4. /\ answer' \in [Status(b)!Keys -> StatusAnswers(b)] /\ data' \in [Status(b)!Keys -> StatusAnswers(b)]
      /\ \A m \in Status(b)!Keys : answer'[m] \in {answer[m], Status(b)!NoAnswer, now}
      /\ \A m \in Status(b)!Keys : data'[m] \in {data[m], answer[m]}
  <2> HIDE DEF now
  <2>1. CASE Status(b)!Read(k)
    BY <1>0, <1>1, <2>1 DEF Status!Read, now
  <2>2. CASE Status(b)!Arrive(k)
    BY <1>0, <2>2, NoAnswerFits DEF Status!Arrive
  <2>3. CASE Status(b)!Lose(k)
    BY <1>0, <2>3, NoAnswerFits DEF Status!Lose
  <2> QED
    BY <2>1, <2>2, <2>3
<1>5. Answers(b)' \subseteq Made
  <2> HIDE DEF now
  <2>1. \A x \in Answers(b)' : (\E m \in Status(b)!Keys : x = answer'[m]) \/ (\E m \in Status(b)!Keys : x = data'[m])
    BY DEF Answers, Status!Keys
  <2>2. \A m \in Status(b)!Keys : answer[m] \in Answers(b) /\ data[m] \in Answers(b)
    BY DEF Answers
  <2> QED
    BY <1>4, <2>1, <2>2
<1> HIDE DEF Made, now
<1>6. StatusTyped(b)'
  BY <1>0, <1>4 DEF StatusInv, StatusTyped
<1> QED
  BY <1>0, <1>2, <1>3, <1>5, <1>6 DEF StatusInv

LEMMA OpeningFits ==
  ASSUME NEW b, Status(b)!StatusPagesAssumption, StatusInv(b), NEW i \in Status(b)!Ids,
         Status(b)!EditButton(i) \/ \E k \in Status(b)!Keys : Status(b)!Toggle(k, i)
  PROVE  StatusInv(b)'
<1>1. UNCHANGED <<statusRows, today, statusIssued, suspended, answer, data, statusActs>>
      /\ expanded' \in {0, i}
  BY DEF Status!EditButton, Status!Toggle
<1>2. expanded' \in 0 .. b.maxId
  BY <1>1, StatusBounds DEF Status!Ids
<1>3. StatusTyped(b)'
  BY <1>1, <1>2 DEF StatusInv, StatusTyped
<1> QED
  BY <1>1, <1>3 DEF StatusInv, Answers

LEMMA StatusSteps ==
  ASSUME NEW b, Status(b)!StatusPagesAssumption, StatusInv(b), Status(b)!Next
  PROVE  StatusInv(b)'
BY CreateFits, UpdateFits, DeleteFits, CheckFits, SuspendFits, TomorrowFits, ReadingFits, OpeningFits
   DEF Status!Next

LEMMA StatusStands ==
  ASSUME NEW b, StatusInv(b), UNCHANGED statusVars
  PROVE  StatusInv(b)'
BY DEF StatusInv, StatusTyped, Answers, statusVars

(* What the tiles count is what the panels show.                           *)
LEMMA BadgeIsStatus ==
  ASSUME NEW b, NEW q \in Status(b)!Row
  PROVE  /\ Status(b)!statusLabel(q.status) = q.status
         /\ Status(b)!Panel(q).badge = q.status
         /\ Status(b)!Panel(q).validTo = q.expires
BY DEF Status!Row, Status!statusLabel, Status!Panel

LEMMA ListedRows ==
  ASSUME NEW b, NEW r \in StatusRows(b)
  PROVE  /\ \A i \in Status(b)!Listed(r) : i \in Status(b)!Ids /\ r[i] \in Status(b)!Row
         /\ Status(b)!Enabled(r) \subseteq Status(b)!Listed(r)
         /\ Status(b)!Listed(r) \subseteq Status(b)!Ids
BY DEF StatusRows, Status!Listed, Status!Enabled

LEMMA DataFits ==
  ASSUME NEW b, StatusInv(b), NEW k \in Status(b)!Keys
  PROVE  /\ data[k].rows \in StatusRows(b)
         /\ RowsFit(b, data[k].rows, today)
         /\ data[k].at \in 0 .. b.maxActs \cup {Status(b)!None}
  BY DEF StatusInv, StatusTyped, StatusAnswers, Answers, AnswerFits

(* The panels under one badge.                                             *)
LEMMA PanelsOfStatus ==
  ASSUME NEW b, StatusInv(b)
  PROVE  /\ Status(b)!PublicPanels = Status(b)!Enabled(data["status"].rows)
         /\ \A s : Status(b)!Badged("status", s)
                     = {i \in Status(b)!Enabled(data["status"].rows) : data["status"].rows[i].status = s}
         /\ \A s : {i \in Status(b)!Badged("domains", s) : Status(b)!RowOf("domains", i).enabled}
                     = {i \in Status(b)!Enabled(data["domains"].rows) : data["domains"].rows[i].status = s}
<1> DEFINE R(k) == data[k].rows
<1>1. "status" \in Status(b)!Keys /\ "domains" \in Status(b)!Keys
  BY DEF Status!Keys
<1>2. R("status") \in StatusRows(b) /\ R("domains") \in StatusRows(b)
  BY <1>1, DataFits
<1>3. Status(b)!PublicPanels = Status(b)!Enabled(R("status"))
  BY <1>2, ListedRows DEF Status!PublicPanels
<1>4. Status(b)!PanelsOf("status") = Status(b)!Enabled(R("status"))
      /\ Status(b)!PanelsOf("domains") = Status(b)!Listed(R("domains"))
  BY <1>3 DEF Status!PanelsOf, Status!ListPanels
<1>5. \A i \in Status(b)!Enabled(R("status")) : Status(b)!Panel(R("status")[i]).badge = R("status")[i].status
  BY <1>2, ListedRows, BadgeIsStatus
<1>6. \A i \in Status(b)!Listed(R("domains")) : Status(b)!Panel(R("domains")[i]).badge = R("domains")[i].status
  BY <1>2, ListedRows, BadgeIsStatus
<1>7. ASSUME NEW s
      PROVE  Status(b)!Badged("status", s) = {i \in Status(b)!Enabled(R("status")) : R("status")[i].status = s}
  BY <1>4, <1>5 DEF Status!Badged, Status!RowOf
<1>8. ASSUME NEW s
      PROVE  {i \in Status(b)!Badged("domains", s) : Status(b)!RowOf("domains", i).enabled}
               = {i \in Status(b)!Enabled(R("domains")) : R("domains")[i].status = s}
  BY <1>4, <1>6 DEF Status!Badged, Status!RowOf, Status!Enabled
<1> QED
  BY <1>3, <1>7, <1>8

LEMMA DisjointCounts ==
  ASSUME NEW S, NEW T, IsFiniteSet(S), IsFiniteSet(T), S \cap T = {}
  PROVE  IsFiniteSet(S \cup T) /\ Cardinality(S \cup T) = Cardinality(S) + Cardinality(T)
<1>1. Cardinality(S \cap T) = 0 /\ Cardinality(S) \in Nat /\ Cardinality(T) \in Nat
  BY FS_EmptySet, FS_CardinalityType
<1>2. IsFiniteSet(S \cup T) /\ Cardinality(S \cup T) = Cardinality(S) + Cardinality(T) - Cardinality(S \cap T)
  BY FS_Union
<1> QED
  BY <1>1, <1>2

(* A number of domains is none only if there are none, and the statuses    *)
(* share out the enabled ones.                                             *)
LEMMA StatusesShareOut ==
  ASSUME NEW b, Status(b)!StatusPagesAssumption, NEW r \in StatusRows(b)
  PROVE  LET of(s) == {i \in Status(b)!Enabled(r) : r[i].status = s} IN
         /\ \A s : Status(b)!With(r, s) \in Nat /\ (Status(b)!With(r, s) > 0 <=> of(s) # {})
         /\ Status(b)!Enabled(r) = of("healthy") \cup of("pending") \cup of("error")
         /\ Status(b)!Cardinality(Status(b)!Enabled(r))
              = Status(b)!With(r, "healthy") + Status(b)!With(r, "pending") + Status(b)!With(r, "error")
<1> DEFINE of(s) == {i \in Status(b)!Enabled(r) : r[i].status = s}
           n(s) == Cardinality(of(s))
<1>1. /\ \A s : Status(b)!With(r, s) = Status(b)!Cardinality(of(s))
  BY DEF Status!With
<1>2. \A s : Status(b)!With(r, s) = n(s)
  BY <1>1, StatusCounts
<1>3. \A s : of(s) \in SUBSET Status(b)!Ids
  BY ListedRows
<1>4. Status(b)!Enabled(r) = of("healthy") \cup of("pending") \cup of("error")
  <2>1. \A i \in Status(b)!Enabled(r) : r[i].status \in {"healthy", "pending", "error"}
    BY ListedRows DEF Status!Row
  <2> QED
    BY <2>1
<1>5. of("healthy") \cap of("pending") = {} /\ (of("healthy") \cup of("pending")) \cap of("error") = {}
  OBVIOUS
<1> HIDE DEF of
<1>6. ASSUME NEW s PROVE IsFiniteSet(of(s)) /\ n(s) \in Nat /\ (n(s) = 0 <=> of(s) = {})
  BY <1>3, StatusCounts, StatusBounds, FS_CardinalityType, FS_EmptySet
<1>7. /\ IsFiniteSet(of("healthy") \cup of("pending"))
      /\ Cardinality(of("healthy") \cup of("pending")) = n("healthy") + n("pending")
  BY <1>5, <1>6, DisjointCounts
<1>8. Cardinality((of("healthy") \cup of("pending")) \cup of("error"))
        = Cardinality(of("healthy") \cup of("pending")) + n("error")
  BY <1>5, <1>6, <1>7, DisjointCounts
<1>9. Cardinality(Status(b)!Enabled(r)) = n("healthy") + n("pending") + n("error")
  BY <1>4, <1>7, <1>8
<1>10. \A s : n(s) \in Nat /\ (n(s) > 0 <=> of(s) # {})
  <2> HIDE DEF n
  <2> QED
    BY <1>6
<1> HIDE DEF n
<1>11. \A s : Status(b)!With(r, s) \in Nat /\ (Status(b)!With(r, s) > 0 <=> of(s) # {})
  BY <1>2, <1>10
<1>12. Status(b)!Cardinality(Status(b)!Enabled(r))
              = Status(b)!With(r, "healthy") + Status(b)!With(r, "pending") + Status(b)!With(r, "error")
  BY <1>2, <1>9, StatusCounts
<1> QED
  BY <1>4, <1>11, <1>12 DEF of

LEMMA TilesTell ==
  ASSUME NEW b, Status(b)!StatusPagesAssumption, StatusInv(b)
  PROVE  Status(b)!TilesTellOfThePanels
<1> DEFINE r == data["status"].rows
           of(s) == {i \in Status(b)!Enabled(r) : r[i].status = s}
           T == Status(b)!PublicTiles
           m == Status(b)!summary(r)
<1>1. r \in StatusRows(b)
  BY DataFits DEF Status!Keys
<1>2. Status(b)!PublicPanels = Status(b)!Enabled(r) /\ \A s : Status(b)!Badged("status", s) = of(s)
  BY PanelsOfStatus
<1>3. /\ T.total = Status(b)!Cardinality(Status(b)!Enabled(r))
      /\ T.healthy = Status(b)!With(r, "healthy")
      /\ T.overall = Status(b)!statusLabel(m.overall_status)
      /\ T.next = m.next_expiry_at
  BY DEF Status!PublicTiles, Status!summary
<1>4. /\ T.total = Status(b)!Cardinality(Status(b)!PublicPanels)
      /\ T.healthy = Status(b)!Cardinality(Status(b)!Badged("status", "healthy"))
  BY <1>2, <1>3 DEF Status!With
<1>5. T.overall = "healthy" <=> Status(b)!Badged("status", "healthy") = Status(b)!PublicPanels
  <2>1. m.overall_status = IF Status(b)!With(r, "error") > 0 THEN "error"
                           ELSE IF Status(b)!With(r, "pending") > 0 THEN "pending" ELSE "healthy"
    BY DEF Status!summary
  <2>2. T.overall = m.overall_status
    BY <1>3, <2>1 DEF Status!statusLabel
  <2>3. m.overall_status = "healthy" <=> ~(Status(b)!With(r, "error") > 0) /\ ~(Status(b)!With(r, "pending") > 0)
    BY <2>1
  <2>4. /\ Status(b)!With(r, "error") > 0 <=> of("error") # {}
        /\ Status(b)!With(r, "pending") > 0 <=> of("pending") # {}
        /\ Status(b)!Enabled(r) = of("healthy") \cup of("pending") \cup of("error")
    BY <1>1, StatusesShareOut
  <2>5. of("healthy") = Status(b)!Enabled(r) <=> of("error") = {} /\ of("pending") = {}
    BY <2>4
  <2> HIDE DEF T, m, of
  <2> QED
    BY <1>2, <2>2, <2>3, <2>4, <2>5
<1>6. LET ends == {Status(b)!Panel(Status(b)!RowOf("status", i)).validTo : i \in Status(b)!PublicPanels}
                    \ {Status(b)!None} IN
      T.next = (IF ends = {} THEN Status(b)!None ELSE Status(b)!Min(ends))
  <2>1. {Status(b)!Panel(Status(b)!RowOf("status", i)).validTo : i \in Status(b)!PublicPanels}
          = {r[i].expires : i \in Status(b)!Enabled(r)}
    <3>1. \A i \in Status(b)!Enabled(r) : Status(b)!Panel(r[i]).validTo = r[i].expires
      BY DEF Status!Panel
    <3> QED
      BY <1>2, <3>1 DEF Status!RowOf
  <2>2. T.next = LET days == {r[i].expires : i \in Status(b)!Enabled(r)} \ {Status(b)!None}
                 IN  IF days = {} THEN Status(b)!None ELSE Status(b)!Min(days)
    BY <1>3 DEF Status!summary
  <2> QED
    BY <2>1, <2>2
<1> QED
  BY <1>4, <1>5, <1>6 DEF Status!TilesTellOfThePanels

LEMMA TilesFit ==
  ASSUME NEW b, Status(b)!StatusPagesAssumption, StatusInv(b)
  PROVE  Status(b)!TilesFitTheList
<1> SUFFICES ASSUME Status(b)!Loaded("status"), data["domains"].at = data["status"].at
             PROVE  LET on(s) == Status(b)!Cardinality({i \in Status(b)!Badged("domains", s) :
                                                          Status(b)!RowOf("domains", i).enabled})
                        T == Status(b)!DashboardTiles IN
                    /\ T.healthy = on("healthy") /\ T.pending = on("pending") /\ T.errors = on("error")
                    /\ T.total = on("healthy") + on("pending") + on("error")
  BY DEF Status!TilesFitTheList
<1> DEFINE r == data["status"].rows
           T == Status(b)!DashboardTiles
           on(s) == {i \in Status(b)!Badged("domains", s) : Status(b)!RowOf("domains", i).enabled}
<1>1. r \in StatusRows(b) /\ data["domains"].rows = r
  <2>1. "status" \in Status(b)!Keys /\ "domains" \in Status(b)!Keys
    BY DEF Status!Keys
  <2> QED
    BY <2>1, DataFits DEF StatusInv, Answers
<1>2. \A s : on(s) = {i \in Status(b)!Enabled(r) : r[i].status = s}
  BY <1>1, PanelsOfStatus
<1>3. \A s : Status(b)!Cardinality(on(s)) = Status(b)!With(r, s)
  BY <1>2 DEF Status!With
<1>4. /\ T.healthy = Status(b)!With(r, "healthy") /\ T.pending = Status(b)!With(r, "pending")
      /\ T.errors = Status(b)!With(r, "error") /\ T.total = Status(b)!Cardinality(Status(b)!Enabled(r))
  BY DEF Status!DashboardTiles, Status!summary
<1>5. T.total = Status(b)!With(r, "healthy") + Status(b)!With(r, "pending") + Status(b)!With(r, "error")
  BY <1>1, <1>4, StatusesShareOut
<1> QED
  BY <1>3, <1>4, <1>5

LEMMA PanelOfOnePiece ==
  ASSUME NEW b, Status(b)!StatusPagesAssumption, StatusInv(b)
  PROVE  Status(b)!PanelIsOfOnePiece
<1> SUFFICES ASSUME NEW k \in Status(b)!Keys, NEW i \in Status(b)!PanelsOf(k)
             PROVE  LET p == Status(b)!Panel(Status(b)!RowOf(k, i)) IN
                    /\ (p.daysLeft = Status(b)!None) = (p.lastSuccessful = Status(b)!None)
                    /\ (p.validTo = Status(b)!None) = (p.lastSuccessful = Status(b)!None)
                    /\ p.daysLeft # Status(b)!None => p.daysLeft = p.validTo - p.lastSuccessful
                                                      /\ p.daysLeft >= p.validTo - today
                    /\ p.badge = "healthy" => p.daysLeft # Status(b)!None
                    /\ expanded = i => Status(b)!Details(Status(b)!RowOf(k, i), TRUE).error = (p.badge = "error")
  BY DEF Status!PanelIsOfOnePiece
<1> DEFINE q == data[k].rows[i]
           p == Status(b)!Panel(q)
<1>1. Status(b)!RowOf(k, i) = q
  BY DEF Status!RowOf
<1>2. i \in Status(b)!Listed(data[k].rows)
  BY DataFits, ListedRows DEF Status!PanelsOf, Status!PublicPanels, Status!ListPanels, Status!Keys
<1>3. q \in Status(b)!Row /\ RowFits(b, q, today) /\ q # Status(b)!Absent
  BY <1>2, DataFits, ListedRows DEF RowsFit, Status!Listed
<1>4. /\ p.daysLeft = q.days /\ p.lastSuccessful = q.successful /\ p.validTo = q.expires /\ p.badge = q.status
      /\ Status(b)!Details(q, TRUE).error = q.error
  BY <1>3, BadgeIsStatus DEF Status!Panel, Status!Details
<1>5. q.expires \in Int /\ q.successful \in Int /\ q.days \in Int /\ today \in Int
  <2>1. today \in Int
    BY StatusBounds DEF StatusInv, StatusTyped
  <2> QED
    BY <1>3, <2>1 DEF Status!Row
<1>6. /\ (q.days = Status(b)!None) = (q.successful = Status(b)!None)
      /\ (q.expires = Status(b)!None) = (q.successful = Status(b)!None)
      /\ q.successful # Status(b)!None => q.days = q.expires - q.successful /\ q.successful <= today
      /\ q.status = "healthy" => q.successful # Status(b)!None
      /\ q.error = (q.status = "error")
  BY <1>3 DEF RowFits
<1> HIDE DEF q, p
<1>7. q.days = q.expires - q.successful /\ q.successful <= today => q.days >= q.expires - today
  BY <1>5
<1> QED
  BY <1>1, <1>4, <1>6, <1>7 DEF p

LEMMA SameMultiple ==
  ASSUME NEW s \in Nat, NEW t \in Nat, NEW d \in Nat \ {0}, s % d = 0, t % d = 0, s \div d = t \div d
  PROVE  s = t
BY SMTT(60)

LEMMA LabelTells ==
  ASSUME NEW b, Status(b)!StatusPagesAssumption, NEW s \in Nat, NEW t \in Nat,
         Status(b)!intervalLabel(s) = Status(b)!intervalLabel(t)
  PROVE  s = t
<1>1. b.day \in Nat \ {0}
  BY StatusBounds
<1>2. Status(b)!intervalLabel(s).unit = Status(b)!intervalLabel(t).unit
      /\ Status(b)!intervalLabel(s).number = Status(b)!intervalLabel(t).number
  OBVIOUS
<1>3. CASE s % b.day = 0 /\ t % b.day = 0
  <2>1. s \div b.day = t \div b.day
    BY <1>2, <1>3 DEF Status!intervalLabel
  <2> QED
    BY <1>1, <1>3, <2>1, SameMultiple
<1>4. CASE s % b.day # 0 /\ t % b.day # 0
  BY <1>2, <1>4 DEF Status!intervalLabel
<1>5. CASE (s % b.day = 0) # (t % b.day = 0)
  BY <1>2, <1>5 DEF Status!intervalLabel
<1> QED
  BY <1>3, <1>4, <1>5

LEMMA StatusTells ==
  ASSUME NEW b, Status(b)!StatusPagesAssumption, StatusInv(b)
  PROVE  /\ Status(b)!TypeOK
         /\ Status(b)!TilesTellOfThePanels
         /\ Status(b)!TilesFitTheList
         /\ Status(b)!PanelIsOfOnePiece
         /\ Status(b)!LabelTellsTheInterval
<1>1. Status(b)!TypeOK
  <2>1. ASSUME NEW a \in StatusAnswers(b) PROVE a.at \in 0 .. b.maxActs \cup {Status(b)!None} /\ Status(b)!RowsOK(a.rows)
    BY DEF StatusAnswers, StatusRows, Status!RowsOK
  <2>2. Status(b)!AnswerOK(answer) /\ Status(b)!AnswerOK(data)
    BY <2>1 DEF Status!AnswerOK, StatusInv, StatusTyped
  <2>3. statusIssued \in Status(b)!Ids \cup {0}
    <3>1. statusIssued \in 0 .. b.maxId
      BY DEF StatusInv, StatusTyped
    <3>2. statusIssued \in 1 .. b.maxId \cup {0}
      BY <3>1, StatusBounds
    <3> QED
      BY <3>2 DEF Status!Ids
  <2>4. Status(b)!RowsOK(statusRows)
    BY DEF StatusInv, StatusTyped, StatusRows, Status!RowsOK
  <2> QED
    BY <2>2, <2>3, <2>4 DEF StatusInv, StatusTyped, Status!TypeOK
<1>2. Status(b)!LabelTellsTheInterval
  <2> SUFFICES ASSUME NEW k \in Status(b)!Keys, NEW i \in Status(b)!PanelsOf(k), NEW j \in Status(b)!PanelsOf(k),
                      Status(b)!Panel(Status(b)!RowOf(k, i)).interval = Status(b)!Panel(Status(b)!RowOf(k, j)).interval
               PROVE  Status(b)!RowOf(k, i).interval = Status(b)!RowOf(k, j).interval
    BY DEF Status!LabelTellsTheInterval
  <2>1. \A n \in Status(b)!PanelsOf(k) : Status(b)!RowOf(k, n) \in Status(b)!Row
    BY DataFits, ListedRows DEF Status!PanelsOf, Status!PublicPanels, Status!ListPanels, Status!Keys, Status!RowOf
  <2>2. \A q \in Status(b)!Row : q.interval \in Nat
    BY StatusBounds DEF Status!Row
  <2>3. \A q : Status(b)!Panel(q).interval = Status(b)!intervalLabel(q.interval)
    BY DEF Status!Panel
  <2> QED
    BY <2>1, <2>2, <2>3, LabelTells
<1> QED
  BY <1>1, <1>2, TilesTell, TilesFit, PanelOfOnePiece

-----------------------------------------------------------------------------
(* The pages of a list.                                                    *)

LEMMA DivMonotonic ==
  ASSUME NEW a \in Nat, NEW c \in Nat, NEW d \in Nat \ {0}, a <= c
  PROVE  a \div d <= c \div d /\ a \div d \in Nat /\ c \div d \in Nat
BY SMTT(60)

LEMMA DivPositive ==
  ASSUME NEW a \in Nat, NEW d \in Nat \ {0}, a >= d
  PROVE  a \div d \in Nat /\ a \div d >= 1
BY SMTT(60)

LEMMA FirstsOf ==
  ASSUME NEW T, NEW s \in Seq(T), NEW n \in Nat, n <= Len(s)
  PROVE  SubSeq(s, 1, n) \in Seq(T) /\ Len(SubSeq(s, 1, n)) = n
BY SubSeqProperties

LEMMA PagesGrow ==
  ASSUME NEW t \in Nat, NEW u \in Nat, t <= u, NEW s \in Nat \ {0}
  PROVE  PagesOf(t, s) \in Nat \ {0} /\ PagesOf(t, s) <= PagesOf(u, s) /\ PagesOf(0, s) = 1
<1>1. ASSUME NEW n \in Nat \ {0}
      PROVE  /\ n + s - 1 \in Nat /\ n + s - 1 >= s
             /\ (n + s - 1) \div s \in Nat /\ (n + s - 1) \div s >= 1
             /\ PagesOf(n, s) = (n + s - 1) \div s
  <2>1. n + s - 1 \in Nat /\ n + s - 1 >= s
    OBVIOUS
  <2>2. (n + s - 1) \div s \in Nat /\ (n + s - 1) \div s >= 1
    BY <2>1, DivPositive
  <2>3. PagesOf(n, s) = (n + s - 1) \div s
    BY DEF PagesOf
  <2> QED
    BY <2>1, <2>2, <2>3
<1>2. PagesOf(0, s) = 1
  BY DEF PagesOf
<1>3. CASE t = 0
  <2>1. CASE u = 0
    BY <1>2, <1>3, <2>1
  <2>2. CASE u # 0
    <3>1. PagesOf(u, s) \in Nat /\ PagesOf(u, s) >= 1
      BY <1>1, <2>2
    <3> QED
      BY <1>2, <1>3, <3>1
  <2> QED
    BY <2>1, <2>2
<1>4. CASE t # 0
  <2>1. t + s - 1 \in Nat /\ u + s - 1 \in Nat /\ t + s - 1 <= u + s - 1 /\ u # 0
    BY <1>4
  <2>2. (t + s - 1) \div s <= (u + s - 1) \div s
    BY <2>1, DivMonotonic
  <2>3. /\ PagesOf(t, s) = (t + s - 1) \div s /\ PagesOf(u, s) = (u + s - 1) \div s
        /\ PagesOf(t, s) \in Nat /\ PagesOf(t, s) >= 1
    BY <1>1, <1>4, <2>1
  <2> QED
    BY <1>2, <2>2, <2>3
<1> QED
  BY <1>3, <1>4

-----------------------------------------------------------------------------
(* The list of tenants.  A key that nothing has changed since its tenants  *)
(* were counted has the count, and the answer that came of it; and the     *)
(* page that is set is not beyond the last one of its own answer.          *)
ListAll(b) == Cardinality(b.tenants)
ListFetches(b) == [at : {"idle", "asked", "counted"}, total : 0 .. ListAll(b)]

ListAnswerFits(b, r) ==
  /\ r.total \in 0 .. ListAll(b)
  /\ r.rows \in Seq(b.tenants) /\ Len(r.rows) <= b.pageSize
  /\ ~r.loaded => r = List(b)!NoAnswer

ListAnswersOK(b, c) ==
  /\ c = [k \in List(b)!Keys |-> c[k]]
  /\ \A k \in List(b)!Keys : ListAnswerFits(b, c[k])

ListIsOf(b, q, r) ==
  /\ r.total = Cardinality(List(b)!Matching(q.filter))
  /\ r.rows = SubSeq(List(b)!Ordered(q), 1, Least(b.pageSize, r.total))

ListServerOK(b) == listExists \subseteq b.tenants /\ listOff \subseteq b.tenants

ListViewOK(b) ==
  /\ query \in List(b)!Queries
  /\ page \in List(b)!Pages
  /\ ListAnswersOK(b, cache)
  /\ page <= List(b)!totalPages(cache, List(b)!Key(query, page))

ListFetchesOK(b) == listFetch \in [List(b)!Keys -> ListFetches(b)] /\ fresh \subseteq List(b)!Keys

ListCountsOK(b) == moves \in 0 .. b.maxMoves /\ changes \in 0 .. b.maxChanges /\ listFails \in 0 .. b.maxFails

ListCurrent(b, k) ==
  /\ listFetch[k].at = "counted" => listFetch[k].total = Cardinality(List(b)!Matching(k[1].filter))
  /\ listFetch[k] = List(b)!Idle /\ cache[k].loaded => ListIsOf(b, k[1], cache[k])

ListInv(b) ==
  /\ ListServerOK(b)
  /\ ListViewOK(b)
  /\ ListFetchesOK(b)
  /\ ListCountsOK(b)
  /\ \A k \in fresh : ListCurrent(b, k)

(* The operators are those of the modules the list is made of.             *)
LEMMA ListOperators ==
  ASSUME NEW b
  PROVE  /\ \A S : List(b)!Cardinality(S) = Cardinality(S)
         /\ \A S : List(b)!IsFiniteSet(S) <=> IsFiniteSet(S)
         /\ \A x, y : List(b)!Least(x, y) = Least(x, y)
         /\ \A x, y : List(b)!Largest(x, y) = Largest(x, y)
         /\ \A t, s : List(b)!PagesOf(t, s) = PagesOf(t, s)
<1>1. \A S : List(b)!Cardinality(S) = Cardinality(S)
  BY Zenon DEF Cardinality, List!Cardinality
<1>2. \A S : List(b)!IsFiniteSet(S) <=> IsFiniteSet(S)
  BY Zenon DEF IsFiniteSet, List!IsFiniteSet
<1>3. \A x, y : List(b)!Least(x, y) = Least(x, y)
  BY Zenon DEF Least, List!Least
<1>4. \A x, y : List(b)!Largest(x, y) = Largest(x, y)
  BY Zenon DEF Largest, List!Largest
<1>5. \A t, s : List(b)!PagesOf(t, s) = PagesOf(t, s)
  BY Zenon DEF PagesOf, List!PagesOf
<1> QED
  BY <1>1, <1>2, <1>3, <1>4, <1>5

LEMMA ListBounds ==
  ASSUME NEW b, List(b)!TenantListAssumption
  PROVE  /\ b.tenants \subseteq Nat /\ IsFiniteSet(b.tenants) /\ b.disabled \subseteq b.tenants
         /\ b.filters \subseteq {"all", "active", "disabled"} /\ "all" \in b.filters
         /\ b.sortKeys \subseteq {"name", "status", "expiry"} /\ "expiry" \in b.sortKeys
         /\ b.pageSize \in Nat \ {0} /\ b.maxMoves \in Nat /\ b.maxChanges \in Nat /\ b.maxFails \in Nat
         /\ ListAll(b) \in Nat
<1>1. /\ b.tenants \subseteq Nat /\ IsFiniteSet(b.tenants) /\ b.disabled \subseteq b.tenants
      /\ b.filters \subseteq {"all", "active", "disabled"} /\ "all" \in b.filters
      /\ b.sortKeys \subseteq {"name", "status", "expiry"} /\ "expiry" \in b.sortKeys
      /\ b.pageSize \in Nat \ {0} /\ b.maxMoves \in Nat /\ b.maxChanges \in Nat /\ b.maxFails \in Nat
  BY ListOperators DEF List!TenantListAssumption, List!StatusFilters, List!Headers
<1>2. ListAll(b) \in Nat
  BY <1>1, FS_CardinalityType DEF ListAll
<1> QED
  BY <1>1, <1>2

LEMMA ListPages ==
  ASSUME NEW b, List(b)!TenantListAssumption
  PROVE  /\ PagesOf(ListAll(b), b.pageSize) \in Nat \ {0}
         /\ List(b)!Pages = 1 .. PagesOf(ListAll(b), b.pageSize)
         /\ \A t \in 0 .. ListAll(b) : PagesOf(t, b.pageSize) \in List(b)!Pages
         /\ PagesOf(0, b.pageSize) = 1
<1>1. List(b)!Pages = 1 .. PagesOf(ListAll(b), b.pageSize)
  BY ListOperators DEF List!Pages, ListAll
<1>2. PagesOf(ListAll(b), b.pageSize) \in Nat \ {0}
  BY ListBounds, PagesGrow
<1>3. ASSUME NEW t \in 0 .. ListAll(b) PROVE PagesOf(t, b.pageSize) \in List(b)!Pages
  <2>1. t \in Nat /\ t <= ListAll(b) /\ ListAll(b) \in Nat /\ b.pageSize \in Nat \ {0}
    BY <1>3, ListBounds
  <2>2. PagesOf(t, b.pageSize) \in Nat \ {0} /\ PagesOf(t, b.pageSize) <= PagesOf(ListAll(b), b.pageSize)
    BY <2>1, PagesGrow
  <2> QED
    BY <1>1, <1>2, <2>2
<1>4. PagesOf(0, b.pageSize) = 1
  BY ListBounds, PagesGrow
<1> QED
  BY <1>1, <1>2, <1>3, <1>4

LEMMA ListTotals ==
  ASSUME NEW b, List(b)!TenantListAssumption, NEW c, ListAnswersOK(b, c), NEW k \in List(b)!Keys
  PROVE  /\ List(b)!totalPages(c, k) = PagesOf(c[k].total, b.pageSize)
         /\ List(b)!totalPages(c, k) \in List(b)!Pages
         /\ ~c[k].loaded => List(b)!totalPages(c, k) = 1
<1>1. ListAnswerFits(b, c[k])
  BY DEF ListAnswersOK
<1>2. c[k].total \in 0 .. ListAll(b) /\ (~c[k].loaded => c[k].total = 0)
  BY <1>1 DEF ListAnswerFits, List!NoAnswer
<1>3. PagesOf(c[k].total, b.pageSize) \in List(b)!Pages /\ PagesOf(0, b.pageSize) = 1
  BY <1>2, ListPages
<1>4. List(b)!totalPages(c, k) = Largest(1, PagesOf(c[k].total, b.pageSize))
  BY ListOperators DEF List!totalPages
<1>5. PagesOf(c[k].total, b.pageSize) \in Int /\ PagesOf(c[k].total, b.pageSize) >= 1
  BY <1>3, ListPages
<1>6. List(b)!totalPages(c, k) = PagesOf(c[k].total, b.pageSize)
  BY <1>4, <1>5 DEF Largest
<1> QED
  BY <1>2, <1>3, <1>6

(* The effect comes to rest on a page that is not beyond the last one.     *)
LEMMA ListVisits ==
  ASSUME NEW b, List(b)!TenantListAssumption, NEW c, ListAnswersOK(b, c),
         NEW q \in List(b)!Queries, NEW p \in List(b)!Pages
  PROVE  LET l == List(b)!Lowest(List(b)!Visits(c, q, p))
         IN  l \in List(b)!Pages /\ l <= List(b)!totalPages(c, List(b)!Key(q, l))
<1> DEFINE T(n) == List(b)!Least(n, List(b)!totalPages(c, List(b)!Key(q, n)))
           V == List(b)!Visits(c, q, p)
           closed == {S \in SUBSET (1 .. p) : p \in S /\ \A n \in S : T(n) \in S}
<1>1. V = {n \in 1 .. p : \A S \in closed : n \in S}
  BY DEF List!Visits
<1>2. p \in Nat /\ 1 <= p /\ \A n \in 1 .. p : n \in List(b)!Pages
  BY ListPages
<1>3. ASSUME NEW n \in 1 .. p
      PROVE  /\ List(b)!totalPages(c, List(b)!Key(q, n)) \in Nat
             /\ T(n) \in 1 .. n /\ T(n) \in 1 .. p /\ T(n) <= List(b)!totalPages(c, List(b)!Key(q, n))
  <2>1. List(b)!Key(q, n) \in List(b)!Keys
    BY <1>2, <1>3 DEF List!Key, List!Keys
  <2>2. List(b)!totalPages(c, List(b)!Key(q, n)) \in Nat \ {0}
    BY <2>1, ListTotals, ListPages
  <2> QED
    BY <1>2, <1>3, <2>2 DEF List!Least
<1>4. p \in V
  BY <1>1, <1>2
<1>5. ASSUME NEW n \in V PROVE T(n) \in V
  <2>1. n \in 1 .. p /\ \A S \in closed : n \in S
    BY <1>1, <1>5
  <2>2. T(n) \in 1 .. p
    BY <1>3, <2>1
  <2>3. ASSUME NEW S \in closed PROVE T(n) \in S
    BY <2>1, <2>3
  <2> HIDE DEF T, closed, V
  <2> QED
    BY <1>1, <2>2, <2>3
<1>6. V \in SUBSET Nat /\ V # {} /\ \A n \in V : n \in 1 .. p
  BY <1>1, <1>2, <1>4
<1> DEFINE l == List(b)!Lowest(V)
<1>7. l \in V /\ \A m \in V : l <= m
  <2>1. \E k \in V : \A m \in V : k <= m
    <3> HIDE DEF V
    <3> QED
      BY <1>6, LeastNumber
  <2>2. l = CHOOSE n \in V : \A m \in V : n <= m
    BY Zenon DEF List!Lowest
  <2> HIDE DEF V, l
  <2> QED
    BY <2>1, <2>2
<1>8. l \in 1 .. p /\ l <= T(l)
  BY <1>5, <1>6, <1>7
<1>9. T(l) <= List(b)!totalPages(c, List(b)!Key(q, l)) /\ T(l) \in Nat /\ List(b)!totalPages(c, List(b)!Key(q, l)) \in Nat
  <2>1. T(l) \in 1 .. l
    BY <1>3, <1>8
  <2> QED
    BY <1>3, <1>8, <2>1
<1> HIDE DEF T, V, closed
<1>10. l <= List(b)!totalPages(c, List(b)!Key(q, l)) /\ l \in List(b)!Pages
  <2> HIDE DEF l
  <2> QED
    BY <1>2, <1>8, <1>9
<1> QED
  BY <1>10 DEF V

LEMMA ListShows ==
  ASSUME NEW b, List(b)!TenantListAssumption, NEW c, ListAnswersOK(b, c),
         NEW f \in [List(b)!Keys -> ListFetches(b)],
         NEW q \in List(b)!Queries, NEW p \in List(b)!Pages, List(b)!Show(c, f, q, p)
  PROVE  /\ ListViewOK(b)' /\ cache' = c
         /\ listFetch' \in [List(b)!Keys -> ListFetches(b)]
         /\ \A k \in List(b)!Keys : \/ listFetch'[k] = f[k]
                                    \/ f[k] = List(b)!Idle /\ listFetch'[k] = List(b)!Asked
<1>1. PICK come : /\ query' = q /\ page' = List(b)!Lowest(List(b)!Visits(c, q, p)) /\ cache' = c
                  /\ listFetch' = [k \in List(b)!Keys |->
                       IF k \in come /\ f[k] = List(b)!Idle THEN List(b)!Asked ELSE f[k]]
  BY DEF List!Show
<1>2. page' \in List(b)!Pages /\ page' <= List(b)!totalPages(c, List(b)!Key(q, page'))
  BY <1>1, ListVisits
<1>3. /\ ListAnswersOK(b, cache') /\ query' \in List(b)!Queries
      /\ page' <= List(b)!totalPages(cache', List(b)!Key(query', page'))
  BY <1>1, <1>2
<1>4. ListViewOK(b)'
  BY <1>2, <1>3, Zenon DEF ListViewOK
<1>5. List(b)!Asked \in ListFetches(b)
  BY ListBounds DEF List!Asked, ListFetches
<1> QED
  BY <1>1, <1>4, <1>5

-----------------------------------------------------------------------------
(* What the server serves.                                                 *)

LEMMA ListMatches ==
  ASSUME NEW b, List(b)!TenantListAssumption, ListServerOK(b), NEW f \in b.filters
  PROVE  /\ List(b)!Matching(f) \in SUBSET b.tenants /\ IsFiniteSet(List(b)!Matching(f))
         /\ Cardinality(List(b)!Matching(f)) \in 0 .. ListAll(b)
<1>1. f \in {"all", "active", "disabled"} /\ IsFiniteSet(b.tenants) /\ ListAll(b) \in Nat
  BY ListBounds
<1>2. List(b)!Matching(f) \in SUBSET b.tenants
  BY <1>1 DEF List!Matching, ListServerOK
<1> DEFINE S == List(b)!Matching(f)
<1> HIDE DEF S
<1>3. IsFiniteSet(S) /\ Cardinality(S) <= Cardinality(b.tenants)
  BY <1>1, <1>2, FS_Subset DEF S
<1>4. Cardinality(S) \in Nat
  BY <1>3, FS_CardinalityType
<1>5. Cardinality(S) \in 0 .. ListAll(b)
  BY <1>1, <1>3, <1>4 DEF ListAll
<1> QED
  BY <1>2, <1>3, <1>5 DEF S

LEMMA ListOrder ==
  ASSUME NEW b, List(b)!TenantListAssumption, NEW q \in List(b)!Queries, NEW S \in SUBSET Nat
  PROVE  StrictOrder(S, {x \in S \X S : List(b)!Before(q, x[1], x[2])})
<1> DEFINE R == {x \in S \X S : List(b)!Before(q, x[1], x[2])}
<1>1. q.sort \in {"name", "status", "expiry"}
  BY ListBounds DEF List!Queries
<1>2. \A x, y \in S : <<x, y>> \in R <=> List(b)!Before(q, x, y)
  OBVIOUS
<1>3. ASSUME NEW x \in S, NEW y \in S, NEW z \in S
      PROVE  /\ ~List(b)!Before(q, x, x)
             /\ x # y => List(b)!Before(q, x, y) \/ List(b)!Before(q, y, x)
             /\ List(b)!Before(q, x, y) /\ List(b)!Before(q, y, z) => List(b)!Before(q, x, z)
  <2>1. x \in Nat /\ y \in Nat /\ z \in Nat
    BY <1>3
  <2>2. CASE q.sort = "expiry"
    BY <2>1, <2>2 DEF List!Before
  <2>3. CASE q.sort = "name"
    BY <2>1, <2>3 DEF List!Before
  <2>4. CASE q.sort = "status"
    <3>0. ASSUME NEW u, NEW v
          PROVE  List(b)!Before(q, u, v) = \/ (u \in listOff) = (v \in listOff) /\ u < v
                                           \/ (u \in listOff) # (v \in listOff) /\ ((v \in listOff) <=> q.dir = "asc")
      <4>1. q.sort # "expiry" /\ q.sort # "name"
        BY <2>4
      <4> QED
        BY <4>1, <2>4 DEF List!Before
    <3>1. ASSUME NEW u, NEW v
          PROVE  List(b)!Before(q, u, v) <=>
                      \/ (u \in listOff <=> v \in listOff) /\ u < v
                      \/ u \in listOff /\ v \notin listOff /\ q.dir # "asc"
                      \/ u \notin listOff /\ v \in listOff /\ q.dir = "asc"
      <4>1. /\ ((u \in listOff) = (v \in listOff)) <=> (u \in listOff <=> v \in listOff)
            /\ ((u \in listOff) # (v \in listOff)) <=> ~(u \in listOff <=> v \in listOff)
        OBVIOUS
      <4>2. List(b)!Before(q, u, v) <=> \/ (u \in listOff <=> v \in listOff) /\ u < v
                                        \/ ~(u \in listOff <=> v \in listOff) /\ ((v \in listOff) <=> q.dir = "asc")
        BY <3>0, <4>1
      <4> QED
        BY <4>2
    <3> QED
      BY <2>1, <3>1
  <2> QED
    BY <1>1, <2>2, <2>3, <2>4
<1> HIDE DEF R
<1>4. StrictOrder(S, R)
  BY <1>2, <1>3 DEF StrictOrder
<1> QED
  BY <1>4 DEF R

LEMMA ListOrders ==
  ASSUME NEW b, List(b)!TenantListAssumption, ListServerOK(b), NEW q \in List(b)!Queries
  PROVE  /\ List(b)!Ordered(q) \in Seq(b.tenants)
         /\ Len(List(b)!Ordered(q)) = Cardinality(List(b)!Matching(q.filter))
<1> DEFINE S == List(b)!Matching(q.filter)
           R == {x \in S \X S : List(b)!Before(q, x[1], x[2])}
           n == List(b)!Cardinality(S)
           at(i) == CHOOSE t \in S : List(b)!Cardinality({s \in S : List(b)!Before(q, s, t)}) = i - 1
<1>1. q.filter \in b.filters
  BY DEF List!Queries
<1>2. S \in SUBSET b.tenants /\ IsFiniteSet(S) /\ n = Cardinality(S) /\ n \in Nat /\ S \in SUBSET Nat
  BY <1>1, ListMatches, ListBounds, ListOperators
<1>3. List(b)!Ordered(q) = [i \in 1 .. n |-> at(i)]
  BY DEF List!Ordered
<1>4. StrictOrder(S, R)
  BY <1>2, ListOrder
<1>5. ASSUME NEW i \in 1 .. n PROVE at(i) \in S
  <2>1. HasRank(S, R, i)
    <3> HIDE DEF S, R
    <3> QED
      BY <1>2, <1>4, <1>5, RankedOnce
  <2>2. PICK t \in S : Cardinality({u \in S : <<u, t>> \in R}) = i - 1
    BY <2>1 DEF HasRank, Rank
  <2>3. {u \in S : <<u, t>> \in R} = {s \in S : List(b)!Before(q, s, t)}
    BY <2>2
  <2>4. List(b)!Cardinality({s \in S : List(b)!Before(q, s, t)}) = i - 1
    BY <2>2, <2>3, ListOperators
  <2> HIDE DEF S
  <2> QED
    BY <2>4
<1> HIDE DEF at, S, n
<1>6. List(b)!Ordered(q) \in [1 .. n -> b.tenants]
  BY <1>2, <1>3, <1>5
<1>7. List(b)!Ordered(q) \in Seq(b.tenants)
  BY <1>2, <1>6, SeqDef
<1>8. Len(List(b)!Ordered(q)) = n
  BY <1>2, <1>6, <1>7, LenProperties
<1> QED
  BY <1>2, <1>7, <1>8 DEF S

LEMMA ListServes ==
  ASSUME NEW b, List(b)!TenantListAssumption, ListServerOK(b), NEW q \in List(b)!Queries,
         NEW t \in 0 .. ListAll(b), NEW p \in List(b)!Pages
  PROVE  LET r == List(b)!ServeRows(q, List(b)!PagesOf(t, b.pageSize), p)
         IN  /\ r \in Seq(b.tenants) /\ Len(r) <= b.pageSize
             /\ r = SubSeq(List(b)!Ordered(q), 1, Least(b.pageSize, Cardinality(List(b)!Matching(q.filter))))
<1> DEFINE r == List(b)!ServeRows(q, List(b)!PagesOf(t, b.pageSize), p)
           O == List(b)!Ordered(q)
           m == Least(b.pageSize, Len(O))
<1>1. List(b)!PagesOf(t, b.pageSize) \in Nat \ {0} /\ p \in Nat \ {0}
  BY ListPages, ListOperators
<1>2. List(b)!ServedPage(p, List(b)!PagesOf(t, b.pageSize)) = 1
  BY <1>1 DEF List!ServedPage, List!parsePositiveIntQuery, List!Least
<1>3. b.pageSize \in Nat \ {0} /\ (1 - 1) * b.pageSize + 1 = 1 /\ 1 * b.pageSize = b.pageSize
  BY ListBounds
<1>4. r = SubSeq(O, 1, m)
  <2>1. r = SubSeq(O, (1 - 1) * b.pageSize + 1, List(b)!Least(1 * b.pageSize, Len(O)))
    BY <1>2, Zenon DEF List!ServeRows
  <2>2. List(b)!Least(1 * b.pageSize, Len(O)) = m
    BY <1>3, ListOperators
  <2> QED
    BY <1>3, <2>1, <2>2
<1>5. O \in Seq(b.tenants) /\ Len(O) = Cardinality(List(b)!Matching(q.filter)) /\ Len(O) \in Nat
  <2>1. O \in Seq(b.tenants) /\ Len(O) = Cardinality(List(b)!Matching(q.filter))
    BY ListOrders
  <2> QED
    BY <2>1
<1> HIDE DEF O, r
<1>6. m \in Nat /\ m <= b.pageSize /\ m <= Len(O)
  BY <1>3, <1>5 DEF Least
<1> HIDE DEF m
<1>8. SubSeq(O, 1, m) \in Seq(b.tenants) /\ Len(SubSeq(O, 1, m)) = m
  BY <1>5, <1>6, FirstsOf
<1>9. r \in Seq(b.tenants) /\ Len(r) <= b.pageSize
  BY <1>3, <1>4, <1>6, <1>8
<1> QED
  BY <1>4, <1>5, <1>9 DEF r, m, O

LEMMA ListStarts ==
  ASSUME NEW b, List(b)!TenantListAssumption, List(b)!Init
  PROVE  ListInv(b)
<1>1. ListServerOK(b)
  BY ListBounds DEF List!Init, ListServerOK
<1>2. List(b)!NoAnswer.total = 0 /\ List(b)!NoAnswer.rows = << >>
  BY DEF List!NoAnswer
<1>3. ListAnswerFits(b, List(b)!NoAnswer)
  <2>1. << >> \in Seq(b.tenants) /\ Len(<< >>) = 0
    BY EmptySeq
  <2> QED
    BY <1>2, <2>1, ListBounds DEF ListAnswerFits
<1>4. ListAnswersOK(b, cache)
  BY <1>3 DEF List!Init, ListAnswersOK
<1>5. query \in List(b)!Queries
  BY ListBounds DEF List!Init, List!Queries
<1>6. page = 1 /\ page \in List(b)!Pages
  BY ListPages DEF List!Init
<1>7. List(b)!Key(query, page) \in List(b)!Keys
  BY <1>5, <1>6 DEF List!Key, List!Keys
<1>8. List(b)!totalPages(cache, List(b)!Key(query, page)) \in List(b)!Pages
  BY <1>4, <1>7, ListTotals
<1>9. page <= List(b)!totalPages(cache, List(b)!Key(query, page))
  BY <1>6, <1>8, ListPages
<1>10. ListFetchesOK(b)
  <2>1. List(b)!Asked \in ListFetches(b) /\ List(b)!Idle \in ListFetches(b)
    BY ListBounds DEF List!Asked, List!Idle, ListFetches
  <2> QED
    BY <2>1 DEF List!Init, ListFetchesOK
<1>11. ListCountsOK(b) /\ fresh = {}
  BY ListBounds DEF List!Init, ListCountsOK
<1> QED
  BY <1>1, <1>4, <1>5, <1>6, <1>9, <1>10, <1>11 DEF ListInv, ListViewOK

(* What is told of the server's tenants stays as long as they do.          *)
LEMMA ListKeeps ==
  ASSUME NEW b, UNCHANGED <<listExists, listOff>>
  PROVE  /\ \A f : List(b)!Matching(f)' = List(b)!Matching(f)
         /\ \A q : List(b)!Ordered(q)' = List(b)!Ordered(q)
         /\ \A q, r : ListIsOf(b, q, r)' <=> ListIsOf(b, q, r)
<1>1. \A f : List(b)!Matching(f)' = List(b)!Matching(f)
  BY DEF List!Matching
<1>2. \A q, x, y : List(b)!Before(q, x, y)' = List(b)!Before(q, x, y)
  BY DEF List!Before
<1>3. \A q : List(b)!Ordered(q)' = List(b)!Ordered(q)
  BY DEF List!Ordered, List!Matching, List!Before
<1>4. \A q, r : ListIsOf(b, q, r)' <=> ListIsOf(b, q, r)
  BY <1>1, <1>3 DEF ListIsOf
<1> QED
  BY <1>1, <1>3, <1>4

LEMMA ListMoves ==
  ASSUME NEW b, List(b)!TenantListAssumption, ListInv(b),
         NEW q \in List(b)!Queries, NEW p \in List(b)!Pages, List(b)!Move(q, p)
  PROVE  ListInv(b)'
<1>1. /\ moves < b.maxMoves /\ moves' = moves + 1 /\ List(b)!Show(cache, listFetch, q, p)
      /\ UNCHANGED <<listExists, listOff, fresh, changes, listFails>>
  BY DEF List!Move
<1>2. ListAnswersOK(b, cache) /\ listFetch \in [List(b)!Keys -> ListFetches(b)]
  BY DEF ListInv, ListViewOK, ListFetchesOK
<1>3. /\ ListViewOK(b)' /\ cache' = cache
      /\ listFetch' \in [List(b)!Keys -> ListFetches(b)]
      /\ \A k \in List(b)!Keys : \/ listFetch'[k] = listFetch[k]
                                 \/ listFetch[k] = List(b)!Idle /\ listFetch'[k] = List(b)!Asked
  BY <1>1, <1>2, ListShows
<1>4. ListCountsOK(b)'
  BY <1>1, ListBounds DEF ListInv, ListCountsOK
<1>5. ASSUME NEW k \in fresh PROVE ListCurrent(b, k)'
  <2>1. k \in List(b)!Keys /\ ListCurrent(b, k)
    BY <1>5 DEF ListInv, ListFetchesOK
  <2>2. List(b)!Asked.at = "asked" /\ List(b)!Asked # List(b)!Idle
    BY DEF List!Asked, List!Idle
  <2>3. \/ listFetch'[k] = listFetch[k]
        \/ listFetch'[k].at # "counted" /\ listFetch'[k] # List(b)!Idle
    BY <1>3, <2>1, <2>2
  <2> QED
    BY <1>1, <1>3, <2>1, <2>3, ListKeeps DEF ListCurrent
<1> QED
  BY <1>1, <1>3, <1>4, <1>5 DEF ListInv, ListServerOK, ListFetchesOK

LEMMA ListReader ==
  ASSUME NEW b, List(b)!TenantListAssumption, ListInv(b),
         \/ \E f \in b.filters : List(b)!SetFilter(f)
         \/ \E key \in b.sortKeys : List(b)!handleSort(key)
         \/ \E n \in List(b)!Pages : List(b)!GoToPage(n)
         \/ List(b)!PreviousPage
         \/ List(b)!NextPage
  PROVE  ListInv(b)'
<1>1. /\ query \in List(b)!Queries /\ page \in List(b)!Pages
      /\ List(b)!totalPages(cache, List(b)!Key(query, page)) \in List(b)!Pages
  <2>1. query \in List(b)!Queries /\ page \in List(b)!Pages /\ ListAnswersOK(b, cache)
    BY DEF ListInv, ListViewOK
  <2>2. List(b)!Key(query, page) \in List(b)!Keys
    BY <2>1 DEF List!Key, List!Keys
  <2> QED
    BY <2>1, <2>2, ListTotals
<1>2. 1 \in List(b)!Pages
  BY ListPages
<1>3. ASSUME NEW f \in b.filters, List(b)!SetFilter(f) PROVE ListInv(b)'
  <2>1. [query EXCEPT !.filter = f] \in List(b)!Queries
    BY <1>1, <1>3 DEF List!Queries
  <2> QED
    BY <1>2, <1>3, <2>1, ListMoves DEF List!SetFilter
<1>4. ASSUME NEW key \in b.sortKeys, List(b)!handleSort(key) PROVE ListInv(b)'
  <2> DEFINE d == IF query.sort = key /\ query.dir = "asc" THEN "desc" ELSE "asc"
  <2>1. d \in {"asc", "desc"}
    OBVIOUS
  <2>2. List(b)!Move([query EXCEPT !.sort = key, !.dir = d], 1)
    BY <1>4 DEF List!handleSort
  <2> HIDE DEF d
  <2>3. [query EXCEPT !.sort = key, !.dir = d] \in List(b)!Queries
    BY <1>1, <1>4, <2>1 DEF List!Queries
  <2> QED
    BY <1>2, <2>2, <2>3, ListMoves
<1>5. ASSUME NEW n \in List(b)!Pages, List(b)!GoToPage(n) PROVE ListInv(b)'
  BY <1>1, <1>5, ListMoves DEF List!GoToPage
<1>6. CASE List(b)!PreviousPage
  <2>1. List(b)!Move(query, Largest(1, page - 1))
    BY <1>6, ListOperators DEF List!PreviousPage
  <2>2. Largest(1, page - 1) \in List(b)!Pages
    BY <1>1, ListPages DEF Largest
  <2> QED
    BY <1>1, <2>1, <2>2, ListMoves
<1>7. CASE List(b)!NextPage
  <2> DEFINE t == List(b)!totalPages(cache, List(b)!Key(query, page))
  <2>1. List(b)!Move(query, Least(t, page + 1))
    BY <1>7, ListOperators DEF List!NextPage
  <2>2. Least(t, page + 1) \in List(b)!Pages
    <3> HIDE DEF t
    <3> QED
      BY <1>1, ListPages DEF Least, t
  <2> QED
    BY <1>1, <2>1, <2>2, ListMoves
<1> QED
  BY <1>3, <1>4, <1>5, <1>6, <1>7

LEMMA ListRequests ==
  ASSUME NEW b, List(b)!TenantListAssumption, ListInv(b),
         List(b)!Invalidate \/ \E k \in List(b)!Keys : List(b)!Count(k) \/ List(b)!Fail(k)
  PROVE  ListInv(b)'
<1>1. UNCHANGED <<listExists, listOff, query, page, cache, changes>>
  BY DEF List!Invalidate, List!Count, List!Fail, List!bounds
<1>2. PICK k \in List(b)!Keys, v \in ListFetches(b) :
        /\ listFetch' = [listFetch EXCEPT ![k] = v]
        /\ \/ /\ v = List(b)!Asked \/ v = listFetch[k]
              /\ fresh' = fresh
           \/ /\ v = [at |-> "counted", total |-> Cardinality(List(b)!Matching(k[1].filter))]
              /\ fresh' = fresh \cup {k}
           \/ fresh' = fresh \ {k}
  <2>1. CASE List(b)!Invalidate
    <3>1. query \in List(b)!Queries /\ page \in List(b)!Pages /\ listFetch \in [List(b)!Keys -> ListFetches(b)]
      BY DEF ListInv, ListViewOK, ListFetchesOK
    <3>2. List(b)!Key(query, page) \in List(b)!Keys
      BY <3>1 DEF List!Key, List!Keys
    <3> DEFINE k == List(b)!Key(query, page)
               v == IF cache[k].loaded \/ listFetch[k] = List(b)!Idle THEN List(b)!Asked ELSE listFetch[k]
    <3>3. listFetch' = [listFetch EXCEPT ![k] = v] /\ fresh' = fresh
      BY <2>1 DEF List!Invalidate
    <3>4. List(b)!Asked \in ListFetches(b)
      BY ListBounds DEF List!Asked, ListFetches
    <3>5. v \in ListFetches(b) /\ (v = List(b)!Asked \/ v = listFetch[k])
      BY <3>1, <3>2, <3>4
    <3> HIDE DEF k, v
    <3>6. k \in List(b)!Keys
      BY <3>2 DEF k
    <3> QED
      BY <3>3, <3>5, <3>6
  <2>2. ASSUME NEW k \in List(b)!Keys, List(b)!Count(k)
        PROVE  /\ listFetch' = [listFetch EXCEPT ![k] = [at |-> "counted", total |-> Cardinality(List(b)!Matching(k[1].filter))]]
               /\ fresh' = fresh \cup {k}
               /\ [at |-> "counted", total |-> Cardinality(List(b)!Matching(k[1].filter))] \in ListFetches(b)
    <3>1. k[1].filter \in b.filters
      BY <2>2 DEF List!Keys, List!Queries
    <3>2. Cardinality(List(b)!Matching(k[1].filter)) \in 0 .. ListAll(b)
      BY <3>1, ListMatches DEF ListInv
    <3> QED
      BY <2>2, <3>2, ListOperators DEF List!Count, ListFetches
  <2>3. ASSUME NEW k \in List(b)!Keys, List(b)!Fail(k)
        PROVE  /\ listFetch' = [listFetch EXCEPT ![k] = List(b)!Idle]
               /\ fresh' = fresh \ {k}
               /\ List(b)!Idle \in ListFetches(b)
    BY <2>3, ListBounds DEF List!Fail, List!Idle, ListFetches
  <2> QED
    BY <2>1, <2>2, <2>3
<1>3. ListFetchesOK(b)'
  BY <1>2 DEF ListInv, ListFetchesOK
<1>4. ListCountsOK(b)'
  BY <1>1, ListBounds DEF List!Invalidate, List!Count, List!Fail, List!bounds, ListInv, ListCountsOK
<1>5. ListViewOK(b)' /\ ListServerOK(b)'
  BY <1>1 DEF ListInv, ListViewOK, ListServerOK, ListAnswersOK, List!totalPages
<1>6. ASSUME NEW j \in fresh' PROVE ListCurrent(b, j)'
  <2>1. /\ List(b)!Asked.at = "asked" /\ List(b)!Asked # List(b)!Idle
        /\ \A n : [at |-> "counted", total |-> n] # List(b)!Idle
    BY DEF List!Asked, List!Idle
  <2>2. j \in List(b)!Keys /\ listFetch \in [List(b)!Keys -> ListFetches(b)]
    BY <1>3, <1>6 DEF ListFetchesOK, ListInv
  <2>3. \/ j \in fresh /\ listFetch'[j] = listFetch[j]
        \/ listFetch'[j] = List(b)!Asked
        \/ listFetch'[j] = [at |-> "counted", total |-> Cardinality(List(b)!Matching(j[1].filter))]
    <3>1. CASE j = k
      BY <1>2, <1>6, <2>2, <3>1
    <3>2. CASE j # k
      BY <1>2, <1>6, <2>2, <3>2
    <3> QED
      BY <3>1, <3>2
  <2>4. CASE j \in fresh /\ listFetch'[j] = listFetch[j]
    BY <1>1, <2>4, ListKeeps DEF ListInv, ListCurrent
  <2>5. CASE listFetch'[j] = List(b)!Asked
    BY <2>1, <2>5 DEF ListCurrent
  <2>6. CASE listFetch'[j] = [at |-> "counted", total |-> Cardinality(List(b)!Matching(j[1].filter))]
    BY <1>1, <2>1, <2>6, ListKeeps DEF ListCurrent
  <2> QED
    BY <2>3, <2>4, <2>5, <2>6
<1> QED
  BY <1>3, <1>4, <1>5, <1>6 DEF ListInv

LEMMA ListAnswered ==
  ASSUME NEW b, List(b)!TenantListAssumption, ListInv(b), NEW k \in List(b)!Keys, List(b)!Answer(k)
  PROVE  ListInv(b)'
<1> DEFINE total == listFetch[k].total
           rows == List(b)!ServeRows(k[1], List(b)!PagesOf(total, b.pageSize), k[2])
           a == [loaded |-> TRUE, total |-> total, rows |-> rows]
           c == [cache EXCEPT ![k] = a]
           f == [listFetch EXCEPT ![k] = List(b)!Idle]
<1>1. /\ listFetch[k].at = "counted" /\ List(b)!Show(c, f, query, page)
      /\ UNCHANGED <<listExists, listOff, fresh, moves, changes, listFails>>
  BY DEF List!Answer, List!bounds
<1>2. /\ query \in List(b)!Queries /\ page \in List(b)!Pages /\ ListAnswersOK(b, cache) /\ ListServerOK(b)
      /\ listFetch \in [List(b)!Keys -> ListFetches(b)] /\ fresh \subseteq List(b)!Keys
  BY DEF ListInv, ListViewOK, ListFetchesOK
<1>3. k[1] \in List(b)!Queries /\ k[2] \in List(b)!Pages /\ total \in 0 .. ListAll(b)
  BY <1>2 DEF List!Keys, ListFetches
<1>4. /\ rows \in Seq(b.tenants) /\ Len(rows) <= b.pageSize
      /\ rows = SubSeq(List(b)!Ordered(k[1]), 1, Least(b.pageSize, Cardinality(List(b)!Matching(k[1].filter))))
  BY <1>2, <1>3, ListServes
<1> HIDE DEF rows, total
<1>5. a.loaded /\ a.total = total /\ a.rows = rows
  OBVIOUS
<1> HIDE DEF a
<1>6. ListAnswerFits(b, a)
  BY <1>3, <1>4, <1>5 DEF ListAnswerFits
<1>7. ListAnswersOK(b, c) /\ c[k] = a /\ \A j \in List(b)!Keys \ {k} : c[j] = cache[j]
  BY <1>2, <1>6 DEF ListAnswersOK
<1>8. List(b)!Idle \in ListFetches(b)
  BY ListBounds DEF List!Idle, ListFetches
<1>9. f \in [List(b)!Keys -> ListFetches(b)] /\ f[k] = List(b)!Idle /\ \A j \in List(b)!Keys \ {k} : f[j] = listFetch[j]
  BY <1>2, <1>8
<1> HIDE DEF c, f
<1>10. /\ ListViewOK(b)' /\ cache' = c
       /\ listFetch' \in [List(b)!Keys -> ListFetches(b)]
       /\ \A j \in List(b)!Keys : \/ listFetch'[j] = f[j]
                                  \/ f[j] = List(b)!Idle /\ listFetch'[j] = List(b)!Asked
  BY <1>1, <1>2, <1>7, <1>9, ListShows
<1>11. ASSUME NEW j \in fresh PROVE ListCurrent(b, j)'
  <2>1. j \in List(b)!Keys /\ ListCurrent(b, j)
    BY <1>2, <1>11 DEF ListInv
  <2>2. List(b)!Asked.at = "asked" /\ List(b)!Asked # List(b)!Idle /\ List(b)!Idle.at = "idle"
    BY DEF List!Asked, List!Idle
  <2>3. CASE j # k
    <3>1. \/ listFetch'[j] = listFetch[j]
          \/ listFetch'[j].at # "counted" /\ listFetch'[j] # List(b)!Idle
      BY <1>9, <1>10, <2>1, <2>2, <2>3
    <3>2. cache'[j] = cache[j]
      BY <1>7, <1>10, <2>1, <2>3
    <3> QED
      BY <1>1, <2>1, <3>1, <3>2, ListKeeps DEF ListCurrent
  <2>4. CASE j = k
    <3>1. total = Cardinality(List(b)!Matching(k[1].filter))
      BY <1>1, <2>1, <2>4 DEF ListCurrent, total
    <3>2. ListIsOf(b, k[1], a)
      BY <1>4, <1>5, <3>1 DEF ListIsOf
    <3>3. listFetch'[k].at # "counted" /\ cache'[k] = a
      BY <1>7, <1>9, <1>10, <2>2
    <3> QED
      BY <1>1, <2>4, <3>2, <3>3, ListKeeps DEF ListCurrent
  <2> QED
    BY <2>3, <2>4
<1> QED
  BY <1>1, <1>2, <1>10, <1>11 DEF ListInv, ListServerOK, ListFetchesOK, ListCountsOK

LEMMA ListSteps ==
  ASSUME NEW b, List(b)!TenantListAssumption, ListInv(b), List(b)!Next
  PROVE  ListInv(b)'
<1>1. ASSUME NEW t \in b.tenants, List(b)!Change(t) PROVE ListInv(b)'
  <2>1. /\ fresh' = {} /\ changes < b.maxChanges /\ changes' = changes + 1
        /\ UNCHANGED <<query, page, cache, listFetch, moves, listFails>>
    BY <1>1 DEF List!Change
  <2>2. ListServerOK(b)'
    BY <1>1 DEF List!Change, ListInv, ListServerOK
  <2>3. ListCountsOK(b)'
    BY <2>1, ListBounds DEF ListInv, ListCountsOK
  <2> QED
    BY <2>1, <2>2, <2>3 DEF ListInv, ListViewOK, ListFetchesOK, ListAnswersOK, List!totalPages
<1> QED
  BY <1>1, ListReader, ListRequests, ListAnswered DEF List!Next

LEMMA ListStands ==
  ASSUME NEW b, ListInv(b), UNCHANGED listVars
  PROVE  ListInv(b)'
<1>1. /\ UNCHANGED <<listExists, listOff>>
      /\ UNCHANGED <<query, page, cache, listFetch, fresh, moves, changes, listFails>>
  BY DEF listVars
<1>2. ASSUME NEW k \in fresh PROVE ListCurrent(b, k)'
  BY <1>1, <1>2, ListKeeps DEF ListInv, ListCurrent
<1> QED
  BY <1>1, <1>2 DEF ListInv, ListServerOK, ListViewOK, ListFetchesOK, ListCountsOK, ListAnswersOK, List!totalPages

(* Wherever the reader is, the buttons getVisiblePages offers are those of *)
(* the pages nearest to the current one.                                   *)
THEOREM VisiblePagesAreTheNearest ==
  ASSUME NEW c \in Nat, NEW t \in Nat, 1 <= c, c <= t
  PROVE  Nearest(getVisiblePages(c, t), c, t)
<1> DEFINE first == IF t <= 5 \/ c <= 3 THEN 1 ELSE IF c >= t - 2 THEN t - 4 ELSE c - 2
           last  == Least(t, first + 4)
<1>1. /\ first \in Int /\ last \in Int
      /\ 1 <= first /\ first <= c /\ c <= last /\ last <= t
      /\ first = 1 \/ first < c
      /\ last = t \/ c < last
      /\ last - first + 1 = Least(5, t)
  BY DEF Least
<1>2. /\ first < c - 2 => last = t
      /\ last > c + 2 => first = 1
      /\ first > 1 => first <= c - 2
      /\ last < t => last >= c + 2
  BY DEF Least
<1>3. getVisiblePages(c, t) = first .. last
  BY DEF getVisiblePages
<1> HIDE DEF first, last
<1>4. Cardinality(first .. last) = Least(5, t)
  <2>1. Cardinality(first .. last) = IF first > last THEN 0 ELSE last - first + 1
    BY <1>1, FS_Interval
  <2> QED
    BY <2>1, <1>1
<1>5. {c - 1, c, c + 1} \cap (1 .. t) \subseteq first .. last
  BY <1>1
<1>6. first .. last \subseteq 1 .. t
  BY <1>1
<1>7. \A n \in first .. last, m \in (1 .. t) \ (first .. last) :
        Largest(n - c, c - n) <= Largest(m - c, c - m)
  BY <1>1, <1>2 DEF Largest
<1> QED
  BY <1>3, <1>4, <1>5, <1>6, <1>7 DEF Nearest

(* Whatever page is asked for, and however many there are, the server      *)
(* serves the first (the maximum of "page" is 1).                          *)
THEOREM OnlyTheFirstPageIsServed ==
  ASSUME NEW total \in Nat, NEW pageSize \in Nat \ {0}, NEW asked \in Int
  PROVE  ServedPage(asked, PagesOf(total, pageSize)) = 1
<1>1. PagesOf(total, pageSize) \in Nat \ {0}
  BY PagesGrow
<1> QED
  BY <1>1 DEF ServedPage, parsePositiveIntQuery, Least

LEMMA ListTells ==
  ASSUME NEW b, List(b)!TenantListAssumption, ListInv(b)
  PROVE  /\ List(b)!TypeOK
         /\ List(b)!QuietListFitsItsQuery
         /\ List(b)!LaterPagesAreLoaded
         /\ List(b)!NearestPagesOffered
<1> DEFINE k == List(b)!Key(query, page)
           t == List(b)!totalPages(cache, k)
<1>1. /\ query \in List(b)!Queries /\ page \in List(b)!Pages /\ ListAnswersOK(b, cache) /\ page <= t
  BY DEF ListInv, ListViewOK
<1>2. k \in List(b)!Keys /\ k[1] = query /\ List(b)!Shown = cache[k]
  BY <1>1 DEF List!Key, List!Keys, List!Shown
<1>3. t = PagesOf(cache[k].total, b.pageSize) /\ t \in List(b)!Pages /\ (~cache[k].loaded => t = 1)
  BY <1>1, <1>2, ListTotals
<1>4. List(b)!TypeOK
  <2>1. ASSUME NEW j \in List(b)!Keys
        PROVE  /\ cache[j].total \in 0 .. List(b)!Cardinality(b.tenants)
               /\ cache[j].rows \in Seq(b.tenants) /\ Len(cache[j].rows) <= b.pageSize
               /\ ~cache[j].loaded => cache[j] = List(b)!NoAnswer
               /\ listFetch[j].at \in {"idle", "asked", "counted"}
               /\ listFetch[j].total \in 0 .. List(b)!Cardinality(b.tenants)
    <3>1. List(b)!Cardinality(b.tenants) = ListAll(b)
      BY ListOperators DEF ListAll
    <3>2. ListAnswerFits(b, cache[j]) /\ listFetch[j] \in ListFetches(b)
      BY <1>1, <2>1 DEF ListAnswersOK, ListInv, ListFetchesOK
    <3> QED
      BY <3>1, <3>2 DEF ListAnswerFits, ListFetches
  <2> QED
    BY <1>1, <2>1 DEF List!TypeOK, ListInv, ListServerOK, ListFetchesOK, ListCountsOK
<1> HIDE DEF k, t
<1>5. List(b)!QuietListFitsItsQuery
  <2>1. ASSUME cache[k].loaded, k \in fresh, listFetch[k] = List(b)!Idle
        PROVE  ListIsOf(b, query, cache[k])
    BY <1>2, <2>1 DEF ListInv, ListCurrent
  <2> QED
    BY <1>2, <2>1, ListOperators DEF List!QuietListFitsItsQuery, ListIsOf, k
<1>6. page \in Nat /\ 1 <= page /\ t \in Nat /\ 1 <= t
  BY <1>1, <1>3, ListPages
<1>7. List(b)!LaterPagesAreLoaded
  <2>1. ASSUME page > 1 PROVE cache[k].loaded
    BY <1>1, <1>3, <1>6, <2>1
  <2> QED
    BY <1>1, <1>2, <1>3, <2>1, ListOperators DEF List!LaterPagesAreLoaded
<1>8. List(b)!NearestPagesOffered
  <2>1. List(b)!currentPageSafe = page
    <3>1. List(b)!currentPageSafe = Least(page, t)
      BY ListOperators DEF List!currentPageSafe, k, t
    <3> QED
      BY <1>1, <1>6, <3>1 DEF Least
  <2>2. List(b)!pageNumbers = List(b)!getVisiblePages(page, t)
    BY <2>1 DEF List!pageNumbers, k, t
  <2>3. List(b)!getVisiblePages(page, t) = getVisiblePages(page, t)
    BY Zenon DEF List!getVisiblePages, getVisiblePages, List!Least, Least
  <2>4. Nearest(getVisiblePages(page, t), page, t)
    BY <1>1, <1>6, VisiblePagesAreTheNearest
  <2>5. \A o : List(b)!Nearest(o, page, t) <=> Nearest(o, page, t)
    BY Zenon DEF List!Nearest, Nearest, List!Least, Least, List!Largest, Largest, List!Cardinality, Cardinality
  <2> QED
    BY <2>1, <2>2, <2>3, <2>4, <2>5 DEF List!NearestPagesOffered, k, t
<1> QED
  BY <1>4, <1>5, <1>7, <1>8

-----------------------------------------------------------------------------
(* The dialogs of a tenant.  A typed password is of the tenant of the open *)
(* password dialog, or a deletion has swept that dialog away; a deletion   *)
(* that was carried out has its answer under way until the tenant has left *)
(* the selection or is missed; and what the page knows of a tenant is so,  *)
(* or it is being read, or the end of a change of its status will have it  *)
(* read again.                                                             *)
DialogNotes(b) ==
  [text : {Dialogs(b)!Nothing, "on", "off", "deleted", "password"}, of : b.tenants \cup {Nobody}]
DialogErrors(b) == [text : {Dialogs(b)!Nothing, "failed"}, of : b.tenants \cup {Nobody}]
DialogCalls(b) ==
  [kind : {"none", "status", "delete", "password"}, of : b.tenants \cup {Nobody},
   to : {Dialogs(b)!Nothing, "on", "off"}, at : {"idle", "asked", "done", "refused", "listing"},
   sees : b.tenants \cup {Nobody, "live"}]

DialogServerOK(b) == dialogExists \subseteq b.tenants /\ dialogOff \subseteq b.tenants

DialogViewOK(b) ==
  /\ who \in b.tenants \cup {Nobody}
  /\ view \in Dialogs(b)!Views \cup {"none"}
  /\ view # "none" => who \in b.tenants
  /\ dialogSelected \subseteq b.tenants
  /\ dialogTyped \in b.tenants \cup {Nobody}
  /\ swept \in BOOLEAN
  /\ dialogTyped # Nobody => swept \/ (dialogTyped = who /\ view = "password")

DialogToldOK(b) == dialogNote \in DialogNotes(b) /\ dialogError \in DialogErrors(b)

DialogReadingOK(b) ==
  /\ detail \in [b.tenants -> {"unknown", "on", "off"}]
  /\ dialogReading \in [b.tenants -> {"idle", "asked", "on", "off", "gone"}]
  /\ \A t \in b.tenants : dialogReading[t] = "gone" => t \notin dialogExists

DialogCallFits(b, q) ==
  /\ (q.at = "idle") = (q = Dialogs(b)!IdleCall)
  /\ q.at # "idle" => q.of \in b.tenants /\ detail[q.of] # "unknown"

DialogCallsOK(b) ==
  dialogCall \in [b.calls -> DialogCalls(b)] /\ \A c \in b.calls : DialogCallFits(b, dialogCall[c])

DialogEndsOK(b) == dialogCrossed \subseteq b.tenants /\ missed \subseteq b.tenants

DialogCountsOK(b) == dialogActs \in 0 .. b.maxActs /\ dialogFails \in 0 .. b.maxFails

Removes(q, t) == q.kind = "delete" /\ q.of = t /\ q.at = "done"
Sets(q, t)    == q.kind = "status" /\ q.of = t /\ q.at \in {"done", "listing"}
Removing(b, t) == \E c \in b.calls : Removes(dialogCall[c], t)
Setting(b, t)  == \E c \in b.calls : Sets(dialogCall[c], t)

DialogSelection(b) == \A t \in dialogSelected \ dialogExists : t \in missed \/ Removing(b, t)

Known(t) ==
  \/ dialogReading[t] = "asked"
  \/ dialogReading[t] = "on" /\ t \notin dialogOff
  \/ dialogReading[t] = "off" /\ t \in dialogOff
  \/ dialogReading[t] = "idle" /\ (detail[t] = "unknown" \/ (detail[t] = "off") = (t \in dialogOff))

DialogKnown(b) == \A t \in dialogExists \ dialogCrossed : Setting(b, t) \/ Known(t)

DialogInv(b) ==
  /\ DialogServerOK(b)
  /\ DialogViewOK(b)
  /\ DialogToldOK(b)
  /\ DialogReadingOK(b)
  /\ DialogCallsOK(b)
  /\ DialogEndsOK(b)
  /\ DialogCountsOK(b)
  /\ DialogSelection(b)
  /\ DialogKnown(b)

LEMMA DialogBounds ==
  ASSUME NEW b, Dialogs(b)!TenantDialogsAssumption
  PROVE  b.maxActs \in Nat /\ b.maxFails \in Nat
BY DEF Dialogs!TenantDialogsAssumption

LEMMA DialogValues ==
  ASSUME NEW b, Dialogs(b)!TenantDialogsAssumption
  PROVE  /\ Nobody \notin b.tenants
         /\ Dialogs(b)!None \in DialogNotes(b) /\ Dialogs(b)!None \in DialogErrors(b)
         /\ Dialogs(b)!IdleCall \in DialogCalls(b) /\ DialogCallFits(b, Dialogs(b)!IdleCall)
         /\ Dialogs(b)!IdleCall.at = "idle"
<1>1. Nobody \notin b.tenants
  BY DEF Dialogs!TenantDialogsAssumption
<1>2. Dialogs(b)!None \in DialogNotes(b) /\ Dialogs(b)!None \in DialogErrors(b)
  BY DEF Dialogs!None, DialogNotes, DialogErrors
<1>3. Dialogs(b)!IdleCall \in DialogCalls(b) /\ Dialogs(b)!IdleCall.at = "idle"
  BY DEF Dialogs!IdleCall, DialogCalls
<1>4. DialogCallFits(b, Dialogs(b)!IdleCall)
  BY <1>3 DEF DialogCallFits
<1> QED
  BY <1>1, <1>2, <1>3, <1>4

LEMMA DialogStarts ==
  ASSUME NEW b, Dialogs(b)!TenantDialogsAssumption, Dialogs(b)!Init
  PROVE  DialogInv(b)
<1>1. DialogServerOK(b) /\ DialogEndsOK(b)
  BY DEF Dialogs!Init, DialogServerOK, DialogEndsOK
<1>2. DialogViewOK(b)
  BY DEF Dialogs!Init, DialogViewOK
<1>3. DialogToldOK(b)
  BY DialogValues DEF Dialogs!Init, DialogToldOK
<1>4. DialogReadingOK(b)
  BY DEF Dialogs!Init, DialogReadingOK
<1>5. DialogCallsOK(b)
  BY DialogValues DEF Dialogs!Init, DialogCallsOK
<1>6. DialogCountsOK(b)
  BY DialogBounds DEF Dialogs!Init, DialogCountsOK
<1>7. DialogSelection(b)
  BY DEF Dialogs!Init, DialogSelection
<1>8. DialogKnown(b)
  BY DEF Dialogs!Init, DialogKnown, Known
<1> QED
  BY <1>1, <1>2, <1>3, <1>4, <1>5, <1>6, <1>7, <1>8 DEF DialogInv

(* The reader opens, switches and closes dialogs, and types.               *)
LEMMA DialogReads ==
  ASSUME NEW b, DialogInv(b), NEW t \in b.tenants,
         dialogReading' \in {dialogReading, [dialogReading EXCEPT ![t] = "asked"]},
         UNCHANGED <<dialogExists, dialogOff, detail, dialogCrossed>>
  PROVE  /\ DialogReadingOK(b)'
         /\ \A u \in b.tenants : Known(u) => Known(u)'
         /\ dialogReading' # dialogReading => Known(t)'
<1>1. DialogReadingOK(b)
  BY DEF DialogInv
<1>2. DialogReadingOK(b)'
  BY <1>1 DEF DialogReadingOK
<1>3. \A u \in b.tenants : dialogReading'[u] = dialogReading[u] \/ dialogReading'[u] = "asked"
  BY <1>1 DEF DialogReadingOK
<1>4. dialogReading' # dialogReading => dialogReading'[t] = "asked"
  BY <1>1 DEF DialogReadingOK
<1> QED
  BY <1>2, <1>3, <1>4 DEF Known

LEMMA DialogOpens ==
  ASSUME NEW b, Dialogs(b)!TenantDialogsAssumption, DialogInv(b), NEW t \in b.tenants,
         NEW v \in Dialogs(b)!Views, Dialogs(b)!OpenModal(t, v)
  PROVE  DialogInv(b)'
<1>1. /\ UNCHANGED <<dialogExists, dialogOff, dialogSelected, detail, dialogCall, dialogCrossed, missed, dialogActs,
                     dialogFails>>
      /\ dialogReading' \in {dialogReading, [dialogReading EXCEPT ![t] = "asked"]}
      /\ view = "none" /\ who' = t /\ view' = v
      /\ dialogNote' = Dialogs(b)!None /\ dialogError' = Dialogs(b)!None
      /\ dialogTyped' = (IF v = "password" THEN dialogTyped ELSE Nobody)
      /\ swept' = (swept /\ v = "password")
  BY DEF Dialogs!OpenModal, Dialogs!Watch, Dialogs!ResetFeedback, Dialogs!server, Dialogs!ends
<1>2. DialogReadingOK(b)' /\ \A u \in b.tenants : Known(u) => Known(u)'
  BY <1>1, DialogReads
<1>3. DialogViewOK(b)'
  BY <1>1, DialogValues DEF DialogInv, DialogViewOK, Dialogs!Views
<1>4. DialogToldOK(b)'
  BY <1>1, DialogValues DEF DialogToldOK
<1>5. DialogSelection(b)'
  BY <1>1 DEF DialogInv, DialogSelection, Removing
<1>6. DialogKnown(b)'
  BY <1>1, <1>2 DEF DialogInv, DialogKnown, Setting, DialogServerOK
<1> QED
  BY <1>1, <1>2, <1>3, <1>4, <1>5, <1>6
     DEF DialogInv, DialogServerOK, DialogCallsOK, DialogCallFits, DialogEndsOK, DialogCountsOK

LEMMA DialogMoves ==
  ASSUME NEW b, Dialogs(b)!TenantDialogsAssumption, DialogInv(b),
         (\E v \in Dialogs(b)!Views : Dialogs(b)!SwitchTo(v)) \/ Dialogs(b)!Close \/ Dialogs(b)!TypePassword
  PROVE  DialogInv(b)'
<1>1. /\ UNCHANGED <<dialogExists, dialogOff, dialogSelected, detail, dialogReading, dialogCall, dialogCrossed,
                     missed, dialogActs, dialogFails>>
      /\ UNCHANGED <<dialogNote, dialogError>> \/ (dialogNote' = Dialogs(b)!None /\ dialogError' = Dialogs(b)!None)
  BY DEF Dialogs!SwitchTo, Dialogs!Close, Dialogs!TypePassword, Dialogs!ResetFeedback, Dialogs!server, Dialogs!ends
<1>2. DialogViewOK(b)'
  <2>1. ASSUME NEW v \in Dialogs(b)!Views, Dialogs(b)!SwitchTo(v) PROVE DialogViewOK(b)'
    BY <1>1, <2>1 DEF Dialogs!SwitchTo, DialogInv, DialogViewOK, Dialogs!Views
  <2>2. CASE Dialogs(b)!Close
    BY <1>1, <2>2 DEF Dialogs!Close, DialogInv, DialogViewOK
  <2>3. CASE Dialogs(b)!TypePassword
    BY <1>1, <2>3 DEF Dialogs!TypePassword, DialogInv, DialogViewOK
  <2> QED
    BY <2>1, <2>2, <2>3
<1>3. DialogToldOK(b)'
  BY <1>1, DialogValues DEF DialogInv, DialogToldOK
<1> QED
  BY <1>1, <1>2, <1>3
     DEF DialogInv, DialogServerOK, DialogReadingOK, DialogCallsOK, DialogCallFits, DialogEndsOK, DialogCountsOK,
         DialogSelection, Removing, DialogKnown, Setting, Known

(* A new request: the others of its kind are left with what they see.      *)
LEMMA DialogCounts ==
  ASSUME NEW b, Dialogs(b)!TenantDialogsAssumption, DialogCountsOK(b),
         \/ UNCHANGED <<dialogActs, dialogFails>>
         \/ dialogActs < b.maxActs /\ dialogActs' = dialogActs + 1 /\ UNCHANGED dialogFails
         \/ dialogFails < b.maxFails /\ dialogFails' = dialogFails + 1 /\ UNCHANGED dialogActs
  PROVE  DialogCountsOK(b)'
BY DialogBounds DEF DialogCountsOK

LEMMA DialogBegins ==
  ASSUME NEW b, Dialogs(b)!TenantDialogsAssumption, DialogInv(b), view # "none",
         NEW kind \in {"status", "delete", "password"}, NEW to \in {Dialogs(b)!Nothing, "on", "off"},
         Dialogs(b)!Begin(kind, to), DialogToldOK(b)'
  PROVE  DialogInv(b)'
<1>0. who \in b.tenants /\ DialogCallsOK(b) /\ DialogCountsOK(b)
  BY DEF DialogInv, DialogViewOK
<1> DEFINE new == [kind |-> kind, of |-> who, to |-> to, at |-> "asked", sees |-> "live"]
           old(d) == [dialogCall[d] EXCEPT !.sees = Dialogs(b)!Seen(d)]
<1>1. PICK c \in b.calls :
        /\ dialogCall[c] = Dialogs(b)!IdleCall
        /\ dialogCall' = [d \in b.calls |-> IF d = c THEN new
                                           ELSE IF dialogCall[d].kind = kind THEN old(d) ELSE dialogCall[d]]
  BY DEF Dialogs!Begin
<1>2. /\ UNCHANGED <<dialogExists, dialogOff, who, view, dialogSelected, dialogTyped, detail, dialogReading,
                     dialogCrossed, missed, swept, dialogFails>>
      /\ dialogActs < b.maxActs /\ dialogActs' = dialogActs + 1 /\ detail[who] # "unknown"
  BY DEF Dialogs!Begin, Dialogs!server, Dialogs!ends
<1>3. new \in DialogCalls(b) /\ DialogCallFits(b, new)
  <2>1. new \in DialogCalls(b)
    BY <1>0 DEF DialogCalls
  <2>2. new.at = "asked" /\ new.of = who
    OBVIOUS
  <2> HIDE DEF new
  <2> QED
    BY <1>0, <1>2, <2>1, <2>2, DialogValues DEF DialogCallFits
<1>4. ASSUME NEW d \in b.calls, dialogCall[d].kind = kind
      PROVE  /\ old(d) \in DialogCalls(b) /\ DialogCallFits(b, old(d)) /\ old(d).kind = dialogCall[d].kind
             /\ old(d).of = dialogCall[d].of /\ old(d).at = dialogCall[d].at
  <2>1. dialogCall[d] \in DialogCalls(b) /\ DialogCallFits(b, dialogCall[d])
    BY <1>0 DEF DialogCallsOK
  <2>2. Dialogs(b)!Seen(d) \in b.tenants \cup {Nobody, "live"}
    BY <1>0, <2>1 DEF Dialogs!Seen, DialogCalls
  <2>3. /\ old(d) \in DialogCalls(b) /\ old(d).kind = dialogCall[d].kind /\ old(d).of = dialogCall[d].of
        /\ old(d).at = dialogCall[d].at
    BY <2>1, <2>2 DEF DialogCalls
  <2>4. dialogCall[d].at # "idle"
    <3>1. Dialogs(b)!IdleCall.kind = "none"
      BY DEF Dialogs!IdleCall
    <3> QED
      BY <1>4, <2>1, <3>1 DEF DialogCallFits
  <2> HIDE DEF old
  <2>5. old(d) # Dialogs(b)!IdleCall
    BY <2>3, <2>4, DialogValues
  <2> QED
    BY <2>1, <2>3, <2>4, <2>5 DEF DialogCallFits
<1> HIDE DEF new, old
<1>5. ASSUME NEW d \in b.calls
      PROVE  dialogCall'[d] \in DialogCalls(b) /\ DialogCallFits(b, dialogCall'[d])
  BY <1>0, <1>1, <1>3, <1>4 DEF DialogCallsOK
<1>6. DialogCallsOK(b)'
  <2>1. dialogCall' \in [b.calls -> DialogCalls(b)]
    BY <1>1, <1>5
  <2>2. \A d \in b.calls : DialogCallFits(b, dialogCall[d])'
    BY <1>2, <1>5 DEF DialogCallFits
  <2> QED
    BY <2>1, <2>2 DEF DialogCallsOK
<1>7. ASSUME NEW t
      PROVE  (Removing(b, t) => Removing(b, t)') /\ (Setting(b, t) => Setting(b, t)')
  <2>1. \A d \in b.calls : d # c => /\ dialogCall'[d].kind = dialogCall[d].kind
                                    /\ dialogCall'[d].of = dialogCall[d].of
                                    /\ dialogCall'[d].at = dialogCall[d].at
    BY <1>1, <1>4
  <2>2. ~Removes(dialogCall[c], t) /\ ~Sets(dialogCall[c], t)
    BY <1>1, DialogValues DEF Removes, Sets
  <2> QED
    BY <2>1, <2>2 DEF Removing, Setting, Removes, Sets
<1>8. DialogSelection(b)'
  BY <1>2, <1>7 DEF DialogInv, DialogSelection
<1>9. DialogKnown(b)'
  BY <1>2, <1>7 DEF DialogInv, DialogKnown, Known
<1>10. DialogCountsOK(b)'
  BY <1>0, <1>2, DialogCounts
<1> QED
  BY <1>2, <1>6, <1>8, <1>9, <1>10
     DEF DialogInv, DialogServerOK, DialogViewOK, DialogReadingOK, DialogEndsOK

LEMMA DialogRequests ==
  ASSUME NEW b, Dialogs(b)!TenantDialogsAssumption, DialogInv(b),
         Dialogs(b)!SetStatus \/ Dialogs(b)!DeleteTenant \/ Dialogs(b)!SetPassword
  PROVE  DialogInv(b)'
<1>1. view # "none"
  BY DEF Dialogs!SetStatus, Dialogs!DeleteTenant, Dialogs!SetPassword
<1>2. DialogToldOK(b)'
  BY DialogValues DEF Dialogs!SetStatus, Dialogs!DeleteTenant, Dialogs!SetPassword, Dialogs!ResetFeedback,
                      DialogInv, DialogToldOK
<1>3. \E kind \in {"status", "delete", "password"}, to \in {Dialogs(b)!Nothing, "on", "off"} : Dialogs(b)!Begin(kind, to)
  BY DEF Dialogs!SetStatus, Dialogs!DeleteTenant, Dialogs!SetPassword
<1> QED
  BY <1>1, <1>2, <1>3, DialogBegins

(* A request is changed to another one that can be.                        *)
LEMMA DialogCallChanges ==
  ASSUME NEW b, DialogCallsOK(b), NEW c \in b.calls, NEW q \in DialogCalls(b), DialogCallFits(b, q),
         detail' = detail, dialogCall' = [dialogCall EXCEPT ![c] = q]
  PROVE  /\ DialogCallsOK(b)'
         /\ \A t : /\ Removing(b, t) /\ ~Removes(dialogCall[c], t) => Removing(b, t)'
                   /\ Setting(b, t) /\ ~Sets(dialogCall[c], t) => Setting(b, t)'
                   /\ Removes(q, t) => Removing(b, t)'
                   /\ Sets(q, t) => Setting(b, t)'
<1>1. \A d \in b.calls : dialogCall'[d] = IF d = c THEN q ELSE dialogCall[d]
  BY DEF DialogCallsOK
<1>2. DialogCallsOK(b)'
  BY <1>1 DEF DialogCallsOK, DialogCallFits
<1> QED
  BY <1>1, <1>2 DEF Removing, Setting

LEMMA DialogAnswers ==
  ASSUME NEW b, Dialogs(b)!TenantDialogsAssumption, DialogCallsOK(b), NEW c \in b.calls,
         NEW a \in {"done", "refused"}, dialogCall[c].at = "asked",
         detail' = detail, dialogCall' = [dialogCall EXCEPT ![c].at = a]
  PROVE  /\ DialogCallsOK(b)'
         /\ \A t : /\ Removing(b, t) => Removing(b, t)'
                   /\ Setting(b, t) => Setting(b, t)'
                   /\ a = "done" /\ dialogCall[c].kind = "delete" /\ dialogCall[c].of = t => Removing(b, t)'
                   /\ a = "done" /\ dialogCall[c].kind = "status" /\ dialogCall[c].of = t => Setting(b, t)'
<1> DEFINE q == [dialogCall[c] EXCEPT !.at = a]
<1>1. dialogCall[c] \in DialogCalls(b) /\ DialogCallFits(b, dialogCall[c])
  BY DEF DialogCallsOK
<1>2. q \in DialogCalls(b) /\ q.at = a /\ q.kind = dialogCall[c].kind /\ q.of = dialogCall[c].of
  BY <1>1 DEF DialogCalls
<1>3. dialogCall' = [dialogCall EXCEPT ![c] = q]
  OBVIOUS
<1> HIDE DEF q
<1>4. DialogCallFits(b, q)
  BY <1>1, <1>2, DialogValues DEF DialogCallFits
<1>5. \A t : ~Removes(dialogCall[c], t) /\ ~Sets(dialogCall[c], t)
  BY DEF Removes, Sets
<1> QED
  BY <1>2, <1>3, <1>4, <1>5, DialogCallChanges DEF Removes, Sets

(* What a request does on the server.                                      *)
LEMMA DialogApplies ==
  ASSUME NEW b, DialogInv(b), NEW c \in b.calls, Dialogs(b)!Apply(c),
         UNCHANGED <<detail, dialogReading>>
  PROVE  /\ DialogServerOK(b)' /\ dialogExists' \subseteq dialogExists
         /\ DialogReadingOK(b)'
         /\ \A t \in dialogExists \ dialogExists' : dialogCall[c].kind = "delete" /\ dialogCall[c].of = t
         /\ \A t \in dialogExists' : \/ Known(t) => Known(t)'
                                     \/ dialogCall[c].kind = "status" /\ dialogCall[c].of = t
<1> DEFINE u == dialogCall[c].of
<1>1. DialogServerOK(b)
  BY DEF DialogInv
<1>2. u \in dialogExists
  BY DEF Dialogs!Apply
<1>3. CASE dialogCall[c].kind = "status" /\ dialogExists' = dialogExists
           /\ dialogOff' = (IF dialogCall[c].to = "off" THEN dialogOff \cup {u} ELSE dialogOff \ {u})
  <2>1. \A t : t # u => (t \in dialogOff' <=> t \in dialogOff)
    BY <1>3
  <2>2. DialogServerOK(b)'
    BY <1>1, <1>2, <1>3 DEF DialogServerOK
  <2>3. \A t \in dialogExists : t # u => (Known(t) => Known(t)')
    BY <2>1 DEF Known
  <2>4. DialogReadingOK(b)'
    BY <1>3 DEF DialogInv, DialogReadingOK
  <2> QED
    BY <1>3, <2>2, <2>3, <2>4
<1>4. CASE dialogCall[c].kind = "delete" /\ dialogExists' = dialogExists \ {u} /\ dialogOff' = dialogOff \ {u}
  <2>1. DialogServerOK(b)'
    BY <1>1, <1>4 DEF DialogServerOK
  <2>2. \A t \in dialogExists' : Known(t) => Known(t)'
    BY <1>4 DEF Known
  <2>3. DialogReadingOK(b)'
    BY <1>4 DEF DialogInv, DialogReadingOK
  <2> QED
    BY <1>4, <2>1, <2>2, <2>3
<1>5. CASE UNCHANGED <<dialogExists, dialogOff>>
  BY <1>1, <1>5 DEF DialogInv, DialogServerOK, DialogReadingOK, Known
<1> QED
  BY <1>3, <1>4, <1>5 DEF Dialogs!Apply

LEMMA DialogServes ==
  ASSUME NEW b, Dialogs(b)!TenantDialogsAssumption, DialogInv(b), NEW c \in b.calls,
         Dialogs(b)!Serve(c) \/ Dialogs(b)!Refuse(c) \/ Dialogs(b)!Lose(c)
  PROVE  DialogInv(b)'
<1>0. DialogCallsOK(b) /\ DialogCountsOK(b) /\ dialogCall[c].at = "asked" /\ DialogSelection(b) /\ DialogKnown(b)
  BY DEF DialogInv, Dialogs!Serve, Dialogs!Refuse, Dialogs!Lose
<1> DEFINE u == dialogCall[c].of
<1>1. /\ UNCHANGED <<who, view, dialogSelected, dialogTyped, dialogNote, dialogError, swept, detail, dialogReading>>
      /\ \/ UNCHANGED <<dialogActs, dialogFails>>
         \/ dialogFails < b.maxFails /\ dialogFails' = dialogFails + 1 /\ UNCHANGED dialogActs
  BY DEF Dialogs!Serve, Dialogs!Refuse, Dialogs!Lose, Dialogs!dialog
<1>2. DialogCountsOK(b)'
  BY <1>0, <1>1, DialogCounts
<1>3. u \in b.tenants
  BY <1>0 DEF DialogCallsOK, DialogCallFits
<1>4. CASE Dialogs(b)!Serve(c)
  <2>1. /\ Dialogs(b)!Apply(c) /\ dialogCall' = [dialogCall EXCEPT ![c].at = "done"]
        /\ UNCHANGED <<dialogCrossed, missed>>
    BY <1>4 DEF Dialogs!Serve, Dialogs!ends
  <2>2. /\ DialogCallsOK(b)'
        /\ \A t : /\ Removing(b, t) => Removing(b, t)'
                  /\ Setting(b, t) => Setting(b, t)'
                  /\ dialogCall[c].kind = "delete" /\ dialogCall[c].of = t => Removing(b, t)'
                  /\ dialogCall[c].kind = "status" /\ dialogCall[c].of = t => Setting(b, t)'
    BY <1>0, <1>1, <2>1, DialogAnswers
  <2>3. /\ DialogServerOK(b)' /\ dialogExists' \subseteq dialogExists
        /\ DialogReadingOK(b)'
        /\ \A t \in dialogExists \ dialogExists' : dialogCall[c].kind = "delete" /\ dialogCall[c].of = t
        /\ \A t \in dialogExists' : \/ Known(t) => Known(t)'
                                    \/ dialogCall[c].kind = "status" /\ dialogCall[c].of = t
    BY <1>1, <2>1, DialogApplies
  <2>4. DialogSelection(b)'
    BY <1>0, <1>1, <2>1, <2>2, <2>3 DEF DialogSelection
  <2>5. DialogKnown(b)'
    BY <1>0, <2>1, <2>2, <2>3 DEF DialogKnown
  <2> QED
    BY <1>1, <1>2, <2>1, <2>2, <2>3, <2>4, <2>5 DEF DialogInv, DialogViewOK, DialogToldOK, DialogEndsOK
<1>5. CASE dialogCall' = [dialogCall EXCEPT ![c].at = "refused"]
  <2>1. /\ DialogCallsOK(b)'
        /\ \A t : /\ Removing(b, t) => Removing(b, t)'
                  /\ Setting(b, t) => Setting(b, t)'
    BY <1>0, <1>1, <1>5, DialogAnswers
  <2>2. CASE UNCHANGED <<dialogExists, dialogOff, dialogCrossed, missed>>
    BY <1>1, <1>2, <2>1, <2>2
       DEF DialogInv, DialogServerOK, DialogViewOK, DialogToldOK, DialogReadingOK, DialogEndsOK, DialogSelection,
           DialogKnown, Known
  <2>3. CASE Dialogs(b)!Apply(c) /\ dialogCrossed' = dialogCrossed \cup {u} /\ missed' = missed \cup {u}
    <3>1. /\ DialogServerOK(b)' /\ dialogExists' \subseteq dialogExists
          /\ DialogReadingOK(b)'
          /\ \A t \in dialogExists \ dialogExists' : dialogCall[c].of = t
          /\ \A t \in dialogExists' : \/ Known(t) => Known(t)'
                                      \/ dialogCall[c].of = t
      BY <1>1, <2>3, DialogApplies
    <3>2. DialogSelection(b)'
      BY <1>0, <1>1, <2>1, <2>3, <3>1 DEF DialogSelection
    <3>3. DialogKnown(b)'
      BY <1>0, <2>1, <2>3, <3>1 DEF DialogKnown
    <3>4. DialogEndsOK(b)'
      BY <1>3, <2>3 DEF DialogInv, DialogEndsOK
    <3> QED
      BY <1>1, <1>2, <2>1, <3>1, <3>2, <3>3, <3>4 DEF DialogInv, DialogViewOK, DialogToldOK
  <2> QED
    BY <1>5, <2>2, <2>3, <1>4 DEF Dialogs!Refuse, Dialogs!Lose, Dialogs!server, Dialogs!ends
<1> QED
  BY <1>4, <1>5 DEF Dialogs!Refuse, Dialogs!Lose

(* The queries.                                                            *)
LEMMA DialogReadsServer ==
  ASSUME NEW b, DialogInv(b), NEW t \in b.tenants, Dialogs(b)!Read(t)
  PROVE  DialogInv(b)'
<1> DEFINE r == IF t \notin dialogExists THEN "gone" ELSE IF t \in dialogOff THEN "off" ELSE "on"
<1>1. /\ UNCHANGED <<dialogExists, dialogOff, who, view, dialogSelected, dialogTyped, dialogNote, dialogError, swept,
                     detail, dialogCall, missed, dialogActs, dialogFails>>
      /\ dialogReading' = [dialogReading EXCEPT ![t] = r] /\ dialogCrossed' = dialogCrossed \ {t}
  BY DEF Dialogs!Read, Dialogs!server, Dialogs!dialog
<1>2. DialogReadingOK(b)
  BY DEF DialogInv
<1>3. \A u \in b.tenants : dialogReading'[u] = IF u = t THEN r ELSE dialogReading[u]
  BY <1>1, <1>2 DEF DialogReadingOK
<1>4. DialogReadingOK(b)'
  BY <1>1, <1>2, <1>3 DEF DialogReadingOK
<1>5. \A u \in b.tenants \cap dialogExists : Known(u) \/ u = t => Known(u)'
  BY <1>1, <1>3 DEF Known
<1>6. DialogKnown(b)'
  BY <1>1, <1>5 DEF DialogInv, DialogKnown, Setting, DialogServerOK
<1> QED
  BY <1>1, <1>4, <1>6
     DEF DialogInv, DialogServerOK, DialogViewOK, DialogToldOK, DialogCallsOK, DialogCallFits, DialogEndsOK,
         DialogCountsOK, DialogSelection, Removing

LEMMA DialogArrives ==
  ASSUME NEW b, DialogInv(b), NEW t \in b.tenants, Dialogs(b)!Arrive(t)
  PROVE  DialogInv(b)'
<1>1. /\ UNCHANGED <<dialogExists, dialogOff, who, view, dialogSelected, dialogTyped, dialogNote, dialogError, swept,
                     dialogCall, dialogCrossed, missed, dialogActs, dialogFails>>
      /\ dialogReading[t] \in {"on", "off", "gone"}
      /\ dialogReading' = [dialogReading EXCEPT ![t] = "idle"]
      /\ detail' = IF dialogReading[t] = "gone" THEN detail ELSE [detail EXCEPT ![t] = dialogReading[t]]
  BY DEF Dialogs!Arrive, Dialogs!server, Dialogs!dialog, Dialogs!ends
<1>2. DialogReadingOK(b) /\ DialogCallsOK(b)
  BY DEF DialogInv
<1>3. /\ \A u \in b.tenants : dialogReading'[u] = IF u = t THEN "idle" ELSE dialogReading[u]
      /\ \A u \in b.tenants : detail'[u] = IF u = t /\ dialogReading[t] # "gone" THEN dialogReading[t] ELSE detail[u]
  BY <1>1, <1>2 DEF DialogReadingOK
<1>4. DialogReadingOK(b)'
  BY <1>1, <1>2, <1>3 DEF DialogReadingOK
<1>5. DialogCallsOK(b)'
  <2>1. \A c \in b.calls : DialogCallFits(b, dialogCall[c]) => DialogCallFits(b, dialogCall[c])'
    BY <1>1, <1>3 DEF DialogCallFits
  <2> QED
    BY <1>1, <1>2, <2>1 DEF DialogCallsOK
<1>6. \A u \in b.tenants \cap dialogExists : Known(u) => Known(u)'
  BY <1>1, <1>2, <1>3 DEF Known, DialogReadingOK
<1>7. DialogKnown(b)'
  BY <1>1, <1>6 DEF DialogInv, DialogKnown, Setting, DialogServerOK
<1> QED
  BY <1>1, <1>4, <1>5, <1>7
     DEF DialogInv, DialogServerOK, DialogViewOK, DialogToldOK, DialogEndsOK, DialogCountsOK, DialogSelection, Removing

(* The page hears of it.                                                   *)
LEMMA DialogEnds ==
  ASSUME NEW b, Dialogs(b)!TenantDialogsAssumption, DialogInv(b), NEW c \in b.calls, dialogCall[c].at # "idle",
         NEW a \in {"listing", "idle"}, Dialogs(b)!Ends(c, a), detail' = detail
  PROVE  /\ DialogCallsOK(b)'
         /\ \A t : /\ Removing(b, t) /\ ~Removes(dialogCall[c], t) => Removing(b, t)'
                   /\ Setting(b, t) /\ ~Sets(dialogCall[c], t) => Setting(b, t)'
                   /\ Sets(dialogCall[c], t) /\ a = "listing" => Setting(b, t)'
<1> DEFINE moved == [dialogCall[c] EXCEPT !.at = a, !.sees = Dialogs(b)!Seen(c)]
<1>0. DialogCallsOK(b) /\ dialogCall[c] \in DialogCalls(b) /\ DialogCallFits(b, dialogCall[c])
      /\ who \in b.tenants \cup {Nobody}
  BY DEF DialogInv, DialogCallsOK, DialogViewOK
<1>1. CASE a = "idle"
  <2>1. dialogCall' = [dialogCall EXCEPT ![c] = Dialogs(b)!IdleCall]
    BY <1>1 DEF Dialogs!Ends
  <2> QED
    BY <1>0, <1>1, <2>1, DialogValues, DialogCallChanges
<1>2. CASE a = "listing"
  <2>1. dialogCall' = [dialogCall EXCEPT ![c] = moved]
    BY <1>0, <1>2 DEF Dialogs!Ends, DialogCallsOK
  <2>2. Dialogs(b)!Seen(c) \in b.tenants \cup {Nobody, "live"}
    BY <1>0 DEF Dialogs!Seen, DialogCalls
  <2>3. moved \in DialogCalls(b) /\ moved.at = "listing" /\ moved.kind = dialogCall[c].kind /\ moved.of = dialogCall[c].of
    BY <1>0, <1>2, <2>2 DEF DialogCalls
  <2> HIDE DEF moved
  <2>4. DialogCallFits(b, moved)
    BY <1>0, <2>3, DialogValues DEF DialogCallFits
  <2>5. \A t : Sets(dialogCall[c], t) => Sets(moved, t)
    BY <2>3 DEF Sets
  <2> QED
    BY <1>0, <2>1, <2>3, <2>4, <2>5, DialogCallChanges
<1> QED
  BY <1>1, <1>2

LEMMA DialogStatusSet ==
  ASSUME NEW b, Dialogs(b)!TenantDialogsAssumption, DialogInv(b), NEW c \in b.calls, Dialogs(b)!StatusSet(c)
  PROVE  DialogInv(b)'
<1>1. /\ UNCHANGED <<dialogExists, dialogOff, who, view, dialogSelected, dialogTyped, swept, detail, dialogReading,
                     dialogCrossed, missed, dialogActs, dialogFails>>
      /\ dialogCall[c].kind = "status" /\ dialogCall[c].at = "done" /\ Dialogs(b)!Ends(c, "listing")
      /\ dialogNote' = [text |-> dialogCall[c].to, of |-> dialogCall[c].of] /\ dialogError' = Dialogs(b)!None
  BY DEF Dialogs!StatusSet, Dialogs!server, Dialogs!ends
<1>2. /\ DialogCallsOK(b)'
      /\ \A t : /\ Removing(b, t) /\ ~Removes(dialogCall[c], t) => Removing(b, t)'
                /\ Setting(b, t) => Setting(b, t)'
  BY <1>1, DialogEnds
<1>3. \A t : ~Removes(dialogCall[c], t)
  BY <1>1 DEF Removes
<1>4. DialogToldOK(b)'
  <2>1. dialogCall[c] \in DialogCalls(b)
    BY DEF DialogInv, DialogCallsOK
  <2>2. dialogNote' \in DialogNotes(b)
    BY <1>1, <2>1 DEF DialogCalls, DialogNotes
  <2> QED
    BY <1>1, <2>2, DialogValues DEF DialogToldOK
<1>5. DialogSelection(b)'
  BY <1>1, <1>2, <1>3 DEF DialogInv, DialogSelection
<1>6. DialogKnown(b)'
  BY <1>1, <1>2 DEF DialogInv, DialogKnown, Known
<1> QED
  BY <1>1, <1>2, <1>4, <1>5, <1>6
     DEF DialogInv, DialogServerOK, DialogViewOK, DialogReadingOK, DialogEndsOK, DialogCountsOK

LEMMA DialogReadsAgain ==
  ASSUME NEW b, Dialogs(b)!TenantDialogsAssumption, DialogInv(b), NEW c \in b.calls, Dialogs(b)!ReadAgain(c)
  PROVE  DialogInv(b)'
<1> DEFINE s == dialogCall[c].sees
           u == dialogCall[c].of
<1>1. /\ UNCHANGED <<dialogExists, dialogOff, who, view, dialogSelected, dialogTyped, dialogNote, dialogError, swept,
                     detail, missed, dialogActs, dialogFails>>
      /\ dialogCall[c].at = "listing" /\ Dialogs(b)!Ends(c, "idle")
      /\ dialogCrossed' = IF s = u /\ Dialogs(b)!Open(u) THEN dialogCrossed ELSE dialogCrossed \cup {u}
      /\ dialogReading' = IF s \in b.tenants /\ Dialogs(b)!Open(s) /\ (detail[s] # "unknown" \/ dialogReading[s] = "idle")
                          THEN [dialogReading EXCEPT ![s] = "asked"] ELSE dialogReading
  BY DEF Dialogs!ReadAgain, Dialogs!Outcome, Dialogs!server, Dialogs!dialog
<1>2. /\ DialogCallsOK(b)'
      /\ \A t : /\ Removing(b, t) /\ ~Removes(dialogCall[c], t) => Removing(b, t)'
                /\ Setting(b, t) /\ ~Sets(dialogCall[c], t) => Setting(b, t)'
  BY <1>1, DialogEnds
<1>3. u \in b.tenants /\ detail[u] # "unknown"
  BY <1>1 DEF DialogInv, DialogCallsOK, DialogCallFits
<1>4. DialogReadingOK(b)
  BY DEF DialogInv
<1> HIDE DEF s, u
<1>5. /\ \A t \in b.tenants : dialogReading'[t] \in {dialogReading[t], "asked"}
      /\ u \notin dialogCrossed' => dialogReading'[u] = "asked"
  BY <1>1, <1>3, <1>4 DEF DialogReadingOK
<1>6. DialogReadingOK(b)'
  BY <1>1, <1>4 DEF DialogReadingOK
<1>7. \A t \in b.tenants : Known(t) => Known(t)'
  BY <1>1, <1>5 DEF Known
<1>8. \A t : ~Removes(dialogCall[c], t) /\ (t # u => ~Sets(dialogCall[c], t))
  BY <1>1 DEF Removes, Sets, u
<1>9. DialogSelection(b)'
  BY <1>1, <1>2, <1>8 DEF DialogInv, DialogSelection
<1>10. DialogKnown(b)'
  <2> SUFFICES ASSUME NEW t \in dialogExists \ dialogCrossed' PROVE Setting(b, t)' \/ Known(t)'
    BY <1>1 DEF DialogKnown
  <2>1. t \in dialogExists \ dialogCrossed /\ t \in b.tenants
    BY <1>1 DEF DialogInv, DialogServerOK
  <2>2. CASE t = u
    BY <1>5, <2>2 DEF Known
  <2>3. CASE t # u
    BY <1>2, <1>7, <1>8, <2>1, <2>3 DEF DialogInv, DialogKnown
  <2> QED
    BY <2>2, <2>3
<1>11. DialogEndsOK(b)'
  BY <1>1, <1>3 DEF DialogInv, DialogEndsOK
<1> QED
  BY <1>1, <1>2, <1>6, <1>9, <1>10, <1>11
     DEF DialogInv, DialogServerOK, DialogViewOK, DialogToldOK, DialogCountsOK

LEMMA DialogDeleted ==
  ASSUME NEW b, Dialogs(b)!TenantDialogsAssumption, DialogInv(b), NEW c \in b.calls, Dialogs(b)!Deleted(c)
  PROVE  DialogInv(b)'
<1> DEFINE u == dialogCall[c].of
<1>1. /\ UNCHANGED <<dialogExists, dialogOff, dialogTyped, detail, dialogReading, dialogCrossed, dialogActs, dialogFails>>
      /\ dialogCall[c].kind = "delete" /\ dialogCall[c].at = "done" /\ Dialogs(b)!Ends(c, "idle")
      /\ dialogNote' = [text |-> "deleted", of |-> u] /\ dialogError' = Dialogs(b)!None
      /\ view' = "none" /\ who' = Nobody
      /\ dialogSelected' = dialogSelected \ {Dialogs(b)!Seen(c)}
      /\ missed' = IF Dialogs(b)!Seen(c) = u THEN missed ELSE missed \cup {u}
      /\ swept' = (swept \/ dialogTyped # Nobody)
  BY DEF Dialogs!Deleted, Dialogs!server
<1>2. /\ DialogCallsOK(b)'
      /\ \A t : /\ Removing(b, t) /\ ~Removes(dialogCall[c], t) => Removing(b, t)'
                /\ Setting(b, t) /\ ~Sets(dialogCall[c], t) => Setting(b, t)'
  BY <1>1, DialogEnds
<1>3. u \in b.tenants
  BY <1>1 DEF DialogInv, DialogCallsOK, DialogCallFits
<1> HIDE DEF u
<1>4. \A t : (t # u => ~Removes(dialogCall[c], t)) /\ ~Sets(dialogCall[c], t)
  BY <1>1 DEF Removes, Sets, u
<1>5. DialogViewOK(b)'
  BY <1>1 DEF DialogInv, DialogViewOK
<1>6. DialogToldOK(b)'
  <2>1. dialogNote' \in DialogNotes(b)
    BY <1>1, <1>3 DEF DialogNotes
  <2> QED
    BY <1>1, <2>1, DialogValues DEF DialogToldOK
<1>7. DialogSelection(b)'
  BY <1>1, <1>2, <1>4 DEF DialogInv, DialogSelection
<1>8. DialogKnown(b)'
  BY <1>1, <1>2, <1>4 DEF DialogInv, DialogKnown, Known
<1>9. DialogEndsOK(b)'
  BY <1>1, <1>3 DEF DialogInv, DialogEndsOK
<1> QED
  BY <1>1, <1>2, <1>5, <1>6, <1>7, <1>8, <1>9
     DEF DialogInv, DialogServerOK, DialogReadingOK, DialogCountsOK

LEMMA DialogPasswordSet ==
  ASSUME NEW b, Dialogs(b)!TenantDialogsAssumption, DialogInv(b), NEW c \in b.calls,
         Dialogs(b)!PasswordSet(c) \/ Dialogs(b)!Refused(c)
  PROVE  DialogInv(b)'
<1>1. /\ UNCHANGED <<dialogExists, dialogOff, who, view, dialogSelected, swept, detail, dialogReading,
                     dialogCrossed, missed, dialogActs, dialogFails>>
      /\ dialogTyped' \in {dialogTyped, Nobody}
      /\ dialogCall[c].at # "idle" /\ (dialogCall[c].kind = "password" \/ dialogCall[c].at = "refused")
      /\ Dialogs(b)!Ends(c, "idle")
  BY DEF Dialogs!PasswordSet, Dialogs!Refused, Dialogs!server, Dialogs!ends
<1>2. /\ DialogCallsOK(b)'
      /\ \A t : /\ Removing(b, t) /\ ~Removes(dialogCall[c], t) => Removing(b, t)'
                /\ Setting(b, t) /\ ~Sets(dialogCall[c], t) => Setting(b, t)'
  BY <1>1, DialogEnds
<1>3. \A t : ~Removes(dialogCall[c], t) /\ ~Sets(dialogCall[c], t)
  BY <1>1 DEF Removes, Sets
<1>4. DialogToldOK(b)'
  <2>1. dialogCall[c].of \in b.tenants
    BY <1>1 DEF DialogInv, DialogCallsOK, DialogCallFits
  <2>2. [text |-> "password", of |-> dialogCall[c].of] \in DialogNotes(b)
        /\ [text |-> "failed", of |-> dialogCall[c].of] \in DialogErrors(b)
    BY <2>1 DEF DialogNotes, DialogErrors
  <2> QED
    BY <2>2, DialogValues DEF Dialogs!PasswordSet, Dialogs!Refused, DialogInv, DialogToldOK
<1>5. DialogViewOK(b)'
  BY <1>1 DEF DialogInv, DialogViewOK
<1>6. DialogSelection(b)'
  BY <1>1, <1>2, <1>3 DEF DialogInv, DialogSelection
<1>7. DialogKnown(b)'
  BY <1>1, <1>2, <1>3 DEF DialogInv, DialogKnown, Known
<1> QED
  BY <1>1, <1>2, <1>4, <1>5, <1>6, <1>7
     DEF DialogInv, DialogServerOK, DialogReadingOK, DialogEndsOK, DialogCountsOK

LEMMA DialogSteps ==
  ASSUME NEW b, Dialogs(b)!TenantDialogsAssumption, DialogInv(b), Dialogs(b)!Next
  PROVE  DialogInv(b)'
BY DialogOpens, DialogMoves, DialogRequests, DialogServes, DialogReadsServer, DialogArrives, DialogStatusSet,
   DialogReadsAgain, DialogDeleted, DialogPasswordSet DEF Dialogs!Next

LEMMA DialogStands ==
  ASSUME NEW b, DialogInv(b), UNCHANGED dialogVars
  PROVE  DialogInv(b)'
BY DEF DialogInv, DialogServerOK, DialogViewOK, DialogToldOK, DialogReadingOK, DialogCallsOK, DialogCallFits,
       DialogEndsOK, DialogCountsOK, DialogSelection, Removing, DialogKnown, Setting, Known, dialogVars

LEMMA DialogTells ==
  ASSUME NEW b, DialogInv(b)
  PROVE  /\ Dialogs(b)!TypeOK
         /\ Dialogs(b)!QuietDialogIsCurrent
         /\ Dialogs(b)!DeletedIsDeselected
         /\ Dialogs(b)!PasswordIsOfItsTenant
<1>1. Dialogs(b)!TypeOK
  BY DEF DialogInv, DialogServerOK, DialogViewOK, DialogToldOK, DialogReadingOK, DialogCallsOK, DialogCallFits,
         DialogEndsOK, DialogCountsOK, DialogNotes, DialogErrors, DialogCalls, Dialogs!TypeOK
<1>2. Dialogs(b)!QuietDialogIsCurrent
  BY DEF DialogInv, DialogKnown, Known, Setting, Sets, Dialogs!QuietDialogIsCurrent
<1>3. Dialogs(b)!DeletedIsDeselected
  BY DEF DialogInv, DialogSelection, Removing, Removes, Dialogs!DeletedIsDeselected
<1>4. Dialogs(b)!PasswordIsOfItsTenant
  BY DEF DialogInv, DialogViewOK, Dialogs!PasswordIsOfItsTenant
<1> QED
  BY <1>1, <1>2, <1>3, <1>4

-----------------------------------------------------------------------------
(* The bulk actions.  Nothing is ticked twice, and a run goes through what *)
(* was ticked at its click, each once: what it has touched has had its     *)
(* turn, and counting its failures loses none.                             *)
Once(s) == \A i, j \in DOMAIN s : s[i] = s[j] => i = j

BulkRun(b) ==
  [at : {"idle", "running", "reading"}, action : Bulk(b)!Actions,
   todo : Seq(b.tenants), failed : Nat, confirmed : SUBSET b.tenants,
   touched : SUBSET b.tenants]

RunFits(b, q) ==
  /\ Once(q.todo) /\ Bulk(b)!Elems(q.todo) \subseteq q.confirmed
  /\ q.touched \subseteq q.confirmed \ Bulk(b)!Elems(q.todo)
  /\ q.failed + Len(q.todo) <= Cardinality(q.confirmed)
  /\ Cardinality(q.confirmed) - Len(q.todo) - q.failed <= Cardinality(q.touched)
  /\ q.at # "running" => q.todo = <<>>
  /\ q.at = "idle" => q = Bulk(b)!IdleRun

BulkTyped(b) ==
  /\ bulkExists \subseteq b.tenants /\ bulkOff \subseteq bulkExists
  /\ bulkList \subseteq b.tenants
  /\ bulkSelected \in Seq(b.tenants)
  /\ run \in [b.runs -> BulkRun(b)]
  /\ bulkError \in BOOLEAN
  /\ begun \in 0 .. b.maxRuns

NoteFits(b) ==
  /\ bulkNote.kind \in {"none", "partial", "all"}
  /\ {bulkNote.success, bulkNote.total, bulkNote.done} \subseteq 0 .. Cardinality(b.tenants)
  /\ bulkNote.success <= bulkNote.done /\ bulkNote.done <= bulkNote.total
  /\ bulkNote.kind = "all" => bulkNote.success = bulkNote.total

BulkInv(b) ==
  /\ BulkTyped(b)
  /\ Once(bulkSelected)
  /\ \A r \in b.runs : RunFits(b, run[r])
  /\ NoteFits(b)

LEMMA BulkCounts ==
  ASSUME NEW b
  PROVE  /\ \A S : Bulk(b)!Cardinality(S) = Cardinality(S)
         /\ \A S : Bulk(b)!IsFiniteSet(S) <=> IsFiniteSet(S)
BY Zenon DEF Cardinality, Bulk!Cardinality, IsFiniteSet, Bulk!IsFiniteSet

LEMMA TenantsAreFinite ==
  ASSUME NEW b, Bulk(b)!BulkActionsAssumption
  PROVE  b.tenants \subseteq Nat /\ IsFiniteSet(b.tenants) /\ b.maxRuns \in Nat
BY BulkCounts DEF Bulk!BulkActionsAssumption

(* The numbers of a finite set, in ascending order: each once.             *)
LEMMA InOrderLists ==
  ASSUME NEW b, NEW S \in SUBSET Nat, IsFiniteSet(S)
  PROVE  /\ DOMAIN Bulk(b)!InOrder(S) = 1 .. Cardinality(S) /\ Cardinality(S) \in Nat
         /\ Bulk(b)!InOrder(S) \in Seq(S)
         /\ Once(Bulk(b)!InOrder(S))
<1> DEFINE R == {p \in S \X S : p[1] < p[2]}
           n == Cardinality(S)
           o == Bulk(b)!InOrder(S)
<1>0. n \in Nat
  BY FS_CardinalityType
<1>1. /\ \A x \in S : <<x, x>> \notin R
      /\ \A x, y \in S : x # y => <<x, y>> \in R \/ <<y, x>> \in R
      /\ \A x, y, z \in S : <<x, y>> \in R /\ <<y, z>> \in R => <<x, z>> \in R
      /\ \A x, y \in S : <<x, y>> \in R <=> x < y
  OBVIOUS
<1>2. \A t \in S : {u \in S : <<u, t>> \in R} = {u \in S : u < t}
  BY <1>1
<1> HIDE DEF R
<1>3. ASSUME NEW i \in 1 .. n PROVE \E t \in S : Cardinality({u \in S : u < t}) = i - 1
  <2>1. PICK t \in S : Rank(S, R, t) = i - 1
    <3>1. StrictOrder(S, R)
      BY <1>1 DEF StrictOrder
    <3>2. HasRank(S, R, i)
      BY <3>1, RankedOnce
    <3> QED
      BY <3>2 DEF HasRank
  <2>2. {u \in S : <<u, t>> \in R} = {u \in S : u < t}
    BY <1>2
  <2> QED
    BY <2>1, <2>2 DEF Rank
<1>4. o = [i \in 1 .. n |-> CHOOSE t \in S : Cardinality({u \in S : u < t}) = i - 1]
  BY Zenon DEF Bulk!InOrder, Bulk!Cardinality, Cardinality
<1>5. \A i \in 1 .. n : o[i] \in S /\ Cardinality({u \in S : u < o[i]}) = i - 1
  BY <1>3, <1>4
<1>6. DOMAIN o = 1 .. n
  BY <1>4
<1>7. o \in [1 .. n -> S]
  BY <1>4, <1>5, <1>6
<1> HIDE DEF o
<1>8. o \in Seq(S)
  BY <1>0, <1>7
<1>9. ASSUME NEW i \in 1 .. n, NEW j \in 1 .. n, o[i] = o[j] PROVE i = j
  <2>1. i - 1 = j - 1
    BY <1>5, <1>9
  <2> QED
    BY <1>0, <2>1
<1> QED
  BY <1>0, <1>6, <1>8, <1>9 DEF Once, o

LEMMA WithoutLists ==
  ASSUME NEW b, NEW T, NEW s \in Seq(T), Once(s), NEW S
  PROVE  Bulk(b)!Without(s, S) \in Seq(T) /\ Once(Bulk(b)!Without(s, S))
<1> DEFINE P == {i \in DOMAIN s : s[i] \notin S}
           kept == Bulk(b)!InOrder(P)
           n == Cardinality(P)
           w == Bulk(b)!Without(s, S)
<1>1. P \in SUBSET Nat /\ IsFiniteSet(P)
  <2>1. Len(s) \in Nat /\ DOMAIN s = 1 .. Len(s)
    OBVIOUS
  <2>2. IsFiniteSet(1 .. Len(s)) /\ P \in SUBSET (1 .. Len(s))
    BY <2>1, CountUpTo
  <2> QED
    BY <2>1, <2>2, FS_Subset
<1> HIDE DEF P
<1>2. DOMAIN kept = 1 .. n /\ n \in Nat /\ kept \in Seq(P) /\ Once(kept)
  BY <1>1, InOrderLists
<1>3. w = [k \in DOMAIN kept |-> s[kept[k]]]
  BY DEF Bulk!Without, P
<1> HIDE DEF kept, w
<1>4. \A k \in 1 .. n : kept[k] \in DOMAIN s
  BY <1>2 DEF P
<1>5. w \in [1 .. n -> T]
  BY <1>2, <1>3, <1>4
<1>6. w \in Seq(T)
  BY <1>2, <1>5
<1>7. \A k, m \in 1 .. n : w[k] = w[m] => k = m
  BY <1>2, <1>3, <1>4 DEF Once
<1> QED
  BY <1>5, <1>6, <1>7 DEF Once, w

(* A list without repetitions is as long as it has elements.               *)
LEMMA OnceCounts ==
  ASSUME NEW b, NEW T, NEW s \in Seq(T), Once(s)
  PROVE  Cardinality(Bulk(b)!Elems(s)) = Len(s)
<1> DEFINE S == 1 .. Len(s)
           E == Bulk(b)!Elems(s)
<1>0. Len(s) \in Nat /\ DOMAIN s = S
  OBVIOUS
<1>1. s \in [S -> E] /\ \A t \in E : \E i \in S : s[i] = t
  BY <1>0 DEF Bulk!Elems
<1>2. IsFiniteSet(S) /\ Cardinality(S) = Len(s)
  BY <1>0, CountUpTo
<1> HIDE DEF S, E
<1>3. s \in Surjection(S, E) /\ s \in Injection(S, E)
  BY <1>0, <1>1 DEF Surjection, Injection, IsInjective, Once
<1> QED
  BY <1>2, <1>3, FS_Surjection DEF E

LEMMA HeadAndTail ==
  ASSUME NEW b, NEW T, NEW s \in Seq(T), s # <<>>, Once(s)
  PROVE  /\ Head(s) \in Bulk(b)!Elems(s) /\ Tail(s) \in Seq(T) /\ Once(Tail(s))
         /\ Len(s) \in Nat \ {0} /\ Len(Tail(s)) = Len(s) - 1
         /\ Bulk(b)!Elems(Tail(s)) \subseteq Bulk(b)!Elems(s) \ {Head(s)}
<1>1. /\ Len(s) \in Nat \ {0} /\ DOMAIN s = 1 .. Len(s) /\ Head(s) = s[1]
      /\ Tail(s) \in Seq(T) /\ Len(Tail(s)) = Len(s) - 1
      /\ \A i \in 1 .. Len(s) - 1 : Tail(s)[i] = s[i + 1]
  OBVIOUS
<1>2. DOMAIN Tail(s) = 1 .. Len(s) - 1
  BY <1>1
<1>3. \A i \in 1 .. Len(s) - 1 : i + 1 \in DOMAIN s /\ i + 1 # 1
  BY <1>1
<1>4. 1 \in DOMAIN s
  BY <1>1
<1>5. Once(Tail(s))
  <2> SUFFICES ASSUME NEW i \in 1 .. Len(s) - 1, NEW j \in 1 .. Len(s) - 1, Tail(s)[i] = Tail(s)[j] PROVE i = j
    BY <1>2 DEF Once
  <2>1. s[i + 1] = s[j + 1]
    BY <1>1
  <2>2. i + 1 = j + 1
    BY <1>3, <2>1 DEF Once
  <2> QED
    BY <1>1, <2>2
<1>6. Bulk(b)!Elems(Tail(s)) \subseteq Bulk(b)!Elems(s) \ {Head(s)}
  <2> SUFFICES ASSUME NEW i \in 1 .. Len(s) - 1 PROVE Tail(s)[i] \in Bulk(b)!Elems(s) \ {Head(s)}
    BY <1>2 DEF Bulk!Elems
  <2>1. Tail(s)[i] = s[i + 1]
    BY <1>1
  <2>2. s[i + 1] # s[1]
    BY <1>3, <1>4 DEF Once
  <2> QED
    BY <1>1, <1>3, <2>1, <2>2 DEF Bulk!Elems
<1> QED
  BY <1>1, <1>4, <1>5, <1>6 DEF Bulk!Elems

(* A turn: the first one of those to come fails, counted, whether it was   *)
(* touched or not; or it is touched.                                       *)
LEMMA TurnFits ==
  ASSUME NEW b, Bulk(b)!BulkActionsAssumption,
         NEW q \in BulkRun(b), RunFits(b, q), q.at = "running", q.todo # <<>>,
         NEW fails \in {0, 1}, NEW t, t = {Head(q.todo)} \/ (fails = 1 /\ t = {}),
         NEW p, p = [q EXCEPT !.todo = Tail(@), !.failed = @ + fails, !.touched = @ \cup t]
  PROVE  p \in BulkRun(b) /\ RunFits(b, p)
<1> DEFINE h == Head(q.todo)
           m == Len(q.todo)
           c == Cardinality(q.confirmed)
           d == Cardinality(q.touched)
<1>0. /\ q.at = "running" /\ q.action \in Bulk(b)!Actions /\ q.todo \in Seq(b.tenants) /\ q.failed \in Nat
      /\ q.confirmed \in SUBSET b.tenants /\ q.touched \in SUBSET b.tenants
  BY DEF BulkRun
<1>1. /\ p.at = "running" /\ p.action = q.action /\ p.todo = Tail(q.todo) /\ p.failed = q.failed + fails
      /\ p.confirmed = q.confirmed /\ p.touched = q.touched \cup t
  BY DEF BulkRun
<1>2. /\ h \in Bulk(b)!Elems(q.todo) /\ Tail(q.todo) \in Seq(b.tenants) /\ Once(Tail(q.todo))
      /\ m \in Nat \ {0} /\ Len(Tail(q.todo)) = m - 1
      /\ Bulk(b)!Elems(Tail(q.todo)) \subseteq Bulk(b)!Elems(q.todo) \ {h}
  BY <1>0, HeadAndTail DEF RunFits
<1>3. h \in q.confirmed /\ h \notin q.touched
  BY <1>2 DEF RunFits
<1>4. IsFiniteSet(q.confirmed) /\ c \in Nat /\ IsFiniteSet(q.touched) /\ d \in Nat
  BY <1>0, TenantsAreFinite, FS_Subset, FS_CardinalityType
<1>5. q.touched \cup t \subseteq q.confirmed \ Bulk(b)!Elems(Tail(q.todo))
  BY <1>2, <1>3 DEF RunFits
<1>6. Cardinality(q.touched \cup t) = IF t = {} THEN d ELSE d + 1
  <2>1. CASE t = {h}
    BY <1>3, <1>4, <2>1, FS_AddElement
  <2>2. CASE t = {}
    <3>1. q.touched \cup t = q.touched
      BY <2>2
    <3> QED
      BY <2>2, <3>1
  <2> QED
    BY <2>1, <2>2
<1>7. q.failed + m <= c /\ c - m - q.failed <= d
  BY DEF RunFits
<1>8. (q.failed + fails) + (m - 1) <= c /\ c - (m - 1) - (q.failed + fails) <= Cardinality(q.touched \cup t)
  <2> HIDE DEF m, c, d, h
  <2>1. fails = 1 \/ t # {}
    OBVIOUS
  <2>2. fails = 0 \/ fails = 1
    OBVIOUS
  <2> DEFINE e == Cardinality(q.touched \cup t)
  <2>3. e = d \/ e = d + 1
    BY <1>6
  <2>4. fails = 0 => e = d + 1
    BY <1>6, <2>1
  <2> HIDE DEF e
  <2>5. (q.failed + fails) + (m - 1) <= c /\ c - (m - 1) - (q.failed + fails) <= e
    BY <1>0, <1>2, <1>4, <1>7, <2>2, <2>3, <2>4, SMTT(30)
  <2> QED
    BY <2>5 DEF e
<1>9. q.failed + fails \in Nat
  BY <1>0
<1>10. p \in BulkRun(b)
  <2>1. t \subseteq b.tenants
    BY <1>0, <1>3
  <2>2. p = [at |-> "running", action |-> q.action, todo |-> Tail(q.todo), failed |-> q.failed + fails,
             confirmed |-> q.confirmed, touched |-> q.touched \cup t]
    BY DEF BulkRun
  <2> QED
    BY <1>0, <1>2, <1>9, <2>1, <2>2 DEF BulkRun
<1> HIDE DEF h
<1> QED
  BY <1>1, <1>2, <1>5, <1>8, <1>10 DEF RunFits

LEMMA IdleFits ==
  ASSUME NEW b
  PROVE  /\ Bulk(b)!IdleRun \in BulkRun(b) /\ RunFits(b, Bulk(b)!IdleRun)
         /\ Bulk(b)!IdleRun.failed = 0 /\ Bulk(b)!IdleRun.touched = {}
<1>1. Cardinality({}) = 0
  BY FS_EmptySet
<1> QED
  BY <1>1 DEF Bulk!IdleRun, BulkRun, Bulk!Actions, RunFits, Once, Bulk!Elems

LEMMA BulkStarts ==
  ASSUME NEW b, Bulk(b)!BulkActionsAssumption, Bulk(b)!Init
  PROVE  BulkInv(b)
<1>1. /\ bulkExists = b.tenants /\ bulkOff \subseteq b.tenants /\ bulkList = b.tenants
      /\ bulkSelected = <<>> /\ run = [r \in b.runs |-> Bulk(b)!IdleRun]
      /\ bulkNote = Bulk(b)!NoNote /\ bulkError = FALSE /\ begun = 0
  BY DEF Bulk!Init
<1>2. Bulk(b)!IdleRun \in BulkRun(b) /\ RunFits(b, Bulk(b)!IdleRun)
  BY IdleFits
<1>3. Cardinality(b.tenants) \in Nat /\ b.maxRuns \in Nat
  BY TenantsAreFinite, FS_CardinalityType
<1>4. BulkTyped(b)
  <2>1. run \in [b.runs -> BulkRun(b)]
    BY <1>1, <1>2
  <2>2. bulkSelected \in Seq(b.tenants) /\ bulkError \in BOOLEAN
    <3>1. bulkSelected \in Seq(b.tenants)
      BY <1>1
    <3>2. bulkError \in BOOLEAN
      BY <1>1
    <3> QED
      BY <3>1, <3>2
  <2>3. bulkExists \subseteq b.tenants /\ bulkOff \subseteq bulkExists /\ bulkList \subseteq b.tenants
    BY <1>1
  <2>4. begun \in 0 .. b.maxRuns
    BY <1>1, <1>3
  <2> QED
    BY <2>1, <2>2, <2>3, <2>4 DEF BulkTyped
<1>5. NoteFits(b)
  BY <1>1, <1>3 DEF NoteFits, Bulk!NoNote
<1> QED
  BY <1>1, <1>2, <1>4, <1>5 DEF BulkInv, Once

(* A step of the reader or of somebody else, which leaves the runs alone.  *)
LEMMA TickingFits ==
  ASSUME NEW b, Bulk(b)!BulkActionsAssumption, BulkInv(b),
         \/ \E t \in b.tenants : Bulk(b)!toggleTenantSelection(t) \/ Bulk(b)!DeletedElsewhere(t)
         \/ Bulk(b)!togglePageSelection \/ Bulk(b)!ClearSelection
  PROVE  BulkInv(b)'
<1>0. bulkSelected \in Seq(b.tenants) /\ Once(bulkSelected) /\ bulkList \subseteq b.tenants
  BY DEF BulkInv, BulkTyped
<1>1. UNCHANGED <<run, bulkList, bulkNote, bulkError, begun>>
  BY DEF Bulk!toggleTenantSelection, Bulk!DeletedElsewhere, Bulk!togglePageSelection, Bulk!ClearSelection
<1>2. bulkExists' \subseteq b.tenants /\ bulkOff' \subseteq bulkExists'
  BY DEF Bulk!toggleTenantSelection, Bulk!DeletedElsewhere, Bulk!togglePageSelection, Bulk!ClearSelection,
         BulkInv, BulkTyped
<1>3. bulkSelected' \in Seq(b.tenants) /\ Once(bulkSelected')
  <2>1. ASSUME NEW t \in b.tenants, Bulk(b)!toggleTenantSelection(t)
        PROVE  bulkSelected' \in Seq(b.tenants) /\ Once(bulkSelected')
    <3>1. CASE t \in Bulk(b)!Elems(bulkSelected)
      <4>1. bulkSelected' = Bulk(b)!Without(bulkSelected, {t})
        BY <2>1, <3>1 DEF Bulk!toggleTenantSelection
      <4> QED
        BY <1>0, <4>1, WithoutLists
    <3>2. CASE t \notin Bulk(b)!Elems(bulkSelected)
      <4>1. bulkSelected' = Append(bulkSelected, t)
        BY <2>1, <3>2 DEF Bulk!toggleTenantSelection
      <4> DEFINE s == bulkSelected
                 w == Append(s, t)
      <4>2. Len(s) \in Nat /\ DOMAIN s = 1 .. Len(s) /\ w \in Seq(b.tenants) /\ DOMAIN w = 1 .. Len(s) + 1
            /\ w[Len(s) + 1] = t /\ \A i \in 1 .. Len(s) : w[i] = s[i]
        BY <1>0
      <4>3. \A i \in DOMAIN s : s[i] # t
        BY <3>2 DEF Bulk!Elems
      <4> HIDE DEF w
      <4>4. ASSUME NEW i \in DOMAIN w, NEW j \in DOMAIN w, w[i] = w[j] PROVE i = j
        <5>1. (i \in 1 .. Len(s) \/ i = Len(s) + 1) /\ (j \in 1 .. Len(s) \/ j = Len(s) + 1)
          BY <4>2
        <5> QED
          BY <1>0, <4>2, <4>3, <4>4, <5>1 DEF Once
      <4> QED
        BY <4>1, <4>2, <4>4 DEF Once, w
    <3> QED
      BY <3>1, <3>2
  <2>2. ASSUME Bulk(b)!togglePageSelection
        PROVE  bulkSelected' \in Seq(b.tenants) /\ Once(bulkSelected')
    <3>1. CASE bulkSelected' = Bulk(b)!Without(bulkSelected, bulkList)
      BY <1>0, <3>1, WithoutLists
    <3>2. CASE bulkSelected' = bulkSelected \o Bulk(b)!InOrder(bulkList \ Bulk(b)!Elems(bulkSelected))
      <4> DEFINE s == bulkSelected
                 P == bulkList \ Bulk(b)!Elems(s)
                 o == Bulk(b)!InOrder(P)
                 w == s \o o
      <4>1. P \in SUBSET Nat /\ IsFiniteSet(P) /\ P \subseteq b.tenants
        BY <1>0, TenantsAreFinite, FS_Subset
      <4>2. o \in Seq(P) /\ Once(o)
        <5> HIDE DEF P
        <5> QED
          BY <4>1, InOrderLists
      <4>3. \A i \in DOMAIN s : s[i] \notin P
        BY DEF Bulk!Elems
      <4> HIDE DEF P, o
      <4>4. o \in Seq(b.tenants)
        BY <4>1, <4>2
      <4>5. /\ Len(s) \in Nat /\ Len(o) \in Nat /\ DOMAIN s = 1 .. Len(s) /\ DOMAIN o = 1 .. Len(o)
            /\ w \in Seq(b.tenants) /\ DOMAIN w = 1 .. Len(s) + Len(o)
            /\ \A i \in 1 .. Len(s) : w[i] = s[i]
            /\ \A i \in 1 .. Len(s) + Len(o) : i > Len(s) => w[i] = o[i - Len(s)]
            /\ \A i \in 1 .. Len(o) : o[i] \in P
        BY <1>0, <4>2, <4>4
      <4> HIDE DEF w
      <4>6. ASSUME NEW i \in DOMAIN w, NEW j \in DOMAIN w, w[i] = w[j] PROVE i = j
        <5>1. CASE i \in 1 .. Len(s) /\ j \in 1 .. Len(s)
          BY <1>0, <4>5, <4>6, <5>1 DEF Once
        <5>2. ASSUME i > Len(s), j > Len(s) PROVE i = j
          <6>1. i - Len(s) \in DOMAIN o /\ j - Len(s) \in DOMAIN o
            BY <4>5, <5>2
          <6>2. o[i - Len(s)] = o[j - Len(s)]
            BY <4>5, <4>6, <5>2
          <6>3. i - Len(s) = j - Len(s)
            BY <4>2, <6>1, <6>2 DEF Once
          <6> QED
            BY <4>5, <6>3
        <5>3. ASSUME NEW k \in DOMAIN w, NEW n \in DOMAIN w, k \in 1 .. Len(s), n > Len(s) PROVE w[k] # w[n]
          <6>1. n - Len(s) \in 1 .. Len(o)
            BY <4>5, <5>3
          <6>2. w[n] \in P
            BY <4>5, <5>3, <6>1
          <6>3. w[k] = s[k] /\ k \in DOMAIN s
            BY <4>5, <5>3
          <6> QED
            BY <4>3, <6>2, <6>3
        <5>4. (i \in 1 .. Len(s) \/ i > Len(s)) /\ (j \in 1 .. Len(s) \/ j > Len(s))
          BY <4>5
        <5> QED
          BY <4>6, <5>1, <5>2, <5>3, <5>4
      <4> QED
        BY <3>2, <4>5, <4>6 DEF Once, w, o, P
    <3> QED
      BY <2>2, <3>1, <3>2 DEF Bulk!togglePageSelection
  <2>3. CASE Bulk(b)!ClearSelection
    BY <2>3 DEF Bulk!ClearSelection, Once
  <2>4. ASSUME NEW t \in b.tenants, Bulk(b)!DeletedElsewhere(t)
        PROVE  bulkSelected' \in Seq(b.tenants) /\ Once(bulkSelected')
    BY <1>0, <2>4 DEF Bulk!DeletedElsewhere
  <2> QED
    BY <2>1, <2>2, <2>3, <2>4
<1>4. BulkTyped(b)'
  BY <1>1, <1>2, <1>3 DEF BulkInv, BulkTyped
<1>5. NoteFits(b)'
  BY <1>1 DEF BulkInv, NoteFits
<1> QED
  BY <1>1, <1>3, <1>4, <1>5 DEF BulkInv

LEMMA BeginFits ==
  ASSUME NEW b, Bulk(b)!BulkActionsAssumption, BulkInv(b),
         NEW action \in Bulk(b)!Actions, Bulk(b)!runBulkAction(action)
  PROVE  BulkInv(b)'
<1> DEFINE q == [Bulk(b)!IdleRun EXCEPT !.at = "running", !.action = action, !.todo = bulkSelected,
                                        !.confirmed = Bulk(b)!Elems(bulkSelected)]
           n == Len(bulkSelected)
<1>0. /\ bulkSelected \in Seq(b.tenants) /\ Once(bulkSelected) /\ run \in [b.runs -> BulkRun(b)]
      /\ n \in Nat /\ DOMAIN bulkSelected = 1 .. n
  BY DEF BulkInv, BulkTyped
<1>1. PICK r \in b.runs : run' = [run EXCEPT ![r] = q]
  BY DEF Bulk!runBulkAction
<1>2. /\ UNCHANGED <<bulkExists, bulkOff, bulkList, bulkSelected>> /\ bulkNote' = Bulk(b)!NoNote
      /\ bulkError' = FALSE /\ begun < b.maxRuns /\ begun' = begun + 1
  BY DEF Bulk!runBulkAction
<1> HIDE DEF n
<1>3. /\ q.at = "running" /\ q.action = action /\ q.todo = bulkSelected
      /\ q.confirmed = Bulk(b)!Elems(bulkSelected) /\ q.failed = 0 /\ q.touched = {}
  BY IdleFits DEF BulkRun
<1>4. Bulk(b)!Elems(bulkSelected) \subseteq b.tenants
  BY <1>0 DEF Bulk!Elems
<1>5. Cardinality(Bulk(b)!Elems(bulkSelected)) = n
  BY <1>0, OnceCounts
<1>6. Cardinality({}) = 0
  BY FS_EmptySet
<1>7. q \in BulkRun(b)
  BY <1>0, <1>4, IdleFits DEF BulkRun
<1> HIDE DEF q
<1>8. RunFits(b, q)
  <2>1. q.failed + Len(q.todo) <= Cardinality(q.confirmed)
    BY <1>0, <1>3, <1>5
  <2>2. Cardinality(q.confirmed) - Len(q.todo) - q.failed <= Cardinality(q.touched)
    BY <1>0, <1>3, <1>5, <1>6
  <2> QED
    BY <1>0, <1>3, <2>1, <2>2 DEF RunFits
<1>9. run' \in [b.runs -> BulkRun(b)] /\ \A s \in b.runs : run'[s] = IF s = r THEN q ELSE run[s]
  BY <1>0, <1>1, <1>7
<1>10. \A s \in b.runs : RunFits(b, run'[s])
  BY <1>8, <1>9 DEF BulkInv
<1>11. begun' \in 0 .. b.maxRuns
  BY <1>2, TenantsAreFinite DEF BulkInv, BulkTyped
<1>12. BulkTyped(b)'
  BY <1>2, <1>9, <1>11 DEF BulkInv, BulkTyped
<1>13. NoteFits(b)'
  <2>1. Cardinality(b.tenants) \in Nat
    BY TenantsAreFinite, FS_CardinalityType
  <2> QED
    BY <1>2, <2>1 DEF NoteFits, Bulk!NoNote
<1> QED
  BY <1>0, <1>2, <1>10, <1>12, <1>13 DEF BulkInv

LEMMA RunStepFits ==
  ASSUME NEW b, Bulk(b)!BulkActionsAssumption, BulkInv(b), NEW r \in b.runs, Bulk(b)!RunStep(r)
  PROVE  BulkInv(b)'
<1>0. /\ run \in [b.runs -> BulkRun(b)] /\ run[r] \in BulkRun(b) /\ RunFits(b, run[r])
      /\ bulkExists \subseteq b.tenants /\ bulkOff \subseteq bulkExists /\ bulkList \subseteq b.tenants
  BY DEF BulkInv, BulkTyped
<1>1. ASSUME NEW p \in BulkRun(b), RunFits(b, p), run' = [run EXCEPT ![r] = p]
      PROVE  run' \in [b.runs -> BulkRun(b)] /\ \A s \in b.runs : RunFits(b, run'[s])
  <2>1. run' \in [b.runs -> BulkRun(b)] /\ \A s \in b.runs : run'[s] = IF s = r THEN p ELSE run[s]
    BY <1>0, <1>1
  <2> QED
    BY <1>1, <2>1 DEF BulkInv
<1>2. ASSUME NEW fails \in {0, 1}, NEW t, Bulk(b)!Turn(r, fails, t),
             t = {Bulk(b)!Target(r)} \/ (fails = 1 /\ t = {}),
             \/ UNCHANGED <<bulkExists, bulkOff>>
             \/ Bulk(b)!Target(r) \in bulkExists /\ Bulk(b)!Apply(run[r].action, Bulk(b)!Target(r))
      PROVE  BulkInv(b)'
  <2> DEFINE p == [run[r] EXCEPT !.todo = Tail(@), !.failed = @ + fails, !.touched = @ \cup t]
  <2>1. /\ run[r].at = "running" /\ run[r].todo # <<>> /\ run' = [run EXCEPT ![r] = p]
        /\ UNCHANGED <<bulkList, bulkSelected, bulkNote, bulkError, begun>>
    BY <1>0, <1>2 DEF Bulk!Turn, BulkRun
  <2>2. t = {Head(run[r].todo)} \/ (fails = 1 /\ t = {})
    BY <1>2 DEF Bulk!Target
  <2>3. p \in BulkRun(b) /\ RunFits(b, p)
    BY <1>0, <2>1, <2>2, TurnFits
  <2> HIDE DEF p
  <2>4. run' \in [b.runs -> BulkRun(b)] /\ \A s \in b.runs : RunFits(b, run'[s])
    BY <1>1, <2>1, <2>3
  <2>5. bulkExists' \subseteq b.tenants /\ bulkOff' \subseteq bulkExists'
    BY <1>0, <1>2 DEF Bulk!Apply
  <2>6. BulkTyped(b)'
    BY <2>1, <2>4, <2>5 DEF BulkInv, BulkTyped
  <2> QED
    BY <2>1, <2>4, <2>6 DEF BulkInv, NoteFits
<1>3. CASE Bulk(b)!Process(r)
  BY <1>2, <1>3 DEF Bulk!Process
<1>4. CASE Bulk(b)!FailTo(r)
  BY <1>2, <1>4 DEF Bulk!FailTo
<1>5. CASE Bulk(b)!LoseAnswer(r)
  BY <1>2, <1>5 DEF Bulk!LoseAnswer
<1>6. CASE Bulk(b)!Finish(r)
  <2> DEFINE p == [run[r] EXCEPT !.at = "reading"]
  <2>1. /\ run[r].at = "running" /\ run[r].todo = <<>> /\ run' = [run EXCEPT ![r] = p] /\ bulkSelected' = <<>>
        /\ UNCHANGED <<bulkExists, bulkOff, bulkList, bulkNote, bulkError, begun>>
    BY <1>0, <1>6 DEF Bulk!Finish, BulkRun
  <2>2. p \in BulkRun(b) /\ RunFits(b, p)
    BY <1>0, <2>1 DEF BulkRun, RunFits
  <2> HIDE DEF p
  <2>3. run' \in [b.runs -> BulkRun(b)] /\ \A s \in b.runs : RunFits(b, run'[s])
    BY <1>1, <2>1, <2>2
  <2>4. BulkTyped(b)'
    BY <2>1, <2>3 DEF BulkInv, BulkTyped
  <2> QED
    BY <2>1, <2>3, <2>4 DEF BulkInv, NoteFits, Once
<1>7. CASE Bulk(b)!Report(r)
  <2> DEFINE c == Cardinality(run[r].confirmed)
             d == Cardinality(run[r].touched)
             f == run[r].failed
             T == Cardinality(b.tenants)
  <2>1. /\ run[r].at = "reading" /\ bulkList' \in {bulkList, bulkExists} /\ bulkError' = (bulkError \/ f > 0)
        /\ run' = [run EXCEPT ![r] = Bulk(b)!IdleRun] /\ UNCHANGED <<bulkExists, bulkOff, bulkSelected, begun>>
    BY <1>7 DEF Bulk!Report
  <2>2. /\ bulkNote'.kind = (IF f > 0 THEN "partial" ELSE "all")
        /\ bulkNote'.success = c - f /\ bulkNote'.total = c /\ bulkNote'.done = d
    <3>1. bulkNote' = [kind |-> IF f > 0 THEN "partial" ELSE "all", success |-> c - f, total |-> c, done |-> d]
      BY <1>7, BulkCounts DEF Bulk!Report
    <3> HIDE DEF c, d, f
    <3> QED
      BY <3>1
  <2>3. Bulk(b)!IdleRun \in BulkRun(b) /\ RunFits(b, Bulk(b)!IdleRun)
    BY IdleFits
  <2>4. run' \in [b.runs -> BulkRun(b)] /\ \A s \in b.runs : RunFits(b, run'[s])
    BY <1>1, <2>1, <2>3
  <2>5. BulkTyped(b)'
    <3>1. bulkList' \subseteq b.tenants /\ bulkError' \in BOOLEAN
      BY <1>0, <2>1
    <3> QED
      BY <2>1, <2>4, <3>1 DEF BulkInv, BulkTyped
  <2>6. run[r].todo = <<>> /\ run[r].touched \in SUBSET run[r].confirmed /\ run[r].confirmed \in SUBSET b.tenants
    BY <1>0, <2>1 DEF RunFits, BulkRun
  <2>7. c \in Nat /\ d \in Nat /\ T \in Nat /\ f \in Nat /\ d <= c /\ c <= T
    <3>1. IsFiniteSet(b.tenants)
      BY TenantsAreFinite
    <3>2. IsFiniteSet(run[r].confirmed) /\ c <= T
      BY <2>6, <3>1, FS_Subset
    <3>3. IsFiniteSet(run[r].touched) /\ d <= c
      BY <2>6, <3>2, FS_Subset
    <3> QED
      BY <1>0, <3>1, <3>2, <3>3, FS_CardinalityType DEF BulkRun
  <2>8. f + 0 <= c /\ c - 0 - f <= d
    <3>1. Len(run[r].todo) = 0
      BY <2>6
    <3> QED
      BY <1>0, <3>1 DEF RunFits
  <2> HIDE DEF c, d, f, T
  <2>9. /\ c - f \in 0 .. T /\ c \in 0 .. T /\ d \in 0 .. T /\ c - f <= d /\ d <= c
        /\ ~(f > 0) => c - f = c
    BY <2>7, <2>8
  <2>10. NoteFits(b)'
    BY <2>2, <2>9 DEF NoteFits, T
  <2> QED
    BY <2>1, <2>4, <2>5, <2>10 DEF BulkInv
<1> QED
  BY <1>3, <1>4, <1>5, <1>6, <1>7 DEF Bulk!RunStep

LEMMA BulkSteps ==
  ASSUME NEW b, Bulk(b)!BulkActionsAssumption, BulkInv(b), Bulk(b)!Next
  PROVE  BulkInv(b)'
BY TickingFits, BeginFits, RunStepFits DEF Bulk!Next

LEMMA BulkStands ==
  ASSUME NEW b, BulkInv(b), UNCHANGED bulkVars
  PROVE  BulkInv(b)'
BY DEF BulkInv, BulkTyped, NoteFits, bulkVars

LEMMA BulkTells ==
  ASSUME NEW b, Bulk(b)!BulkActionsAssumption, BulkInv(b)
  PROVE  /\ Bulk(b)!TypeOK /\ Bulk(b)!TickedOnce
         /\ Bulk(b)!TouchesOnlyTheConfirmed /\ Bulk(b)!CountsOnlyWhatWasDone
<1>1. Bulk(b)!TickedOnce
  <2>1. bulkSelected \in Seq(b.tenants) /\ Once(bulkSelected)
    BY DEF BulkInv, BulkTyped
  <2> QED
    BY <2>1, OnceCounts, BulkCounts DEF Bulk!TickedOnce
<1>2. Bulk(b)!TouchesOnlyTheConfirmed
  BY DEF BulkInv, RunFits, Bulk!TouchesOnlyTheConfirmed
<1>3. Bulk(b)!CountsOnlyWhatWasDone
  BY DEF BulkInv, NoteFits, Bulk!CountsOnlyWhatWasDone
<1>4. Bulk(b)!TypeOK
  <2>1. ASSUME NEW r \in b.runs
        PROVE  /\ run[r].at \in {"idle", "running", "reading"} /\ run[r].action \in Bulk(b)!Actions
               /\ run[r].todo \in Seq(b.tenants) /\ Bulk(b)!Elems(run[r].todo) \subseteq b.tenants
               /\ run[r].failed \in 0 .. Bulk(b)!Cardinality(run[r].confirmed)
               /\ (run[r].at = "idle") = (run[r] = Bulk(b)!IdleRun)
    <3>1. run[r] \in BulkRun(b) /\ RunFits(b, run[r])
      BY DEF BulkInv, BulkTyped
    <3>2. Bulk(b)!Elems(run[r].todo) \subseteq b.tenants
      BY <3>1 DEF BulkRun, RunFits
    <3>3. run[r].failed \in 0 .. Cardinality(run[r].confirmed)
      <4>1. /\ run[r].failed \in Nat /\ Len(run[r].todo) \in Nat /\ run[r].confirmed \in SUBSET b.tenants
            /\ run[r].failed + Len(run[r].todo) <= Cardinality(run[r].confirmed)
        BY <3>1 DEF BulkRun, RunFits
      <4>2. Cardinality(run[r].confirmed) \in Nat
        BY <4>1, TenantsAreFinite, FS_Subset, FS_CardinalityType
      <4> QED
        BY <4>1, <4>2
    <3>4. (run[r].at = "idle") = (run[r] = Bulk(b)!IdleRun)
      BY <3>1 DEF RunFits, Bulk!IdleRun
    <3> QED
      BY <3>1, <3>2, <3>3, <3>4, BulkCounts DEF BulkRun
  <2>2. {bulkNote.success, bulkNote.total, bulkNote.done} \subseteq 0 .. Bulk(b)!Cardinality(b.tenants)
    BY BulkCounts DEF BulkInv, NoteFits
  <2> QED
    BY <2>1, <2>2 DEF BulkInv, BulkTyped, NoteFits, Bulk!TypeOK
<1> QED
  BY <1>1, <1>2, <1>3, <1>4

-----------------------------------------------------------------------------
(* Each page by itself, with whatever constants its assumption allows.     *)

(* What the form of a domain sends is stored as it is, and what was filled *)
(* in and not touched stays as it was, but for an interval below a minute  *)
(* (createDomainSchema, handleUpsertDomain).                               *)
THEOREM DomainsAreStoredAsShown ==
  ASSUME NEW CONSTANT b, HostForm(b)!DomainFormAssumption
  PROVE  HostForm(b)!Spec => [](HostForm(b)!SentIsStored /\ HostForm(b)!UntouchedKeepsDomain)
<1>1. HostForm(b)!Init => HostInv(b)
  BY HostStarts
<1>2. HostInv(b) /\ [HostForm(b)!Next]_(HostForm(b)!vars) => HostInv(b)'
  BY HostSteps, HostStands DEF HostForm!vars, hostVars
<1>3. HostInv(b) => HostForm(b)!SentIsStored /\ HostForm(b)!UntouchedKeepsDomain
  BY HostTells
<1> QED
  BY <1>1, <1>2, <1>3, PTL DEF HostForm!Spec

(* What the form of an endpoint accepts the server accepts and stores as   *)
(* it is shown; an endpoint that was opened and not touched is the same    *)
(* afterwards; and a masked header value never goes out under another name *)
(* (endpointDefaults, handleSubmit, mergeEndpointConfig).                  *)
THEOREM EndpointsAreStoredAsShown ==
  ASSUME NEW CONSTANT b, TargetForm(b)!EndpointFormAssumption
  PROVE  TargetForm(b)!Spec => [](/\ TargetForm(b)!AcceptedByTheServer
                                  /\ TargetForm(b)!UntouchedKeepsEndpoint
                                  /\ TargetForm(b)!SavedIsShown
                                  /\ TargetForm(b)!HeaderValueStaysWithItsName)
<1>1. TargetForm(b)!Init => TargetInv(b)
  BY TargetStarts
<1>2. TargetInv(b) /\ [TargetForm(b)!Next]_(TargetForm(b)!vars) => TargetInv(b)'
  BY TargetSteps, TargetStands DEF TargetForm!vars, targetVars
<1>3. TargetInv(b) => /\ TargetForm(b)!AcceptedByTheServer
                      /\ TargetForm(b)!UntouchedKeepsEndpoint
                      /\ TargetForm(b)!SavedIsShown
                      /\ TargetForm(b)!HeaderValueStaysWithItsName
  BY TargetTells
<1> QED
  BY <1>1, <1>2, <1>3, PTL DEF TargetForm!Spec

(* A form of a policy that nobody has changed would save it as it is, but  *)
(* for one without thresholds; and a page at rest shows the policy that    *)
(* was saved last, unless two saves of it were under way together or one   *)
(* was refused or came too early (PolicyForm, onSuccess of the saves).     *)
THEOREM PoliciesAreTheLastSaved ==
  ASSUME NEW CONSTANT b, Rules(b)!PolicyEditorAssumption
  PROVE  Rules(b)!Spec => [](Rules(b)!UntouchedKeepsPolicy /\ Rules(b)!QuietPolicyIsTheLastSaved)
<1>1. Rules(b)!Init => RuleInv(b)
  BY RuleStarts
<1>2. RuleInv(b) /\ [Rules(b)!Next]_(Rules(b)!vars) => RuleInv(b)'
  BY RuleSteps, RuleStands DEF Rules!vars, Rules!queryVars, ruleVars
<1>3. RuleInv(b) => Rules(b)!UntouchedKeepsPolicy /\ Rules(b)!QuietPolicyIsTheLastSaved
  BY RuleTells
<1> QED
  BY <1>1, <1>2, <1>3, PTL DEF Rules!Spec

(* A dashboard at rest shows the domains of the server in list and tiles,  *)
(* in whatever order saves, deletions, checks and fetches have crossed,    *)
(* and its form is filled from the domain it edits, but for what failed or *)
(* came too early or late (dashboard-page.tsx).                            *)
THEOREM DashboardIsCurrent ==
  ASSUME NEW CONSTANT b, Board(b)!DashboardAssumption
  PROVE  Board(b)!Spec => [](Board(b)!QuietPageIsCurrent /\ Board(b)!EditFormShowsItsDomain)
<1>1. Board(b)!Init => BoardInv(b)
  BY BoardStarts
<1>2. BoardInv(b) /\ [Board(b)!Next]_(Board(b)!vars) => BoardInv(b)'
  BY BoardSteps, BoardStands DEF Board!vars, Board!pageVars, boardVars
<1>3. BoardInv(b) => Board(b)!QuietPageIsCurrent /\ Board(b)!EditFormShowsItsDomain
  BY BoardTells
<1> QED
  BY <1>1, <1>2, <1>3, PTL DEF Board!Spec

(* The notice tells how the change that ended last has ended, the form     *)
(* headed as an edition was filled from its endpoint, and it closes with   *)
(* the deletion of the endpoint (notifications-page.tsx).                  *)
THEOREM EndpointFormIsOfItsEndpoint ==
  ASSUME NEW CONSTANT b, Alarms(b)!EndpointEditorAssumption
  PROVE  Alarms(b)!Spec => [](/\ Alarms(b)!NoticeIsOfTheLastEnd
                              /\ Alarms(b)!EditFormShowsItsEndpoint
                              /\ Alarms(b)!DeletedIsNotEdited)
<1>1. Alarms(b)!Init => AlarmInv(b)
  BY AlarmStarts
<1>2. AlarmInv(b) /\ [Alarms(b)!Next]_(Alarms(b)!vars) => AlarmInv(b)'
  BY AlarmSteps, AlarmStands DEF Alarms!vars, Alarms!pageVars, alarmVars
<1>3. AlarmInv(b) => /\ Alarms(b)!NoticeIsOfTheLastEnd
                     /\ Alarms(b)!EditFormShowsItsEndpoint
                     /\ Alarms(b)!DeletedIsNotEdited
  BY AlarmTells
<1> QED
  BY <1>1, <1>2, <1>3, PTL DEF Alarms!Spec

(* The tiles of the public page count its panels, those of the dashboard   *)
(* fit its list up to a change in between, and a panel is of one piece, on *)
(* every day and however many domains there are (handlePublicTenantStatus, *)
(* handleDomainSummary, DomainPanel).                                      *)
THEOREM TilesCountThePanels ==
  ASSUME NEW CONSTANT b, Status(b)!StatusPagesAssumption
  PROVE  Status(b)!Spec => [](/\ Status(b)!TilesTellOfThePanels
                              /\ Status(b)!TilesFitTheList
                              /\ Status(b)!PanelIsOfOnePiece
                              /\ Status(b)!LabelTellsTheInterval)
<1>1. Status(b)!Init => StatusInv(b)
  BY StatusStarts
<1>2. StatusInv(b) /\ [Status(b)!Next]_(Status(b)!vars) => StatusInv(b)'
  BY StatusSteps, StatusStands DEF Status!vars, statusVars
<1>3. StatusInv(b) => /\ Status(b)!TilesTellOfThePanels
                      /\ Status(b)!TilesFitTheList
                      /\ Status(b)!PanelIsOfOnePiece
                      /\ Status(b)!LabelTellsTheInterval
  BY StatusTells
<1> QED
  BY <1>1, <1>2, <1>3, PTL DEF Status!Spec

(* A list of tenants at rest has the number and the first rows of the      *)
(* filter and order it shows, on a page that exists, whose neighbours are  *)
(* offered (TenantTable of admin-page.tsx, handleListTenants).             *)
THEOREM ListFitsItsQuery ==
  ASSUME NEW CONSTANT b, List(b)!TenantListAssumption
  PROVE  List(b)!Spec => [](List(b)!QuietListFitsItsQuery /\ List(b)!LaterPagesAreLoaded /\ List(b)!NearestPagesOffered)
<1>1. List(b)!Init => ListInv(b)
  BY ListStarts
<1>2. ListInv(b) /\ [List(b)!Next]_(List(b)!vars) => ListInv(b)'
  BY ListSteps, ListStands DEF List!vars, List!bounds, listVars
<1>3. ListInv(b) => List(b)!QuietListFitsItsQuery /\ List(b)!LaterPagesAreLoaded /\ List(b)!NearestPagesOffered
  BY ListTells
<1> QED
  BY <1>1, <1>2, <1>3, PTL DEF List!Spec

(* The dialog of a tenant that waits for nothing shows the tenant as it    *)
(* is, a tenant leaves the selection with its deletion, and a password is  *)
(* set for the tenant in whose dialog it was typed, unless a deletion has  *)
(* closed that dialog (the mutations of admin-page.tsx).                   *)
THEOREM DialogIsOfItsTenant ==
  ASSUME NEW CONSTANT b, Dialogs(b)!TenantDialogsAssumption
  PROVE  Dialogs(b)!Spec => [](/\ Dialogs(b)!QuietDialogIsCurrent
                               /\ Dialogs(b)!DeletedIsDeselected
                               /\ Dialogs(b)!PasswordIsOfItsTenant)
<1>1. Dialogs(b)!Init => DialogInv(b)
  BY DialogStarts
<1>2. DialogInv(b) /\ [Dialogs(b)!Next]_(Dialogs(b)!vars) => DialogInv(b)'
  BY DialogSteps, DialogStands DEF Dialogs!vars, Dialogs!server, Dialogs!dialog, Dialogs!ends, dialogVars
<1>3. DialogInv(b) => /\ Dialogs(b)!QuietDialogIsCurrent
                      /\ Dialogs(b)!DeletedIsDeselected
                      /\ Dialogs(b)!PasswordIsOfItsTenant
  BY DialogTells
<1> QED
  BY <1>1, <1>2, <1>3, PTL DEF Dialogs!Spec

(* A bulk action touches only the tenants that were ticked when it was     *)
(* begun, each once, and counts as processed what was (runBulkAction,      *)
(* togglePageSelection).                                                   *)
THEOREM BulkTouchesTheConfirmed ==
  ASSUME NEW CONSTANT b, Bulk(b)!BulkActionsAssumption
  PROVE  Bulk(b)!Spec => [](Bulk(b)!TickedOnce /\ Bulk(b)!TouchesOnlyTheConfirmed /\ Bulk(b)!CountsOnlyWhatWasDone)
<1>1. Bulk(b)!Init => BulkInv(b)
  BY BulkStarts
<1>2. BulkInv(b) /\ [Bulk(b)!Next]_(Bulk(b)!vars) => BulkInv(b)'
  BY BulkSteps, BulkStands DEF Bulk!vars, bulkVars
<1>3. BulkInv(b) => Bulk(b)!TickedOnce /\ Bulk(b)!TouchesOnlyTheConfirmed /\ Bulk(b)!CountsOnlyWhatWasDone
  BY BulkTells
<1> QED
  BY <1>1, <1>2, <1>3, PTL DEF Bulk!Spec

-----------------------------------------------------------------------------
(* The parts together.                                                     *)
PagesInv ==
  /\ part \in Parts
  /\ part = "domain" => HostInv(DomainForms)
  /\ part = "dashboard" => BoardInv(Dashboard)
  /\ part = "endpoint" => TargetInv(EndpointForms)
  /\ part = "webhook" => TargetInv(Webhooks)
  /\ part = "policies" => RuleInv(Policies)
  /\ part = "thresholds" => RuleInv(Thresholds)
  /\ part = "endpoints" => AlarmInv(EndpointList)
  /\ part = "status" => StatusInv(StatusPage)
  /\ part = "tenants" => ListInv(ShortList)
  /\ part = "pages" => ListInv(LongList)
  /\ part = "dialogs" => DialogInv(TenantDialog)
  /\ part = "bulk" => BulkInv(BulkRuns)

(* The invariant holds at first.                                           *)
LEMMA PagesStart == Init => PagesInv
<1> SUFFICES ASSUME Init PROVE PagesInv
  OBVIOUS
<1>1. part = "domain" => HostInv(DomainForms)
  BY MCPagesValues, HostStarts DEF Init
<1>2. part = "dashboard" => BoardInv(Dashboard)
  BY MCPagesValues, BoardStarts DEF Init
<1>3. part = "endpoint" => TargetInv(EndpointForms)
  BY MCPagesValues, TargetStarts DEF Init
<1>4. part = "webhook" => TargetInv(Webhooks)
  BY MCPagesValues, TargetStarts DEF Init
<1>5. part = "policies" => RuleInv(Policies)
  BY MCPagesValues, RuleStarts DEF Init
<1>6. part = "thresholds" => RuleInv(Thresholds)
  BY MCPagesValues, RuleStarts DEF Init
<1>7. part = "endpoints" => AlarmInv(EndpointList)
  BY MCPagesValues, AlarmStarts DEF Init
<1>8. part = "status" => StatusInv(StatusPage)
  BY MCPagesValues, StatusStarts DEF Init
<1>9. part = "tenants" => ListInv(ShortList)
  BY MCPagesValues, ListStarts DEF Init
<1>10. part = "pages" => ListInv(LongList)
  BY MCPagesValues, ListStarts DEF Init
<1>11. part = "dialogs" => DialogInv(TenantDialog)
  BY MCPagesValues, DialogStarts DEF Init
<1>12. part = "bulk" => BulkInv(BulkRuns)
  BY MCPagesValues, BulkStarts DEF Init
<1>13. part \in Parts
  BY DEF Init
<1> QED
  BY <1>1, <1>2, <1>3, <1>4, <1>5, <1>6, <1>7, <1>8, <1>9, <1>10, <1>11, <1>12, <1>13 DEF PagesInv

(* Every step of a part keeps it.                                          *)
LEMMA PagesSteps == PagesInv /\ [Next]_allVars => PagesInv'
<1> SUFFICES ASSUME PagesInv, [Next]_allVars PROVE PagesInv'
  OBVIOUS
<1>0. part' = part /\ part \in Parts
  BY DEF PagesInv, Next, allVars
<1>1. CASE part = "domain"
  <2>1. HostForm(DomainForms)!Next \/ UNCHANGED hostVars
    BY <1>1 DEF Next, allVars
  <2>2. HostInv(DomainForms)'
    BY <1>1, <2>1, MCPagesValues, HostSteps, HostStands DEF PagesInv
  <2> QED
    BY <1>0, <1>1, <2>2 DEF PagesInv
<1>2. CASE part = "dashboard"
  <2>1. Board(Dashboard)!Next \/ UNCHANGED boardVars
    BY <1>2 DEF Next, allVars
  <2>2. BoardInv(Dashboard)'
    BY <1>2, <2>1, MCPagesValues, BoardSteps, BoardStands DEF PagesInv
  <2> QED
    BY <1>0, <1>2, <2>2 DEF PagesInv
<1>3. CASE part = "endpoint"
  <2>1. TargetForm(EndpointForms)!Next \/ UNCHANGED targetVars
    BY <1>3 DEF Next, allVars
  <2>2. TargetInv(EndpointForms)'
    BY <1>3, <2>1, MCPagesValues, TargetSteps, TargetStands DEF PagesInv
  <2> QED
    BY <1>0, <1>3, <2>2 DEF PagesInv
<1>4. CASE part = "webhook"
  <2>1. TargetForm(Webhooks)!Next \/ UNCHANGED targetVars
    BY <1>4 DEF Next, allVars
  <2>2. TargetInv(Webhooks)'
    BY <1>4, <2>1, MCPagesValues, TargetSteps, TargetStands DEF PagesInv
  <2> QED
    BY <1>0, <1>4, <2>2 DEF PagesInv
<1>5. CASE part = "policies"
  <2>1. Rules(Policies)!Next \/ UNCHANGED ruleVars
    BY <1>5 DEF Next, allVars
  <2>2. RuleInv(Policies)'
    BY <1>5, <2>1, MCPagesValues, RuleSteps, RuleStands DEF PagesInv
  <2> QED
    BY <1>0, <1>5, <2>2 DEF PagesInv
<1>6. CASE part = "thresholds"
  <2>1. Rules(Thresholds)!Next \/ UNCHANGED ruleVars
    BY <1>6 DEF Next, allVars
  <2>2. RuleInv(Thresholds)'
    BY <1>6, <2>1, MCPagesValues, RuleSteps, RuleStands DEF PagesInv
  <2> QED
    BY <1>0, <1>6, <2>2 DEF PagesInv
<1>7. CASE part = "endpoints"
  <2>1. Alarms(EndpointList)!Next \/ UNCHANGED alarmVars
    BY <1>7 DEF Next, allVars
  <2>2. AlarmInv(EndpointList)'
    BY <1>7, <2>1, MCPagesValues, AlarmSteps, AlarmStands DEF PagesInv
  <2> QED
    BY <1>0, <1>7, <2>2 DEF PagesInv
<1>8. CASE part = "status"
  <2>1. Status(StatusPage)!Next \/ UNCHANGED statusVars
    BY <1>8 DEF Next, allVars
  <2>2. StatusInv(StatusPage)'
    BY <1>8, <2>1, MCPagesValues, StatusSteps, StatusStands DEF PagesInv
  <2> QED
    BY <1>0, <1>8, <2>2 DEF PagesInv
<1>9. CASE part = "tenants"
  <2>1. List(ShortList)!Next \/ UNCHANGED listVars
    BY <1>9 DEF Next, allVars
  <2>2. ListInv(ShortList)'
    BY <1>9, <2>1, MCPagesValues, ListSteps, ListStands DEF PagesInv
  <2> QED
    BY <1>0, <1>9, <2>2 DEF PagesInv
<1>10. CASE part = "pages"
  <2>1. List(LongList)!Next \/ UNCHANGED listVars
    BY <1>10 DEF Next, allVars
  <2>2. ListInv(LongList)'
    BY <1>10, <2>1, MCPagesValues, ListSteps, ListStands DEF PagesInv
  <2> QED
    BY <1>0, <1>10, <2>2 DEF PagesInv
<1>11. CASE part = "dialogs"
  <2>1. Dialogs(TenantDialog)!Next \/ UNCHANGED dialogVars
    BY <1>11 DEF Next, allVars
  <2>2. DialogInv(TenantDialog)'
    BY <1>11, <2>1, MCPagesValues, DialogSteps, DialogStands DEF PagesInv
  <2> QED
    BY <1>0, <1>11, <2>2 DEF PagesInv
<1>12. CASE part = "bulk"
  <2>1. Bulk(BulkRuns)!Next \/ UNCHANGED bulkVars
    BY <1>12 DEF Next, allVars
  <2>2. BulkInv(BulkRuns)'
    BY <1>12, <2>1, MCPagesValues, BulkSteps, BulkStands DEF PagesInv
  <2> QED
    BY <1>0, <1>12, <2>2 DEF PagesInv
<1> QED
  BY <1>0, <1>1, <1>2, <1>3, <1>4, <1>5, <1>6, <1>7, <1>8, <1>9, <1>10, <1>11, <1>12 DEF Parts

(* It holds always.                                                        *)
LEMMA PagesInvHolds == Spec => []PagesInv
BY PagesStart, PagesSteps, PTL DEF Spec

(* Every part's variables keep their types.                                *)
THEOREM PagesTyped == Spec => []TypeOK
<1>1. PagesInv => TypeOK
  BY MCPagesValues, HostTells, TargetTells, RuleTells, BoardTells, AlarmTells, StatusTells, ListTells, DialogTells, BulkTells DEF PagesInv, TypeOK
<1> QED
  BY <1>1, PagesInvHolds, PTL

(* What a form of a domain, an endpoint or a policy shows is what a save   *)
(* of it stores (handleSubmit of the three forms, handleUpsertDomain,      *)
(* mergeEndpointConfig).                                                   *)
THEOREM FormsSave == Spec => []FormsSaveWhatTheyShow
<1>1. PagesInv => FormsSaveWhatTheyShow
  BY MCPagesValues, HostTells, TargetTells, RuleTells DEF PagesInv, FormsSaveWhatTheyShow
<1> QED
  BY <1>1, PagesInvHolds, PTL

(* Dashboard, policies, list and dialog of tenants show what the server    *)
(* has when they wait for nothing, however answers have crossed (onSuccess *)
(* of the mutations, the keys of the queries).                             *)
THEOREM RestingPagesAreCurrent == Spec => []QuietIsCurrent
<1>1. PagesInv => QuietIsCurrent
  BY MCPagesValues, RuleTells, BoardTells, ListTells, DialogTells DEF PagesInv, QuietIsCurrent
<1> QED
  BY <1>1, PagesInvHolds, PTL

(* What a page holds for a domain, an endpoint or a tenant is used for     *)
(* that one only (state beside the mutations in dashboard-page.tsx,        *)
(* notifications-page.tsx and admin-page.tsx).                             *)
THEOREM StateIsOfItsSubject == Spec => []HeldForItsOwn
<1>1. PagesInv => HeldForItsOwn
  BY MCPagesValues, BoardTells, AlarmTells, DialogTells DEF PagesInv, HeldForItsOwn
<1> QED
  BY <1>1, PagesInvHolds, PTL

(* Whatever runs, ticks and lists cross, a bulk action does what was       *)
(* confirmed and no more, and counts what it did (runBulkAction).          *)
THEOREM BulkDoesWhatWasConfirmed == Spec => []OnlyTheConfirmedIsDone
<1>1. PagesInv => OnlyTheConfirmedIsDone
  BY MCPagesValues, BulkTells DEF PagesInv, OnlyTheConfirmedIsDone
<1> QED
  BY <1>1, PagesInvHolds, PTL

(* The numbers of the public page and the dashboard are those of their     *)
(* lists (handlePublicTenantStatus, handleDomainSummary, DomainPanel).     *)
THEOREM CountsFitTheLists == Spec => []StatusAddsUp
<1>1. PagesInv => StatusAddsUp
  BY MCPagesValues, StatusTells DEF PagesInv, StatusAddsUp
<1> QED
  BY <1>1, PagesInvHolds, PTL
=============================================================================
