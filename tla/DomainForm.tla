----------------------------- MODULE DomainForm -----------------------------
(***************************************************************************)
(* The form in which a domain is added or edited: what its fields hold,    *)
(* what it accepts, what it sends, what the server makes of that, and what *)
(* the late end of a submission does to a form that has moved on.          *)
(***************************************************************************)
EXTENDS Integers

CONSTANTS
  Intervals,  \* the check intervals in seconds that stored domains have
  Typed       \* the interval and port numbers that are typed

(* What a number field holds: the number it reads as, or one of these.     *)
Blank      == -2
Fractional == -1   \* a number, but no integer

DomainFormAssumption == Intervals \subseteq Nat \ {0} /\ Typed \subseteq Nat

MaxPort == 65535
Day     == 86400
Presets == {1 * Day, 3 * Day, 7 * Day, 14 * Day, 30 * Day}
Custom  == 0       \* the last option of the select

Empty    == ""
Slash    == "/"            \* what the server's normalisation leaves empty
Unusable == "no address"
Hosts    == {Empty, Slash, "host"}
Targets  == {Empty, "address", Unusable}

(* ApiDomain, as far as the form shows it.  New: no domain is edited.      *)
Domains == [hostname : {"host"}, port : {443}, target_ip : {Empty, "address"},
            enabled : BOOLEAN, interval : Intervals]
New     == [none |-> TRUE]

VARIABLES
  domain,   \* the domain the page passes
  form,     \* the fields
  typed,    \* history: fields were changed since the form was last filled
  sending   \* the submission whose answer is awaited: whether the server can take it, and
            \* whether no domain was passed when it was made; or Nothing

vars == <<domain, form, typed, sending>>

Fields  == [hostname : Hosts, port : Typed \cup {443, Blank, Fractional}, target_ip : Targets,
            enabled : BOOLEAN, preset : Presets \cup {Custom},
            custom : Typed \cup Intervals \cup {Blank, Fractional}]
Nothing == [none |-> TRUE]

TypeOK ==
  /\ domain \in Domains \cup {New}
  /\ form \in Fields
  /\ typed \in BOOLEAN
  /\ sending = Nothing \/ sending \in [legal : BOOLEAN, fresh : BOOLEAN]

(* Mutant: every interval below the longest one counts as a preset.       *)
presetForIntervalRounded(seconds) ==
  IF seconds <= 30 * Day
  THEN [preset |-> CHOOSE p \in Presets : p >= seconds /\ \A q \in Presets : q >= seconds => p <= q,
        custom |-> Blank]
  ELSE [preset |-> Custom, custom |-> seconds]

presetForInterval(seconds) ==
  IF seconds \in Presets THEN [preset |-> seconds, custom |-> Blank]
                         ELSE [preset |-> Custom,  custom |-> seconds]

defaultValues(d) ==
  IF d = New
  THEN [hostname |-> Empty, port |-> 443, target_ip |-> Empty, enabled |-> TRUE,
        preset |-> Day, custom |-> Blank]
  ELSE [hostname |-> d.hostname, port |-> d.port, target_ip |-> d.target_ip, enabled |-> d.enabled,
        preset |-> presetForInterval(d.interval).preset,
        custom |-> presetForInterval(d.interval).custom]

-----------------------------------------------------------------------------
(* The schema: what is refused with a message at the field, and what the   *)
(* accepted fields are turned into.                                        *)

(* Mutant: the lowest port is 0.                                           *)
AcceptsPortZero(f) ==
  /\ f.hostname # Empty
  /\ f.port \in 0 .. MaxPort
  /\ IF f.custom = Blank THEN f.preset # Custom ELSE f.custom >= 60

Accepts(f) ==
  /\ f.hostname # Empty
  /\ f.port \in 1 .. MaxPort
  /\ IF f.custom = Blank THEN f.preset # Custom ELSE f.custom >= 60

Sent(f) ==
  [hostname |-> f.hostname, port |-> f.port, target_ip |-> f.target_ip, enabled |-> f.enabled,
   interval |-> IF f.custom # Blank THEN f.custom ELSE f.preset]

(* The server's checks of a domain, and what it stores of one it takes: an *)
(* insertion leaves a false `enabled` to the default of its column.        *)
Legal(p) ==
  /\ p.hostname \notin {Empty, Slash}
  /\ p.port \in 0 .. MaxPort
  /\ p.target_ip # Unusable

Stored(p, fresh) ==
  [p EXCEPT !.port = IF p.port = 0 THEN 443 ELSE p.port,
            !.enabled = p.enabled \/ fresh,
            !.interval = IF p.interval <= 0 THEN Day ELSE p.interval]

-----------------------------------------------------------------------------
Init ==
  /\ domain = New
  /\ form = defaultValues(New)
  /\ typed = FALSE
  /\ sending = Nothing

(* The page passes another domain; the effect fills the form.              *)
Show(d) ==
  /\ d # domain
  /\ domain' = d
  /\ form' = defaultValues(d)
  /\ typed' = FALSE
  /\ UNCHANGED sending

Type(f) ==
  /\ form' = f
  /\ typed' = TRUE
  /\ UNCHANGED <<domain, sending>>

(* Something in the custom field turns the select to "custom".             *)
TypeCustom(n) ==
  /\ n # form.custom
  /\ Type([form EXCEPT !.custom = n, !.preset = IF n = Blank THEN @ ELSE Custom])

TypeField ==
  \/ \E h \in Hosts : Type([form EXCEPT !.hostname = h])
  \/ \E n \in Typed \cup {Blank, Fractional} : Type([form EXCEPT !.port = n])
  \/ \E a \in Targets : Type([form EXCEPT !.target_ip = a])
  \/ \E b \in BOOLEAN : Type([form EXCEPT !.enabled = b])
  \/ \E p \in Presets \cup {Custom} : Type([form EXCEPT !.preset = p])

Submit ==
  /\ sending = Nothing
  /\ Accepts(form)
  /\ sending' = [legal |-> Legal(Sent(form)), fresh |-> domain = New]
  /\ UNCHANGED <<domain, form, typed>>

(* A submission ends well: one made when no domain was passed empties the  *)
(* form, whatever it shows by now.  One that ends badly leaves the form.   *)
Succeed ==
  /\ sending # Nothing
  /\ sending.legal
  /\ sending' = Nothing
  /\ IF sending.fresh
     THEN form' = defaultValues(New) /\ typed' = FALSE
     ELSE UNCHANGED <<form, typed>>
  /\ UNCHANGED domain

Fail ==
  /\ sending # Nothing
  /\ sending' = Nothing
  /\ UNCHANGED <<domain, form, typed>>

Next ==
  \/ \E d \in Domains \cup {New} : Show(d)
  \/ \E n \in Typed \cup {Blank, Fractional} : TypeCustom(n)
  \/ TypeField \/ Submit \/ Succeed \/ Fail

Spec == Init /\ [][Next]_vars

-----------------------------------------------------------------------------
(* What the form sends the server stores as it is, if it takes it: no      *)
(* default of the server's replaces a value that was typed; but a new      *)
(* domain is enabled, whatever was chosen (createDomainSchema,             *)
(* handleUpsertDomain).                                                    *)
SentIsStored ==
  Accepts(form) =>
    \/ Stored(Sent(form), domain = New) = Sent(form)
    \/ domain = New /\ ~form.enabled /\ Stored(Sent(form), TRUE) = [Sent(form) EXCEPT !.enabled = TRUE]

(* A form that was filled from a domain and not touched since is accepted  *)
(* and sends the domain as it is, unless its interval is one only the API  *)
(* takes, below a minute (presetForInterval, defaultValues, transform); or *)
(* it has been emptied by the end of an earlier submission.                *)
UntouchedKeepsDomain ==
  domain # New /\ ~typed /\ form.hostname # Empty =>
    /\ Accepts(form) <=> domain.interval >= 60
    /\ Accepts(form) => Sent(form) = domain
=============================================================================
