---------------------------- MODULE EndpointForm ----------------------------
(***************************************************************************)
(* The form of a notification endpoint and what the server makes of what   *)
(* it sends: the stored configuration is merged with the one sent, so that *)
(* a value that comes back masked or empty does not overwrite a secret.    *)
(***************************************************************************)
CONSTANTS
  Types,    \* the types of endpoint the select offers
  Values    \* what is typed into the fields of a configuration

Empty == ""      \* of a key that has no value
Mask  == "***"

EndpointFormAssumption ==
  /\ Types \subseteq {"email", "telegram", "webhook"}
  /\ Values \cap {Empty, Mask} = {}

Required == [type \in Types |->
  CASE type = "email"    -> {"recipient_email"}
    [] type = "telegram" -> {"bot_token", "chat_id"}
    [] type = "webhook"  -> {"url"}]

(* The inputs that are shown for a type.                                   *)
Inputs(type) ==
  Required[type] \cup IF type = "webhook" THEN {"auth_header_name", "auth_header_value"} ELSE {}

Fields == UNION {Inputs(type) : type \in Types}

(* A configuration maps every key to its value, Empty where it has none.   *)
Configs == [Fields -> Values \cup {Empty, Mask}]

VARIABLES
  stored,   \* the endpoint on the server, as the page has read it
  form,     \* the fields: name, type, and one per key of a configuration
  typed     \* history: the keys changed since the form was filled, and "name", "type"

vars == <<stored, form, typed>>

TypeOK ==
  /\ stored \in [type : Types, config : Configs]
  /\ form \in [named : BOOLEAN, type : Types, config : Configs]
  /\ typed \subseteq Fields \cup {"name", "type"}

(* Mutant: the form is filled from the masked configuration.               *)
endpointDefaultsMasked(e) ==
  [named |-> TRUE, type |-> e.type,
   config |-> [k \in Fields |-> IF e.config[k] = Empty THEN Empty ELSE Mask]]

endpointDefaults(e) == [named |-> TRUE, type |-> e.type, config |-> e.config]

(* Mutant: the button asks for no name of the chat.                        *)
ValidUnlessChat(f) == f.named /\ \A k \in Required[f.type] \ {"chat_id"} : f.config[k] # Empty

(* No validationError: the button is enabled.                              *)
Valid(f) == f.named /\ \A k \in Required[f.type] : f.config[k] # Empty

(* Mutant: the value of the header is left out with its name unchanged.    *)
PayloadNameOnly(f) ==
  [k \in Fields |-> IF k \in Inputs(f.type) \ {"auth_header_value"} THEN f.config[k] ELSE Empty]

(* The payload: the keys of the type, and the header only if it has a name *)
Payload(f) ==
  [k \in Fields |->
     IF /\ k \in Inputs(f.type)
        /\ k = "auth_header_value" => f.config["auth_header_name"] # Empty
     THEN f.config[k] ELSE Empty]

-----------------------------------------------------------------------------
(* The server.                                                             *)

(* MaskConfig: the keys that are masked, by the type the endpoint has.     *)
Masked(e) == [k \in Fields |->
  IF e.config[k] # Empty /\ k \in Inputs(e.type) \ {"auth_header_name"} THEN Mask ELSE e.config[k]]

(* An empty value, or one equal to the mask, keeps what is stored.         *)
Kept(k, sent, e) ==
  IF (sent[k] = Empty \/ sent[k] = Masked(e)[k]) /\ e.config[k] # Empty THEN e.config[k] ELSE sent[k]

(* Mutant: the value of the header is kept whatever the header is called.  *)
mergeEndpointConfigAnyHeader(type, sent, e) ==
  [k \in Fields |->
     CASE k \in Required[type] -> Kept(k, sent, e)
       [] k = "auth_header_value" /\ type = "webhook" ->
            IF sent["auth_header_name"] = Empty THEN Empty ELSE Kept(k, sent, e)
       [] OTHER -> sent[k]]

mergeEndpointConfig(type, sent, e) ==
  [k \in Fields |->
     CASE k \in Required[type] -> Kept(k, sent, e)
       [] k = "auth_header_value" /\ type = "webhook" ->
            IF sent["auth_header_name"] = Empty THEN Empty
            ELSE IF sent["auth_header_name"] = e.config["auth_header_name"] THEN Kept(k, sent, e)
            ELSE sent[k]
       [] OTHER -> sent[k]]

Stored(f) == [type |-> f.type, config |-> mergeEndpointConfig(f.type, Payload(f), stored)]

validateEndpointConfig(e) == \A k \in Required[e.type] : e.config[k] # Empty

-----------------------------------------------------------------------------
(* An endpoint is opened in the form.  It has been stored by a creation,   *)
(* which merges with nothing and drops empty values.                       *)
Stores(type, c) ==
  /\ \A k \in Fields : c[k] # Empty => k \in Inputs(type)
  /\ \A k \in Required[type] : c[k] # Empty
  /\ c["auth_header_value"] # Empty => c["auth_header_name"] # Empty

Init ==
  /\ \E type \in Types, c \in [Fields -> Values \cup {Empty}] :
       Stores(type, c) /\ stored = [type |-> type, config |-> c]
  /\ form = endpointDefaults(stored)
  /\ typed = {}

TypeName ==
  /\ form' = [form EXCEPT !.named = ~@]
  /\ typed' = typed \cup {"name"}
  /\ UNCHANGED stored

ChooseType(type) ==
  /\ type # form.type
  /\ form' = [form EXCEPT !.type = type]
  /\ typed' = typed \cup {"type"}
  /\ UNCHANGED stored

TypeValue(k, v) ==
  /\ k \in Inputs(form.type)
  /\ v # form.config[k]
  /\ form' = [form EXCEPT !.config[k] = v]
  /\ typed' = typed \cup {k}
  /\ UNCHANGED stored

(* The update is stored, read again and opened again.                      *)
Save ==
  /\ Valid(form)
  /\ validateEndpointConfig(Stored(form))
  /\ stored' = Stored(form)
  /\ form' = endpointDefaults(Stored(form))
  /\ typed' = {}

Next ==
  \/ TypeName
  \/ \E type \in Types : ChooseType(type)
  \/ \E k \in Fields, v \in Values \cup {Empty, Mask} : TypeValue(k, v)
  \/ Save

Spec == Init /\ [][Next]_vars

-----------------------------------------------------------------------------
(* Saving an endpoint that was opened and not touched changes nothing, and *)
(* nothing it is sent with is lost by changing the type back and forth     *)
(* (endpointDefaults, handleSubmit, mergeEndpointConfig).                  *)
UntouchedKeepsEndpoint ==
  (typed \subseteq {"type"} /\ form.type = stored.type /\ form.named)
  => Valid(form) /\ Stored(form) = stored

(* What the form accepts the server accepts.                               *)
AcceptedByTheServer == Valid(form) => validateEndpointConfig(Stored(form))

(* What is stored is what the form shows; except that a header's value     *)
(* cannot be taken away from its header, and that the mask, typed, stands  *)
(* for the value it hides.                                                 *)
SavedIsShown ==
  Valid(form) =>
    \A k \in Inputs(form.type) :
      \/ Stored(form).config[k] = form.config[k]
      \/ form.config[k] = Mask /\ Stored(form).config[k] = stored.config[k]
      \/ /\ k = "auth_header_value"
         /\ \/ form.config["auth_header_name"] = Empty /\ Stored(form).config[k] = Empty
            \/ form.config["auth_header_name"] = stored.config["auth_header_name"] /\ form.config[k] = Empty

(* A secret header value never goes out under the name of another header   *)
(* unless it was typed again.                                              *)
HeaderValueStaysWithItsName ==
  LET s == Stored(form) IN
  Valid(form) /\ form.type = "webhook" /\ form.config["auth_header_value"] \in {Empty, Mask}
  /\ form.config["auth_header_name"] # stored.config["auth_header_name"]
  => s.config["auth_header_value"] \in {Empty, Mask}
=============================================================================
