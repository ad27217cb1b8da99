------------------------------- MODULE Texts -------------------------------
(***************************************************************************)
(* The languages of the application: which one a tab opens with, what the  *)
(* tabs of a browser write to the storage they share, and in which words   *)
(* the answer of the server is told.  A text is a record of its language   *)
(* and of what it says.  A language tag is its first two letters, whether  *)
(* its first part goes on after them, its other parts, and whether it      *)
(* holds capitals.                                                         *)
(***************************************************************************)
EXTENDS Naturals, Sequences

CONSTANTS
  Tabs,
  Offered,     \* languages the readers pick
  Spoken,      \* what navigator.languages may be: sequences of tags
  EndpointNames,   \* sequences of signs
  MaxOpened,   \* bound: tabs opened or loaded anew
  MaxChoices,  \* bound: languages picked
  MaxCalls     \* bound: requests

VARIABLES
  stored,    \* localStorage: the tag under LOCALE_STORAGE_KEY, or NoTag
  spoken,    \* navigator.languages
  tab,       \* [Tabs -> language, root element, text on the page]
  call,      \* [Tabs -> the request under way]
  choice,    \* history: the language picked last, or NoLocale
  loading,   \* history: tabs that were being loaded when it was picked
  opened, choices, calls

vars == <<stored, spoken, tab, call, choice, loading, opened, choices, calls>>

-----------------------------------------------------------------------------
(* Languages.                                                              *)

Tag(stem, more, rest, capitals) == [stem |-> stem, more |-> more, rest |-> rest, capitals |-> capitals]
NoTag    == Tag("", FALSE, "", FALSE)
NoLocale == "none"

localeOptions == {"zh-CN", "zh-TW", "en", "es", "fr", "de", "ru", "ar", "pt", "ja", "ko", "hi", "it"}

TextsAssumption == Offered \subseteq localeOptions /\ {MaxOpened, MaxChoices, MaxCalls} \subseteq Nat

(* The value of a language as it is written to the storage.                *)
Written(locale) ==
  CASE locale = "zh-CN" -> Tag("zh", FALSE, "cn", TRUE)
    [] locale = "zh-TW" -> Tag("zh", FALSE, "tw", TRUE)
    [] OTHER -> Tag(locale, FALSE, "", FALSE)

(* Mutant: capitals are taken as they come.                                *)
normalizeLocaleAsWritten(tag) ==
  CASE tag.stem = "zh" /\ tag.rest \in {"", "cn", "sg", "hans"} /\ ~tag.capitals -> "zh-CN"
    [] tag.stem = "zh" /\ tag.rest \in {"tw", "hk", "mo", "hant"} /\ ~tag.capitals -> "zh-TW"
    [] tag.stem \in localeOptions /\ ~tag.capitals -> tag.stem
    [] OTHER -> "en"

(* The first two letters decide, whatever follows; but not for Chinese.    *)
normalizeLocale(tag) ==
  CASE tag.stem = "zh" /\ ~tag.more /\ tag.rest \in {"", "cn", "sg", "hans"} -> "zh-CN"
    [] tag.stem = "zh" /\ ~tag.more /\ tag.rest \in {"tw", "hk", "mo", "hant"} -> "zh-TW"
    [] tag.stem \in localeOptions -> tag.stem
    [] OTHER -> "en"

(* Only the first of the languages of the browser is looked at.            *)
detectLocale ==
  IF stored # NoTag THEN normalizeLocale(stored)
  ELSE IF spoken = <<>> THEN "en" ELSE normalizeLocale(spoken[1])

(* The keys of the dictionaries: texts all of them have, and texts that    *)
(* came later, which only English and Chinese have.                        *)
Keys == {"common", "later"}
enMessages == Keys
messages == [l \in localeOptions |-> IF l \in {"en", "zh-CN", "zh-TW"} THEN Keys ELSE {"common"}]

Text(l, s) == [language |-> l, says |-> s]
NoText     == Text(NoLocale, "")

t(locale, key) ==
  IF key \in messages[locale] THEN Text(locale, key)
  ELSE IF key \in enMessages THEN Text("en", key) ELSE Text(NoLocale, key)

(* replaceAll reads the dollar signs of what it puts in: two of them stand *)
(* for one, and one with an ampersand for the placeholder it replaces.     *)
interpolate(value) ==
  LET After[i \in 1 .. Len(value) + 2] ==
        IF i > Len(value) THEN <<>>
        ELSE IF i < Len(value) /\ value[i] = "$" /\ value[i + 1] = "$" THEN <<"$">> \o After[i + 2]
        ELSE IF i < Len(value) /\ value[i] = "$" /\ value[i + 1] = "&" THEN <<"{{name}}">> \o After[i + 2]
        ELSE <<value[i]>> \o After[i + 1]
  IN After[1]

-----------------------------------------------------------------------------
(* The reasons the server gives, and what the pages make of them.          *)

NoStatus == 0
Reason(s, n)   == [says |-> s, status |-> n]
Reasons(ss, n) == {Reason(s, n) : s \in ss}

(* Texts of helpers.go and of the handlers, with the status they come by.  *)
Unauthorized == {"invalid credentials", "invalid token", "token expired", "invalid access token"}
Forbidden    == {"registration disabled", "email not verified", "admin access required", "tenant is disabled"}
Missing      == {"endpoint not found"}
Taken        == {"resource already exists", "domain already exists"}
Invalid      == {"username must be at least 3 characters", "invalid request body", "name is required",
                 "target ip must be a valid IPv4 or IPv6 address", "invalid endpoint config"}
Refusals ==
  Reasons(Unauthorized, 401) \cup Reasons(Forbidden, 403) \cup Reasons(Missing, 404) \cup Reasons(Taken, 409)
    \cup Reasons(Invalid, 400)

(* Texts the client has no entry for, and texts of the libraries.          *)
Unlisted == {"invalid domain id", "invalid endpoint id", "public status title must be at most 160 characters",
             "could not create unique tenant slug", "smtp: 535"}
Broken   == {"record not found"}
Gateway  == {"Bad Gateway"}
TooMany  == {"Too Many Requests"}
TooLarge == {""}
Unnamed ==
  Reasons(Unlisted, 400) \cup Reasons(Broken, 500) \cup Reasons(Gateway, 502) \cup Reasons(TooMany, 429) \cup Reasons(TooLarge, 413)
Unanswered == Reasons({"Failed to fetch"}, NoStatus)

messageToCode ==
  {"invalid credentials", "registration disabled", "email not verified", "invalid token", "token expired",
   "resource already exists", "username must be at least 3 characters", "invalid request body", "invalid access token",
   "admin access required", "tenant is disabled", "endpoint not found", "domain already exists", "name is required",
   "target ip must be a valid ipv4 or ipv6 address", "invalid endpoint config"}

(* Mutant: the text is looked up as it is.                                 *)
normalizeMessageTrimmed(message) == message

(* One of the texts has capitals.                                          *)
normalizeMessage(message) ==
  IF message = "target ip must be a valid IPv4 or IPv6 address"
  THEN "target ip must be a valid ipv4 or ipv6 address" ELSE message

codeFromStatus(status) ==
  CASE status >= 500 -> "serverError"
    [] status = 409 -> "conflict"
    [] status = 404 -> "notFound"
    [] status = 403 -> "forbidden"
    [] status = 401 -> "unauthorized"
    [] status = 400 -> "badRequest"
    [] OTHER -> "no code"

codeFromReason(reason) ==
  IF normalizeMessage(reason.says) \in messageToCode THEN normalizeMessage(reason.says)
  ELSE codeFromStatus(reason.status)

(* Every dictionary of the errors has all of the codes.                    *)
getLocalizedApiErrorMessage(locale, reason, fallback) ==
  IF codeFromReason(reason) = "no code" THEN fallback ELSE Text(locale, codeFromReason(reason))

-----------------------------------------------------------------------------
Silent == [told |-> NoText, reason |-> Reason("", NoStatus), name |-> <<>>, of |-> <<>>, since |-> FALSE]
Closed == [at |-> "closed", locale |-> "en", dir |-> "ltr", error |-> Silent, notice |-> Silent]
Idle   == [at |-> "idle", locale |-> "en", key |-> "common", since |-> FALSE]

TypeOK ==
  /\ normalizeLocale(stored) \in localeOptions
  /\ \A p \in Tabs :
       /\ tab[p].at \in {"closed", "loading", "open"}
       /\ tab[p].locale \in localeOptions
       /\ tab[p].at = "open" => tab[p].dir = IF tab[p].locale = "ar" THEN "rtl" ELSE "ltr"
       /\ tab[p].error.told = NoText \/ tab[p].notice.told = NoText
       /\ call[p].at \in {"idle", "asked"} /\ call[p].locale \in localeOptions
       /\ call[p].at = "asked" => tab[p].at = "open"
  /\ choice \in localeOptions \cup {NoLocale} /\ loading \subseteq Tabs
  /\ opened \in 0 .. MaxOpened /\ choices \in 0 .. MaxChoices /\ calls \in 0 .. MaxCalls

Init ==
  /\ stored = NoTag /\ spoken \in Spoken
  /\ tab = [p \in Tabs |-> Closed] /\ call = [p \in Tabs |-> Idle]
  /\ choice = NoLocale /\ loading = {}
  /\ opened = 0 /\ choices = 0 /\ calls = 0

(* useState: the first rendering.  The element of the page is index.html's. *)
Load(p) ==
  /\ opened < MaxOpened
  /\ opened' = opened + 1
  /\ tab' = [tab EXCEPT ![p] = [Closed EXCEPT !.at = "loading", !.locale = detectLocale]]
  /\ call' = [call EXCEPT ![p] = Idle]
  /\ UNCHANGED <<stored, spoken, choice, loading, choices, calls>>

Shown(page, locale) == [page EXCEPT !.locale = locale, !.dir = IF locale = "ar" THEN "rtl" ELSE "ltr"]

(* The effect after the first rendering writes too.                        *)
Mounted(p) ==
  /\ tab[p].at = "loading"
  /\ stored' = Written(tab[p].locale)
  /\ tab' = [tab EXCEPT ![p] = [Shown(@, tab[p].locale) EXCEPT !.at = "open"]]
  /\ UNCHANGED <<spoken, call, choice, loading, opened, choices, calls>>

(* The rendering after a change of the select, with its effect.  A text on *)
(* the page is kept as it was told.                                        *)
SetLocale(p, l) ==
  /\ choices < MaxChoices
  /\ choices' = choices + 1
  /\ tab[p].at = "open" /\ l # tab[p].locale
  /\ stored' = Written(l)
  /\ tab' = [tab EXCEPT ![p] = [Shown(@, l) EXCEPT !.error.since = TRUE, !.notice.since = TRUE]]
  /\ call' = [call EXCEPT ![p].since = TRUE]
  /\ choice' = l
  /\ loading' = {q \in Tabs : tab[q].at = "loading"}
  /\ UNCHANGED <<spoken, opened, calls>>

(* A handler of a page begins: it has t and getApiErrorMessage of the      *)
(* rendering it was made in.                                               *)
Ask(p, key) ==
  /\ calls < MaxCalls
  /\ calls' = calls + 1
  /\ tab[p].at = "open" /\ call[p].at = "idle"
  /\ call' = [call EXCEPT ![p] = [at |-> "asked", locale |-> tab[p].locale, key |-> key, since |-> FALSE]]
  /\ tab' = [tab EXCEPT ![p].error = Silent, ![p].notice = Silent]
  /\ UNCHANGED <<stored, spoken, choice, loading, opened, choices>>

(* Mutant: the text of the rendering in which the call began.              *)
SucceededAsAsked(p, n) ==
  /\ call[p].at = "asked"
  /\ tab' = [tab EXCEPT ![p].notice = [Silent EXCEPT !.told = t(call[p].locale, "later"), !.name = interpolate(n), !.of = n]]
  /\ call' = [call EXCEPT ![p] = Idle]
  /\ UNCHANGED <<stored, spoken, choice, loading, opened, choices, calls>>

(* onSuccess of the mutation is the one of the last rendering.             *)
Succeeded(p, n) ==
  /\ call[p].at = "asked"
  /\ tab' = [tab EXCEPT ![p].notice = [Silent EXCEPT !.told = t(tab[p].locale, "later"), !.name = interpolate(n), !.of = n]]
  /\ call' = [call EXCEPT ![p] = Idle]
  /\ UNCHANGED <<stored, spoken, choice, loading, opened, choices, calls>>

(* The catch of the handler is the one of the rendering it began in.       *)
Refused(p, reason) ==
  /\ call[p].at = "asked"
  /\ tab' = [tab EXCEPT ![p].error =
               [Silent EXCEPT !.told = getLocalizedApiErrorMessage(call[p].locale, reason, t(call[p].locale, call[p].key)),
                              !.reason = reason, !.since = call[p].since]]
  /\ call' = [call EXCEPT ![p] = Idle]
  /\ UNCHANGED <<stored, spoken, choice, loading, opened, choices, calls>>

Next ==
  \E p \in Tabs :
    \/ Load(p)
    \/ Mounted(p)
    \/ \E l \in Offered : SetLocale(p, l)
    \/ \E key \in Keys : Ask(p, key)
    \/ \E n \in EndpointNames : Succeeded(p, n)
    \/ \E reason \in Refusals \cup Unnamed \cup Unanswered : Refused(p, reason)

Spec == Init /\ [][Next]_vars

-----------------------------------------------------------------------------
(* The next tab opens in the language picked last in any tab.  What a      *)
(* first rendering found is written back after it, so only a tab that was  *)
(* between the two when the language was picked can undo the choice        *)
(* (i18n.tsx: detectLocale, normalizeLocale, effect of I18nProvider).      *)
ChoiceSurvives ==
  choice # NoLocale /\ loading = {} => detectLocale = choice

(* A text is in the language of its page, as long as no other was picked   *)
(* since: English stands in for a text only the dictionary of its language *)
(* lacks, and a key is never told (i18n.tsx: t; the pages' handlers).      *)
TextsAreInThePagesLanguage ==
  \A p \in Tabs : \A m \in {tab[p].error, tab[p].notice} :
    m.told # NoText =>
      /\ m.told.language \in localeOptions
      /\ ~m.since => \/ m.told.language = tab[p].locale
                     \/ m.told.language = "en" /\ m.told.says \notin messages[tab[p].locale]

(* A refusal is told by the reason the server gave for it; only a text     *)
(* the client does not know is told by its status, and the page's own text *)
(* is for what has neither (api-error.ts: codeFromReason).                 *)
RefusalsAreNamed ==
  \A p \in Tabs : LET m == tab[p].error IN
    m.told # NoText =>
      /\ m.reason \in Refusals => m.told.says = normalizeMessage(m.reason.says)
      /\ m.told.says \in Keys => m.reason \in Unanswered \/ m.reason.status \in {413, 429}
=============================================================================
