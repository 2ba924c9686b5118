--------------------------- MODULE Actions_proofs ---------------------------
(***************************************************************************)
(* Proofs about the way of one action: imported from a document, matched   *)
(* to a request of the proxy, called by the HTTP or the command adapter,   *)
(* its output filtered; for any documents, manifests and outputs, any      *)
(* outcome of the requests and of the program, and any limits.  Last, of   *)
(* the file that tells an agent of the actions and of their short names,   *)
(* whose proofs use the same lemmas on numbers and on what is selected of  *)
(* a sequence.                                                             *)
(***************************************************************************)
EXTENDS OpenApiImport, HttpCalls, CommandCalls, ProxyRequests, OutputFilter, InstructionFile, Aliases,
        FiniteSetTheorems, FunctionTheorems, SequenceTheorems, TLAPS

(***************************************************************************)
(* The HTTP adapter's call.  What it was configured with never changes.    *)
(***************************************************************************)
\* The statuses a manifest may list.
Listings == SUBSET {404, 429, 503}
CallRows ==
  [auth : AuthTypes, optional : BOOLEAN, creds : {"nil", "empty", "value"}, attempts : Nat,
   listed : Listings, style : {"none", "cursor", "offset"}, pages : Nat,
   limit : 1..2, cap : 1..2, items : Nat, list : BOOLEAN]
Results == Transport \union {Broken} \union Statuses

\* Why a request may be sent again after r came of it.
Cause(r) ==
  \/ r \in Transport
  \/ r = 429 /\ 429 \in call.listed
  \/ r \in {500, 503} /\ call.listed \intersect {500, 503} # {}

\* Every attempt but the last had a cause to be repeated; while another is due,
\* the last had one too and the attempts are not used up.  The service acted at
\* most once at each.
Repeats ==
  /\ log \in Seq(Results) /\ acted \in Nat
  /\ acted <= Len(log) /\ Len(log) <= Attempts
  /\ \A i \in 1..(Len(log) - 1) : Cause(log[i])
  /\ pc \in {"attempt", "wait"} => Len(log) < Attempts /\ \A i \in 1..Len(log) : Cause(log[i])

\* Requests are made only with a credential the type can use, or without one
\* where that is allowed.
Carried ==
  /\ pc \in {"attempt", "wait"} => ~Refused(call.auth)
  /\ \A places \in sent :
       call.auth # "none" => \/ \E p \in {"header", "query", "body"} : places = {p}
                             \/ places = {} /\ call.optional /\ call.creds = "nil"

CallInv ==
  /\ call \in CallRows
  /\ pc \in {"page", "attempt", "wait", "done"}
  /\ Repeats /\ Carried

\* The next page is asked from where the items gathered end.
SweepInv ==
  /\ call \in CallRows
  /\ pc \in {"page", "attempt", "wait", "done"}
  /\ page \in Nat /\ next \in Nat /\ got \in Seq(Nat)
  /\ next = Len(got)
  /\ Paginated /\ call.list => Len(got) <= call.items
  /\ Len(got) > 0 => Paginated /\ call.list
  /\ pc # "done" => outcome = "running" /\ Len(got) <= MaxTotal
  /\ pc \in {"attempt", "wait"} /\ Paginated => page < PageLimit(call.pages)
  /\ PagesAreOneSweep

\* A row with another value in one of its fields is a row.
LEMMA AuthTyped == ASSUME NEW r \in CallRows, NEW x \in AuthTypes PROVE [r EXCEPT !.auth = x] \in CallRows
  BY DEF CallRows

LEMMA OptionalTyped == ASSUME NEW r \in CallRows, NEW x \in BOOLEAN PROVE [r EXCEPT !.optional = x] \in CallRows
  BY DEF CallRows

LEMMA CredsTyped == ASSUME NEW r \in CallRows, NEW x \in {"nil", "empty", "value"} PROVE [r EXCEPT !.creds = x] \in CallRows
  BY DEF CallRows

LEMMA AttemptsTyped == ASSUME NEW r \in CallRows, NEW x \in Nat PROVE [r EXCEPT !.attempts = x] \in CallRows
  BY DEF CallRows

LEMMA ListedTyped == ASSUME NEW r \in CallRows, NEW x \in Listings PROVE [r EXCEPT !.listed = x] \in CallRows
  BY DEF CallRows

LEMMA StyleTyped == ASSUME NEW r \in CallRows, NEW x \in {"none", "cursor", "offset"} PROVE [r EXCEPT !.style = x] \in CallRows
  BY DEF CallRows

LEMMA PagesTyped == ASSUME NEW r \in CallRows, NEW x \in Nat PROVE [r EXCEPT !.pages = x] \in CallRows
  BY DEF CallRows

LEMMA LimitTyped == ASSUME NEW r \in CallRows, NEW x \in 1..2 PROVE [r EXCEPT !.limit = x] \in CallRows
  BY DEF CallRows

LEMMA CapTyped == ASSUME NEW r \in CallRows, NEW x \in 1..2 PROVE [r EXCEPT !.cap = x] \in CallRows
  BY DEF CallRows

LEMMA ItemsTyped == ASSUME NEW r \in CallRows, NEW x \in Nat PROVE [r EXCEPT !.items = x] \in CallRows
  BY DEF CallRows

LEMMA ListTyped == ASSUME NEW r \in CallRows, NEW x \in BOOLEAN PROVE [r EXCEPT !.list = x] \in CallRows
  BY DEF CallRows

LEMMA CallsTyped == Calls \subseteq CallRows
<1>1. Plain \in CallRows
  BY DEF Plain, CallRows, AuthTypes, Listings
<1>2. ASSUME NEW a \in AuthTypes, NEW o \in BOOLEAN, NEW c \in {"nil", "empty", "value"}
      PROVE  [Plain EXCEPT !.auth = a, !.optional = o, !.creds = c] \in CallRows
  <2>1. PICK r1 \in CallRows : r1 = [Plain EXCEPT !.auth = a]
    BY <1>1, AuthTyped
  <2>2. PICK r2 \in CallRows : r2 = [r1 EXCEPT !.optional = o]
    BY <2>1, OptionalTyped
  <2>3. PICK r3 \in CallRows : r3 = [r2 EXCEPT !.creds = c]
    BY <2>2, CredsTyped
  <2> QED
    BY <2>1, <2>2, <2>3
<1>3. ASSUME NEW n \in Nat, NEW l \in Listings
      PROVE  [Plain EXCEPT !.attempts = n, !.listed = l] \in CallRows
  <2>1. \A x \in Nat : [Plain EXCEPT !.attempts = x] \in CallRows
    BY <1>1, AttemptsTyped
  <2>2. PICK r \in CallRows : r = [Plain EXCEPT !.attempts = n]
    BY <2>1
  <2>3. [r EXCEPT !.listed = l] \in CallRows
    BY <2>2, ListedTyped
  <2> QED
    BY <2>2, <2>3
<1>4. ASSUME NEW s \in {"cursor", "offset"}, NEW m \in Nat, NEW k \in 1..2, NEW c \in 1..2,
             NEW n \in Nat, NEW b \in BOOLEAN
      PROVE  [Plain EXCEPT !.attempts = 2, !.style = s, !.pages = m, !.limit = k, !.cap = c,
                           !.items = n, !.list = b] \in CallRows
  <2>1. PICK r1 \in CallRows : r1 = [Plain EXCEPT !.attempts = 2]
    BY <1>1, AttemptsTyped
  <2>2. PICK r2 \in CallRows : r2 = [r1 EXCEPT !.style = s]
    BY <2>1, StyleTyped
  <2>3. PICK r3 \in CallRows : r3 = [r2 EXCEPT !.pages = m]
    BY <2>2, PagesTyped
  <2>4. PICK r4 \in CallRows : r4 = [r3 EXCEPT !.limit = k]
    BY <2>3, LimitTyped
  <2>5. PICK r5 \in CallRows : r5 = [r4 EXCEPT !.cap = c]
    BY <2>4, CapTyped
  <2>6. PICK r6 \in CallRows : r6 = [r5 EXCEPT !.items = n]
    BY <2>5, ItemsTyped
  <2>7. PICK r7 \in CallRows : r7 = [r6 EXCEPT !.list = b]
    BY <2>6, ListTyped
  <2>8. r3 = [Plain EXCEPT !.attempts = 2, !.style = s, !.pages = m]
    BY <2>1, <2>2, <2>3
  <2>9. r7 = [r3 EXCEPT !.limit = k, !.cap = c, !.items = n, !.list = b]
    BY <2>4, <2>5, <2>6, <2>7
  <2> QED
    BY <2>7, <2>8, <2>9
<1>5. ASSUME NEW m \in {0, 2}, NEW p \in {0, 1, 3} PROVE EffectivePages(m, p) \in Nat
  BY DEF EffectivePages
<1>6. 0..MaxAttempts \subseteq Nat /\ 0..Items \subseteq Nat
  BY HttpAssumption
<1>7. ASSUME NEW m \in {0, 2}, NEW p \in {0, 1, 3}, NEW s \in {"cursor", "offset"},
             NEW k \in 1..2, NEW c \in 1..2, NEW n \in 0..Items, NEW b \in BOOLEAN
      PROVE  WithPages(s, m, p, k, c, n, b) \in CallRows
  <2>1. EffectivePages(m, p) \in Nat /\ n \in Nat
    BY <1>5, <1>6
  <2> QED
    BY <1>4, <2>1 DEF WithPages
<1>8. ASSUME NEW n \in 0..MaxAttempts, NEW l \in Listings
      PROVE  WithRetries(n, l) \in CallRows
  <2>1. n \in Nat
    BY <1>6
  <2> QED
    BY <1>3, <2>1 DEF WithRetries
<1>9. \A a \in AuthTypes, o \in BOOLEAN, c \in {"nil", "empty", "value"} :
        WithCredentials(a, o, c) \in CallRows
  BY <1>2 DEF WithCredentials
<1> QED
  BY <1>7, <1>8, <1>9 DEF Calls, Listings

LEMMA CallInvInit == HttpInit => CallInv
  BY CallsTyped DEF HttpInit, CallInv, Repeats, Carried, Attempts, CallRows

\* What a retried status says of the manifest.
LEMMA RetriedHaveCause ==
  ASSUME call \in CallRows, NEW r \in Statuses, ShouldRetry(r)
  PROVE  Cause(r)
<1>1. call.listed \subseteq {404, 429, 503}
  BY DEF CallRows, Listings
<1>2. \/ r = 429 /\ 429 \in call.listed
      \/ r >= 500 /\ \E s \in call.listed : s >= 500
  <2> DEFINE b == 429 \in call.listed
             c == \E s \in call.listed : s >= 500
  <2>1. b \in BOOLEAN /\ c \in BOOLEAN /\ Switches = [on429 |-> b, on5xx |-> c]
    BY DEF Switches, RetrySwitches
  <2> HIDE DEF b, c
  <2>3. Switches.on429 = b /\ Switches.on5xx = c
    BY <2>1
  <2>4. (r = 429 /\ Switches.on429) \/ (r >= 500 /\ Switches.on5xx)
    BY DEF ShouldRetry
  <2>2. (r = 429 /\ b) \/ (r >= 500 /\ c)
    BY <2>3, <2>4, Zenon
  <2> QED
    BY <2>2 DEF b, c
<1> QED
  BY <1>1, <1>2 DEF Cause, Statuses

LEMMA CallInvStep == ASSUME CallInv, [HttpNext]_httpVars PROVE CallInv'
<1>1. CASE BeginPage
  <2>1. /\ UNCHANGED <<call, sent>>
        /\ \/ pc' = "done" /\ UNCHANGED <<log, acted>>
           \/ /\ log' = <<>> /\ acted' = 0
              /\ pc' = "done" \/ (pc' = "attempt" /\ ~Refused(call.auth))
    <3>1. CASE Refused(call.auth)
      <4>1. \/ /\ pc' = "done" /\ UNCHANGED <<log, acted>>
            \/ Finish("credential") /\ log' = <<>> /\ acted' = 0
        BY <1>1, <3>1 DEF BeginPage, Finish
      <4> QED
        BY <1>1, <4>1 DEF BeginPage, Finish
    <3>2. CASE ~Refused(call.auth)
      BY <1>1, <3>2 DEF BeginPage, Finish
    <3> QED
      BY <3>1, <3>2
  <2>2. <<>> \in Seq(Results) /\ Len(<<>>) = 0 /\ Attempts \in Nat /\ Attempts > 0
    BY DEF CallInv, Attempts, CallRows
  <2>3. CASE pc' = "done" /\ UNCHANGED <<log, acted>>
    BY <2>1, <2>3 DEF CallInv, Repeats, Cause, Attempts, Carried
  <2>4. CASE log' = <<>> /\ acted' = 0
    BY <2>1, <2>2, <2>4 DEF CallInv, Repeats, Cause, Attempts, Carried, Refused
  <2> QED
    BY <2>1, <2>3, <2>4
<1>2. CASE Pause
  BY <1>2 DEF Pause, Finish, CallInv, Repeats, Carried, Attempts, CallRows, Cause, Refused
<1>3. CASE HttpContextEnds \/ UNCHANGED httpVars
  BY <1>3 DEF HttpContextEnds, httpVars, CallInv, Repeats, Carried, Attempts, CallRows, Cause, Refused
<1>4. ASSUME NEW r \in Results, NEW acts \in BOOLEAN, Attempt(r, acts) PROVE CallInv'
  <2>1. /\ pc = "attempt" /\ call' = call /\ call \in CallRows
        /\ log' = Append(log, r) /\ sent' = sent \union {Places}
        /\ acted' = IF acts THEN acted + 1 ELSE acted
    BY <1>4 DEF Attempt, CallInv
  <2>2. /\ log' \in Seq(Results) /\ Len(log') = Len(log) + 1
        /\ \A i \in 1..Len(log) : log'[i] = log[i]
        /\ log'[Len(log')] = r
    BY <2>1 DEF CallInv, Repeats
  <2>3. \/ pc' = "done" \/ pc' = "page"
        \/ pc' = "wait" /\ Len(log') < Attempts /\ Cause(r)
    BY <1>4, <2>1, RetriedHaveCause DEF Attempt, TakePage, Finish, Cause
  <2>4. Repeats'
    BY <2>1, <2>2, <2>3, SMTT(20) DEF CallInv, Repeats, Attempts, Cause, CallRows
  <2>5. Carried'
    BY <2>1, <2>3 DEF CallInv, Carried, Refused, Places, Injector, CallRows
  <2> QED
    BY <2>1, <2>3, <2>4, <2>5 DEF CallInv
<1> QED
  BY <1>1, <1>2, <1>3, <1>4 DEF HttpNext, Results

\* A request is sent again only when no response came or the manifest's retry
\* switches name its status, no more than max_attempts times, and with its
\* credential each time, for any settings and whatever comes of each attempt
\* (executeSingle, shouldRetry, injectHeaders).
THEOREM RetriesAlwaysHaveCause == HttpSpec => []RetriesHaveCause
<1>1. CallInv => RetriesHaveCause
  BY DEF CallInv, Repeats, Carried, RetriesHaveCause, Attempts, CallRows, Cause
<1> QED
  BY <1>1, CallInvInit, CallInvStep, PTL DEF HttpSpec

LEMMA SweepInvInit == HttpInit => SweepInv
  BY CallsTyped, HttpAssumption
  DEF HttpInit, SweepInv, PagesAreOneSweep, CallRows, PageLimit, DefaultPages, Paginated

\* The items of a page follow those gathered.
LEMMA ServedFollow ==
  ASSUME call \in CallRows, next \in Nat, next <= call.items
  PROVE  LET s == Served
         IN  /\ s \in Seq(Nat) /\ Len(s) \in Nat
             /\ \A i \in 1..Len(s) : s[i] = next + i
             /\ Len(s) <= call.limit /\ next + Len(s) <= call.items
             /\ Len(s) = call.limit \/ Len(s) = call.cap \/ next + Len(s) = call.items
             /\ Len(s) < call.limit => call.cap < call.limit \/ next + Len(s) = call.items
<1> DEFINE size == IF call.cap < call.limit THEN call.cap ELSE call.limit
           last == IF next + size > call.items THEN call.items ELSE next + size
<1>1. size \in Nat /\ last \in Nat /\ next <= last /\ last <= call.items
      /\ last - next <= call.limit /\ last - next \in Nat
  BY DEF CallRows
<1>2. Served = [i \in 1..(last - next) |-> next + i]
  BY DEF Served
<1>3. Served \in Seq(Nat) /\ Len(Served) = last - next
  <2>1. PICK n \in Nat : n = last - next
    BY <1>1
  <2>2. \A i \in 1..n : next + i \in Nat
    OBVIOUS
  <2> HIDE DEF last, size
  <2> QED
    BY <1>2, <2>1, <2>2
<1>4. /\ size = call.limit \/ size = call.cap
      /\ size < call.limit => call.cap < call.limit
      /\ last - next = size \/ last = call.items
  BY <1>1 DEF CallRows
<1>5. PICK n \in Nat : n = last - next /\ next + n = last
  BY <1>1
<1>6. \A i \in 1..Len(Served) : Served[i] = next + i
  BY <1>2, <1>3
<1> HIDE DEF last, size
<1>7. /\ Len(Served) <= call.limit /\ next + Len(Served) <= call.items
      /\ Len(Served) = call.limit \/ Len(Served) = call.cap \/ next + Len(Served) = call.items
      /\ Len(Served) < call.limit => call.cap < call.limit \/ next + Len(Served) = call.items
  BY <1>1, <1>3, <1>4, <1>5
<1> QED
  BY <1>3, <1>5, <1>6, <1>7

LEMMA SweepInvStep == ASSUME SweepInv, [HttpNext]_httpVars PROVE SweepInv'
<1>1. CASE BeginPage
  <2>1. PageLimit(call.pages) \in Nat
    BY HttpAssumption DEF SweepInv, CallRows, PageLimit, DefaultPages
  <2>2. /\ UNCHANGED <<call, page, next, got>> /\ pc = "page"
        /\ \/ pc' = "done" /\ (outcome' = "ok" => page >= PageLimit(call.pages))
           \/ /\ pc' = "attempt" /\ UNCHANGED outcome
              /\ Paginated => ~(page >= PageLimit(call.pages))
    BY <1>1 DEF BeginPage, Finish
  <2> QED
    BY <2>1, <2>2 DEF SweepInv, PagesAreOneSweep, Paginated, PageLimit, DefaultPages
<1>2. CASE Pause
  BY <1>2 DEF Pause, Finish, SweepInv, PagesAreOneSweep, Paginated
<1>3. CASE HttpContextEnds \/ UNCHANGED httpVars
  BY <1>3 DEF HttpContextEnds, httpVars, SweepInv, PagesAreOneSweep, Paginated
<1>4. ASSUME NEW r \in Results, NEW acts \in BOOLEAN, Attempt(r, acts) PROVE SweepInv'
  <2>1. pc = "attempt" /\ call' = call
    BY <1>4 DEF Attempt
  <2>2. CASE UNCHANGED <<page, next, got>> /\ pc' \in {"wait", "done"}
             /\ (pc' = "wait" => UNCHANGED outcome) /\ (outcome' = "ok" => ~Paginated \/ ~call.list)
    BY <2>1, <2>2 DEF SweepInv, PagesAreOneSweep, Paginated
  <2>3. CASE TakePage /\ Paginated /\ call.list
    <3> DEFINE s == Served
    <3>1. /\ s \in Seq(Nat) /\ Len(s) \in Nat
          /\ \A i \in 1..Len(s) : s[i] = next + i
          /\ Len(s) <= call.limit /\ next + Len(s) <= call.items
          /\ Len(s) < call.limit => call.cap < call.limit \/ next + Len(s) = call.items
      BY <2>3, ServedFollow DEF SweepInv
    <3>2. page' = page + 1 /\ got' = got \o s /\ next' = next + Len(s)
      BY <2>3 DEF TakePage
    <3>3. /\ got' \in Seq(Nat) /\ Len(got') = Len(got) + Len(s)
          /\ \A i \in 1..Len(got') : got'[i] = IF i <= Len(got) THEN got[i] ELSE s[i - Len(got)]
      <4> HIDE DEF s
      <4> QED
        BY <3>1, <3>2 DEF SweepInv
    <3>4. got' = [i \in 1..Len(got') |-> i]
      <4>1. \A i \in 1..Len(got') : got'[i] = i
        <5>1. next = Len(got) /\ Len(got) \in Nat /\ \A i \in 1..Len(got) : got[i] = i
          BY DEF SweepInv, PagesAreOneSweep
        <5>2. ASSUME NEW i \in 1..Len(got') PROVE got'[i] = i
          <6> DEFINE n == Len(got)
                     m == Len(s)
          <6>1. n \in Nat /\ m \in Nat /\ i \in 1..(n + m) /\ next = n
            BY <3>1, <3>3, <5>1
          <6>2. i <= n => got'[i] = got[i] /\ got[i] = i
            BY <3>3, <5>1, <6>1
          <6>3. ~(i <= n) => got'[i] = s[i - n] /\ i - n \in 1..m
            BY <3>3, <6>1
          <6>4. \A j \in 1..m : s[j] = n + j
            BY <3>1, <6>1
          <6> HIDE DEF n, m, s
          <6>5. ~(i <= n) => got'[i] = n + (i - n)
            BY <6>3, <6>4
          <6> QED
            BY <6>1, <6>2, <6>5
        <5> QED
          BY <5>2
      <4> QED
        BY <3>3, <4>1
    <3>5. IF Len(got') > MaxTotal THEN pc' = "done" /\ outcome' = "too_many_items"
          ELSE IF MorePages THEN pc' = "page" /\ outcome' = outcome
          ELSE pc' = "done" /\ outcome' = "ok"
      BY <2>3 DEF TakePage, Finish
    <3>6. ~MorePages => Len(got') = call.items \/ (call.style = "offset" /\ call.cap < call.limit)
      <4>1. call.style = "cursor" \/ call.style = "offset"
        BY <2>3 DEF SweepInv, CallRows, Paginated
      <4>2. next = Len(got) /\ Len(got) \in Nat /\ call.items \in Nat /\ call.limit \in Nat
        BY DEF SweepInv, CallRows
      <4>3. ~MorePages => \/ call.style = "cursor" /\ ~(next + Len(s) < call.items)
                          \/ call.style = "offset" /\ ~(Len(s) >= call.limit)
        BY <4>1 DEF MorePages
      <4>4. /\ Len(s) \in Nat /\ next + Len(s) <= call.items
            /\ Len(s) < call.limit => call.cap < call.limit \/ next + Len(s) = call.items
        BY <3>1
      <4>5. Len(got') = next + Len(s)
        BY <3>3, <4>2
      <4> HIDE DEF s
      <4> QED
        BY <4>2, <4>3, <4>4, <4>5
    <3>7. page < PageLimit(call.pages)
      BY <2>1, <2>3 DEF SweepInv
    <3> HIDE DEF s
    <3>8. /\ Len(got') <= MaxTotal + call.limit /\ page' <= PageLimit(call.pages)
          /\ next' = Len(got') /\ next' \in Nat /\ page' \in Nat /\ Len(got') <= call.items
      <4>1. PageLimit(call.pages) \in Nat /\ PageLimit(call.pages)' = PageLimit(call.pages)
        BY <2>1, HttpAssumption DEF SweepInv, CallRows, PageLimit, DefaultPages
      <4>2. /\ next = Len(got) /\ Len(got) \in Nat /\ call.items \in Nat /\ call.limit \in Nat
            /\ page \in Nat /\ MaxTotal \in Nat /\ Len(got) <= MaxTotal
        BY <2>1, HttpAssumption DEF SweepInv, CallRows
      <4> QED
        BY <2>1, <3>1, <3>2, <3>3, <3>7, <4>1, <4>2
    <3>9. PagesAreOneSweep'
      BY <2>1, <3>4, <3>5, <3>6, <3>8 DEF SweepInv, PagesAreOneSweep, Paginated
    <3>10. Paginated' /\ call'.list /\ Len(got') <= call'.items
      BY <2>1, <2>3, <3>8 DEF Paginated
    <3>11. /\ pc' \in {"page", "done"}
           /\ pc' # "done" => outcome' = "running" /\ Len(got') <= MaxTotal
      <4>1. Len(got') \in Nat /\ MaxTotal \in Nat
        BY <3>3, HttpAssumption
      <4> QED
        BY <2>1, <3>5, <4>1 DEF SweepInv
    <3> QED
      BY <2>1, <3>3, <3>8, <3>9, <3>10, <3>11 DEF SweepInv
  <2>4. \/ /\ UNCHANGED <<page, next, got>> /\ pc' \in {"wait", "done"}
           /\ pc' = "wait" => UNCHANGED outcome
           /\ outcome' = "ok" => ~Paginated \/ ~call.list
        \/ TakePage /\ Paginated /\ call.list
    BY <1>4, <2>1, SMTT(20) DEF Attempt, TakePage, Finish, SweepInv
  <2> QED
    BY <2>2, <2>3, <2>4
<1> QED
  BY <1>1, <1>2, <1>3, <1>4 DEF HttpNext, Results

\* The items a call has gathered are the service's own from the first on, none twice
\* and none passed over, and all of them when it ended before its page limit, for
\* any number of items and any limits (executeWithPagination).
THEOREM PagesStayOneSweep == HttpSpec => []PagesAreOneSweep
<1>1. SweepInv => PagesAreOneSweep
  BY DEF SweepInv
<1> QED
  BY <1>1, SweepInvInit, SweepInvStep, PTL DEF HttpSpec

-----------------------------------------------------------------------------
(***************************************************************************)
(* Induction, of sets of numbers.                                          *)
(***************************************************************************)
LEMMA LeastNumber ==
  ASSUME NEW S \in SUBSET Nat, S # {}
  PROVE  \E n \in S : \A m \in S : n <= m
<1> DEFINE T == {0..n : n \in S}
<1>1. T \subseteq FiniteSubsetsOf(Nat) /\ T # {}
  <2>1. \A n \in S : 0..n \in SUBSET Nat /\ IsFiniteSet(0..n)
    BY FS_Interval
  <2> QED
    BY <2>1 DEF FiniteSubsetsOf
<1>2. PICK x \in T : \A y \in T : ~ (<<y, x>> \in StrictSubsetOrdering(Nat))
  <2>1. IsWellFoundedOn(StrictSubsetOrdering(Nat), FiniteSubsetsOf(Nat))
    BY FS_StrictSubsetOrderingWellFounded
  <2> HIDE DEF T
  <2> QED
    BY <1>1, <2>1, WFMin
<1>3. PICK n \in S : x = 0..n
  BY <1>2
<1>4. ASSUME NEW m \in S, ~(n <= m) PROVE FALSE
  <2>1. 0..m \subseteq 0..n /\ 0..m # 0..n
    BY <1>4
  <2>2. <<0..m, 0..n>> \in StrictSubsetOrdering(Nat)
    BY <2>1 DEF StrictSubsetOrdering
  <2> QED
    BY <1>2, <1>3, <2>2
<1> QED
  BY <1>4

LEMMA NumbersByInduction ==
  ASSUME NEW S, 0 \in S, \A n \in Nat : n \in S => n + 1 \in S
  PROVE  Nat \subseteq S
<1>1. SUFFICES ASSUME Nat \ S # {} PROVE FALSE
  OBVIOUS
<1>2. PICK n \in Nat \ S : \A m \in Nat \ S : n <= m
  BY <1>1, LeastNumber
<1>3. n # 0 /\ n - 1 \in Nat /\ n - 1 \notin Nat \ S
  BY <1>2
<1> QED
  BY <1>2, <1>3

(***************************************************************************)
(* What is selected.                                                       *)
(***************************************************************************)
\* The recursive definition defines a function, for a prefix of any length.
Chooses(f, n, s, S) ==
  f = [i \in 0..n |-> IF i = 0 THEN <<>>
                      ELSE IF s[i] \in S THEN Append(f[i - 1], s[i]) ELSE f[i - 1]]

LEMMA SelectionsExist ==
  ASSUME NEW s, NEW S PROVE \A n \in Nat : \E f : Chooses(f, n, s, S)
<1> DEFINE N == {n \in Nat : \E f : Chooses(f, n, s, S)}
<1>1. 0 \in N
  <2> DEFINE f == [i \in 0..0 |-> <<>>]
  <2>1. Chooses(f, 0, s, S)
    BY DEF Chooses
  <2> QED
    BY <2>1
<1>2. ASSUME NEW n \in Nat, n \in N PROVE n + 1 \in N
  <2>1. PICK f : Chooses(f, n, s, S)
    BY <1>2
  <2> DEFINE g == [i \in 0..(n + 1) |->
                     IF i = n + 1 THEN IF s[i] \in S THEN Append(f[n], s[i]) ELSE f[n] ELSE f[i]]
  <2>2. \A i \in 0..n : f[i] = IF i = 0 THEN <<>>
                               ELSE IF s[i] \in S THEN Append(f[i - 1], s[i]) ELSE f[i - 1]
    BY <2>1 DEF Chooses
  <2>3. \A i \in 0..(n + 1) :
          g[i] = IF i = 0 THEN <<>>
                 ELSE IF s[i] \in S THEN Append(g[i - 1], s[i]) ELSE g[i - 1]
    BY <2>2
  <2>4. Chooses(g, n + 1, s, S)
    BY <2>3 DEF Chooses
  <2> HIDE DEF g
  <2>5. \E h : Chooses(h, n + 1, s, S)
    BY <2>4
  <2> QED
    BY <2>5
<1> HIDE DEF N
<1>3. Nat \subseteq N
  BY <1>1, <1>2, NumbersByInduction
<1> QED
  BY <1>3 DEF N

LEMMA SelectionsUnfold ==
  ASSUME NEW T, NEW s \in Seq(T), NEW S
  PROVE  Chooses(Selections(s, S), Len(s), s, S)
<1>1. \E f : Chooses(f, Len(s), s, S)
  <2>1. Len(s) \in Nat
    OBVIOUS
  <2> QED
    BY <2>1, SelectionsExist
<1>2. Selections(s, S) = CHOOSE f : Chooses(f, Len(s), s, S)
  BY Zenon DEF Selections, Chooses
<1> QED
  BY <1>1, <1>2

\* What r holds of a prefix of s: where its elements stand in s, in their order,
\* and that none that lies in S is missing.
PicksAt(at, m, r, n, s, S) ==
  /\ at \in [1..m -> 1..n]
  /\ \A k \in 1..m : r[k] = s[at[k]] /\ s[at[k]] \in S
  /\ \A j, k \in 1..m : j < k => at[j] < at[k]
  /\ \A i \in 1..n : s[i] \in S => \E k \in 1..m : at[k] = i

Picks(r, n, s, S) == \E at : PicksAt(at, Len(r), r, n, s, S)

LEMMA PicksNone == ASSUME NEW s, NEW S PROVE Picks(<<>>, 0, s, S)
<1> DEFINE none == [k \in 1..0 |-> 0]
<1>1. Len(<<>>) = 0 /\ none \in [1..0 -> 1..0]
  OBVIOUS
<1>2. \A k \in 1..0 : FALSE
  OBVIOUS
<1>3. PicksAt(none, 0, <<>>, 0, s, S)
  BY <1>1, <1>2 DEF PicksAt
<1> HIDE DEF none
<1> QED
  BY <1>1, <1>3 DEF Picks

LEMMA PicksSame ==
  ASSUME NEW r, NEW s, NEW S, NEW n \in Nat, Picks(r, n, s, S), s[n + 1] \notin S
  PROVE  Picks(r, n + 1, s, S)
<1>1. PICK at : PicksAt(at, Len(r), r, n, s, S)
  BY DEF Picks
<1>2. PicksAt(at, Len(r), r, n + 1, s, S)
  <2>1. at \in [1..Len(r) -> 1..(n + 1)]
    BY <1>1 DEF PicksAt
  <2>2. ASSUME NEW i \in 1..(n + 1), s[i] \in S PROVE \E k \in 1..Len(r) : at[k] = i
    <3>1. i \in 1..n
      BY <2>2
    <3> QED
      BY <1>1, <2>2, <3>1 DEF PicksAt
  <2> QED
    BY <1>1, <2>1, <2>2 DEF PicksAt
<1> QED
  BY <1>2 DEF Picks

LEMMA PicksMore ==
  ASSUME NEW T, NEW r \in Seq(T), NEW s, NEW S, NEW n \in Nat, Picks(r, n, s, S), s[n + 1] \in S,
         s[n + 1] \in T
  PROVE  Append(r, s[n + 1]) \in Seq(T) /\ Picks(Append(r, s[n + 1]), n + 1, s, S)
<1>1. PICK at : PicksAt(at, Len(r), r, n, s, S)
  BY DEF Picks
<1>2. PICK m \in Nat : m = Len(r)
  OBVIOUS
<1>0. /\ at \in [1..m -> 1..n]
      /\ \A k \in 1..m : r[k] = s[at[k]] /\ s[at[k]] \in S
      /\ \A j, k \in 1..m : j < k => at[j] < at[k]
      /\ \A i \in 1..n : s[i] \in S => \E k \in 1..m : at[k] = i
  BY <1>1, <1>2 DEF PicksAt
<1> DEFINE more == [k \in 1..(m + 1) |-> IF k = m + 1 THEN n + 1 ELSE at[k]]
           q == Append(r, s[n + 1])
<1>3. q \in Seq(T) /\ Len(q) = m + 1 /\ q[m + 1] = s[n + 1] /\ \A k \in 1..m : q[k] = r[k]
  BY <1>2
<1>4. /\ more \in [1..(m + 1) -> 1..(n + 1)] /\ more[m + 1] = n + 1
      /\ \A k \in 1..m : more[k] = at[k] /\ at[k] \in 1..n
  <2>1. at \in [1..m -> 1..n]
    BY <1>0
  <2>2. \A k \in 1..(m + 1) : (IF k = m + 1 THEN n + 1 ELSE at[k]) \in 1..(n + 1)
    BY <2>1
  <2> QED
    BY <2>1, <2>2
<1>5. \A k \in 1..(m + 1) : k = m + 1 \/ k \in 1..m
  OBVIOUS
<1> HIDE DEF more, q
<1>6. \A k \in 1..(m + 1) : q[k] = s[more[k]] /\ s[more[k]] \in S
  BY <1>0, <1>2, <1>3, <1>4, <1>5
<1>7. ASSUME NEW j \in 1..(m + 1), NEW k \in 1..(m + 1), j < k PROVE more[j] < more[k]
  <2>1. j \in 1..m
    BY <1>7
  <2>2. CASE k \in 1..m
    BY <1>0, <1>4, <1>7, <2>1, <2>2
  <2>3. CASE k = m + 1
    BY <1>4, <2>1, <2>3
  <2> QED
    BY <1>5, <2>2, <2>3
<1>8. ASSUME NEW i \in 1..(n + 1), s[i] \in S PROVE \E k \in 1..(m + 1) : more[k] = i
  <2>1. CASE i = n + 1
    BY <1>4, <2>1
  <2>2. CASE i \in 1..n
    <3>1. PICK k \in 1..m : at[k] = i
      BY <1>0, <1>8, <2>2
    <3>2. k \in 1..(m + 1) /\ more[k] = i
      BY <1>4, <3>1
    <3> QED
      BY <3>2
  <2> QED
    BY <2>1, <2>2
<1>9. PicksAt(more, m + 1, q, n + 1, s, S)
  BY <1>4, <1>6, <1>7, <1>8 DEF PicksAt
<1>10. Picks(q, n + 1, s, S)
  BY <1>3, <1>9 DEF Picks
<1> QED
  BY <1>3, <1>10 DEF q

LEMMA SelectedInOrder ==
  ASSUME NEW T, NEW s \in Seq(T), NEW S
  PROVE  Selected(s, S) \in Seq(T) /\ Picks(Selected(s, S), Len(s), s, S)
<1> DEFINE f == Selections(s, S)
<1>1. /\ f[0] = <<>>
      /\ \A i \in 1..Len(s) : f[i] = IF s[i] \in S THEN Append(f[i - 1], s[i]) ELSE f[i - 1]
  <2>1. f = [i \in 0..Len(s) |-> IF i = 0 THEN <<>>
                                 ELSE IF s[i] \in S THEN Append(f[i - 1], s[i]) ELSE f[i - 1]]
    BY SelectionsUnfold DEF Chooses
  <2>2. PICK n \in Nat : n = Len(s)
    OBVIOUS
  <2>3. \A i \in 1..n : i \in 0..n /\ i # 0
    OBVIOUS
  <2>4. 0 \in 0..n
    OBVIOUS
  <2> HIDE DEF f
  <2> QED
    BY <2>1, <2>2, <2>3, <2>4
<1> HIDE DEF f
<1> DEFINE N == {n \in Nat : n <= Len(s) => f[n] \in Seq(T) /\ Picks(f[n], n, s, S)}
<1>2. 0 \in N
  <2>1. <<>> \in Seq(T)
    OBVIOUS
  <2> QED
    BY <1>1, <2>1, PicksNone
<1>3. ASSUME NEW n \in Nat, n \in N PROVE n + 1 \in N
  <2>1. SUFFICES ASSUME n + 1 <= Len(s) PROVE f[n + 1] \in Seq(T) /\ Picks(f[n + 1], n + 1, s, S)
    OBVIOUS
  <2>2. f[n] \in Seq(T) /\ Picks(f[n], n, s, S) /\ s[n + 1] \in T
    BY <1>3, <2>1
  <2>3. f[n + 1] = IF s[n + 1] \in S THEN Append(f[n], s[n + 1]) ELSE f[n]
    BY <1>1, <2>1
  <2> QED
    BY <2>2, <2>3, PicksSame, PicksMore
<1> HIDE DEF N
<1>4. Nat \subseteq N
  BY <1>2, <1>3, NumbersByInduction
<1>5. Len(s) \in N
  BY <1>4
<1> QED
  BY <1>5 DEF N, f, Selected

\* As sets: nothing else, nothing missing, nothing twice.
LEMMA SelectedIsSet ==
  ASSUME NEW T, NEW s \in Seq(T), NEW S
  PROVE  /\ Selected(s, S) \in Seq(T)
         /\ ToSet(Selected(s, S)) = ToSet(s) \intersect S
         /\ IsInjective(s) => IsInjective(Selected(s, S))
<1> DEFINE r == Selected(s, S)
<1>1. r \in Seq(T) /\ \E at : PicksAt(at, Len(r), r, Len(s), s, S)
  BY SelectedInOrder DEF Picks
<1> HIDE DEF r
<1>2. PICK at : PicksAt(at, Len(r), r, Len(s), s, S)
  BY <1>1
<1>3. PICK m \in Nat, n \in Nat : m = Len(r) /\ n = Len(s) /\ DOMAIN r = 1..m /\ DOMAIN s = 1..n
  BY <1>1
<1>4. /\ at \in [1..m -> 1..n]
      /\ \A k \in 1..m : r[k] = s[at[k]] /\ s[at[k]] \in S
      /\ \A j, k \in 1..m : j < k => at[j] < at[k]
      /\ \A i \in 1..n : s[i] \in S => \E k \in 1..m : at[k] = i
  BY <1>2, <1>3 DEF PicksAt
<1>5. ToSet(r) = ToSet(s) \intersect S
  <2>1. ASSUME NEW x \in ToSet(r) PROVE x \in ToSet(s) \intersect S
    <3>1. PICK k \in 1..m : x = r[k]
      BY <1>3 DEF ToSet
    <3> QED
      BY <1>3, <1>4, <3>1 DEF ToSet
  <2>2. ASSUME NEW x \in ToSet(s) \intersect S PROVE x \in ToSet(r)
    <3>1. PICK i \in 1..n : x = s[i]
      BY <1>3 DEF ToSet
    <3>2. PICK k \in 1..m : at[k] = i
      BY <1>4, <3>1
    <3> QED
      BY <1>3, <1>4, <3>1, <3>2 DEF ToSet
  <2> QED
    BY <2>1, <2>2
<1>6. ASSUME IsInjective(s), NEW j \in 1..m, NEW k \in 1..m, r[j] = r[k] PROVE j = k
  <2>1. at[j] = at[k]
    <3>1. at[j] \in DOMAIN s /\ at[k] \in DOMAIN s /\ s[at[j]] = s[at[k]]
      BY <1>3, <1>4, <1>6
    <3> QED
      BY <1>6, <3>1 DEF IsInjective
  <2>2. ~(at[j] < at[k]) /\ ~(at[k] < at[j])
    <3>1. at[j] \in Int /\ at[k] \in Int
      BY <1>4
    <3> QED
      BY <2>1, <3>1
  <2> QED
    BY <1>4, <2>2
<1> QED
  BY <1>1, <1>3, <1>5, <1>6 DEF IsInjective, r

LEMMA JoinedIsSet ==
  ASSUME NEW T, NEW a \in Seq(T), NEW b \in Seq(T)
  PROVE  /\ a \o b \in Seq(T) /\ Len(a \o b) = Len(a) + Len(b)
         /\ \A i \in 1..Len(a) : (a \o b)[i] = a[i]
         /\ \A i \in 1..(Len(a) + Len(b)) : i <= Len(a) \/ (a \o b)[i] \in ToSet(b)
         /\ ToSet(a \o b) = ToSet(a) \union ToSet(b)
         /\ IsInjective(a) /\ IsInjective(b) /\ ToSet(a) \intersect ToSet(b) = {}
              => IsInjective(a \o b)
<1>0. PICK c : c = a \o b
  OBVIOUS
<1>1. PICK m \in Nat, n \in Nat : m = Len(a) /\ n = Len(b) /\ DOMAIN a = 1..m /\ DOMAIN b = 1..n
  OBVIOUS
<1>2. /\ c \in Seq(T) /\ Len(c) = m + n /\ DOMAIN c = 1..(m + n)
      /\ \A i \in 1..m : c[i] = a[i]
      /\ \A i \in 1..n : c[m + i] = b[i]
  BY <1>0, <1>1
<1>3. \A i \in 1..(m + n) : i \in 1..m \/ (i - m \in 1..n /\ c[i] = b[i - m])
  <2>1. ASSUME NEW i \in 1..(m + n), i \notin 1..m PROVE i - m \in 1..n /\ c[m + (i - m)] = b[i - m]
    BY <1>2, <2>1
  <2>2. \A i \in 1..(m + n) : m + (i - m) = i
    OBVIOUS
  <2> QED
    BY <2>1, <2>2
<1>4. \A i \in 1..m : i \in 1..(m + n)
  OBVIOUS
<1>5. \A i \in 1..n : m + i \in 1..(m + n)
  OBVIOUS
<1>6. ToSet(c) = ToSet(a) \union ToSet(b)
  <2>1. ASSUME NEW x \in ToSet(c) PROVE x \in ToSet(a) \union ToSet(b)
    <3>1. PICK i \in 1..(m + n) : x = c[i]
      BY <1>2 DEF ToSet
    <3> QED
      BY <1>1, <1>2, <1>3, <3>1 DEF ToSet
  <2>2. ASSUME NEW x \in ToSet(a) PROVE x \in ToSet(c)
    <3>1. PICK i \in 1..m : x = a[i]
      BY <1>1 DEF ToSet
    <3> QED
      BY <1>2, <1>4, <3>1 DEF ToSet
  <2>3. ASSUME NEW x \in ToSet(b) PROVE x \in ToSet(c)
    <3>1. PICK i \in 1..n : x = b[i]
      BY <1>1 DEF ToSet
    <3>2. m + i \in 1..(m + n) /\ c[m + i] = x
      BY <1>2, <1>5, <3>1
    <3> QED
      BY <1>2, <3>2 DEF ToSet
  <2> QED
    BY <2>1, <2>2, <2>3
<1>7. ASSUME IsInjective(a), IsInjective(b), ToSet(a) \intersect ToSet(b) = {},
             NEW j \in 1..(m + n), NEW k \in 1..(m + n), c[j] = c[k]
      PROVE  j = k
  <2>1. \A i \in 1..m : c[i] \in ToSet(a)
    BY <1>1, <1>2 DEF ToSet
  <2>2. \A i \in 1..(m + n) : i \in 1..m \/ c[i] \in ToSet(b)
    BY <1>1, <1>3 DEF ToSet
  <2>3. CASE j \in 1..m /\ k \in 1..m
    BY <1>1, <1>2, <1>7, <2>3 DEF IsInjective
  <2>4. CASE j \notin 1..m /\ k \notin 1..m
    <3>1. j - m \in 1..n /\ k - m \in 1..n /\ b[j - m] = b[k - m]
      BY <1>3, <1>7, <2>4
    <3>2. j - m = k - m
      BY <1>1, <1>7, <3>1 DEF IsInjective
    <3> QED
      BY <3>2
  <2> QED
    BY <1>7, <2>1, <2>2, <2>3, <2>4
<1>8. IsInjective(a) /\ IsInjective(b) /\ ToSet(a) \intersect ToSet(b) = {} => IsInjective(c)
  BY <1>2, <1>7 DEF IsInjective
<1>9. ASSUME NEW i \in 1..(m + n) PROVE i <= m \/ c[i] \in ToSet(b)
  <2>1. i - m \in 1..n => b[i - m] \in ToSet(b)
    BY <1>1 DEF ToSet
  <2> QED
    BY <1>3, <2>1
<1>10. /\ c \in Seq(T) /\ Len(c) = Len(a) + Len(b)
       /\ \A i \in 1..Len(a) : c[i] = a[i]
       /\ \A i \in 1..(Len(a) + Len(b)) : i <= Len(a) \/ c[i] \in ToSet(b)
  BY <1>1, <1>2, <1>9
<1> QED
  BY <1>0, <1>6, <1>8, <1>10

(***************************************************************************)
(* The command adapter.                                                    *)
(***************************************************************************)
\* Whatever the manifest orders, every name of the input comes once.
LEMMA NamesOrdered ==
  ASSUME action \in Actions
  PROVE  /\ OrderedNames \in Seq(ToSet(ArgNames)) /\ IsInjective(OrderedNames)
         /\ ToSet(OrderedNames) = InputNames
<1> DEFINE N == ToSet(ArgNames)
           I == InputNames
           O == action.order
           Q == Selected(O, I)
           R == Selected(ArgNames, I \ ToSet(O))
<1>1. ArgNames \in Seq(N) /\ IsInjective(ArgNames)
  BY CommandAssumption DEF IsSequence, ToSet
<1>2. O \in Seq(N) /\ IsInjective(O) /\ I \subseteq N
  <2>1. O \in Seq(ToSet(O)) /\ ToSet(O) \subseteq N /\ IsInjective(O) /\ I \subseteq N
    BY CommandAssumption DEF IsSequence, ToSet, InputNames
  <2> HIDE DEF N, O, I
  <2> QED
    BY <2>1
<1> HIDE DEF O, N, I
<1>3. Q \in Seq(N) /\ ToSet(Q) = ToSet(O) \intersect I /\ IsInjective(Q)
  BY <1>2, SelectedIsSet
<1>4. R \in Seq(N) /\ ToSet(R) = N \intersect (I \ ToSet(O)) /\ IsInjective(R)
  <2>1. ToSet(ArgNames) = N
    BY DEF N
  <2> QED
    BY <1>1, <2>1, SelectedIsSet
<1> HIDE DEF Q, R
<1>5. ToSet(Q) \intersect ToSet(R) = {} /\ ToSet(Q) \union ToSet(R) = I
  BY <1>2, <1>3, <1>4
<1>6. Q \o R \in Seq(N) /\ ToSet(Q \o R) = I /\ IsInjective(Q \o R)
  BY <1>3, <1>4, <1>5, JoinedIsSet
<1> QED
  BY <1>6 DEF OrderedNames, O, N, I, Q, R

\* What is passed for a name is made of it and of other given names, or of "null"
\* for an owner that is not in the input.
LEMMA ValueIsGiven ==
  ASSUME action \in Actions, NEW n \in InputNames, Passed(n)
  PROVE  /\ ToSet(ArgOf(n).value)
              \subseteq {m \in InputNames : Given(m)}
                        \union (IF "owner" \in InputNames THEN {} ELSE {"null"})
         /\ ArgOf(n).form = "switch" \/ n \in ToSet(ArgOf(n).value)
<1> DEFINE G == {m \in InputNames : Given(m)}
           without == IF "owner" \in InputNames THEN {} ELSE {"null"}
<1>1. n \in G /\ action.style[n] \in Styles
  BY CommandAssumption DEF Passed, InputNames
<1>2. \A x, y : ToSet(<<x>>) = {x} /\ ToSet(<<x, y>>) = {x, y}
  BY DEF ToSet
<1>3. CASE action.style[n] \in {"repo-positional", "repo-flag"}
  <2>1. ArgOf(n).value = RepoValue(n)
    BY <1>3 DEF ArgOf
  <2>2. CASE RepoValue(n) = <<n>>
    BY <1>1, <1>2, <2>1, <2>2
  <2>3. CASE "owner" \notin InputNames /\ RepoValue(n) = <<"null", n>>
    BY <1>1, <1>2, <2>1, <2>3
  <2>4. CASE RepoValue(n) = Selected(<<"owner", n>>, G)
    <3> DEFINE both == <<"owner", n>>
               T == {"owner", n}
    <3>1. both \in Seq(T) /\ ToSet(both) = T
      BY <1>2
    <3> HIDE DEF G, both, T
    <3>2. ToSet(Selected(both, G)) = T \intersect G
      BY <3>1, SelectedIsSet
    <3>3. ToSet(ArgOf(n).value) = {"owner", n} \intersect G
      BY <2>1, <2>4, <3>2 DEF both, T
    <3>4. ToSet(ArgOf(n).value) \subseteq G /\ n \in ToSet(ArgOf(n).value)
      BY <1>1, <3>3
    <3> QED
      BY <3>4 DEF G
  <2> QED
    BY <2>2, <2>3, <2>4 DEF RepoValue
<1>4. CASE action.style[n] = "boolean"
  <2>1. ArgOf(n).value = <<>> /\ ArgOf(n).form = "switch"
    BY <1>4 DEF ArgOf
  <2> QED
    BY <2>1 DEF ToSet
<1>5. CASE action.style[n] \in Styles \ {"repo-positional", "repo-flag", "boolean"}
  <2>1. ArgOf(n).value = <<n>>
    BY <1>5 DEF ArgOf
  <2> QED
    BY <1>1, <1>2, <2>1
<1> QED
  BY <1>1, <1>3, <1>4, <1>5

LEMMA ArgumentsHold == ASSUME action \in Actions PROVE ArgumentsAreTheInput
<1> DEFINE N == ToSet(ArgNames)
           I == InputNames
           G == {n \in I : Passed(n)}
           P == Selected(PassedNames, Positional)
           F == Selected(PassedNames, I \ Positional)
           names == P \o F
<1>1. PassedNames \in Seq(N) /\ ToSet(PassedNames) = G /\ IsInjective(PassedNames)
  BY NamesOrdered, SelectedIsSet DEF PassedNames
<1> HIDE DEF N, I
<1>2. P \in Seq(N) /\ ToSet(P) = G \intersect Positional /\ IsInjective(P)
  BY <1>1, SelectedIsSet
<1>3. F \in Seq(N) /\ ToSet(F) = G \intersect (I \ Positional) /\ IsInjective(F)
  BY <1>1, SelectedIsSet
<1> HIDE DEF P, F
<1>4. /\ names \in Seq(N) /\ Len(names) = Len(P) + Len(F)
      /\ \A i \in 1..Len(P) : names[i] = P[i]
      /\ \A i \in 1..(Len(P) + Len(F)) : i <= Len(P) \/ names[i] \in ToSet(F)
      /\ ToSet(names) = ToSet(P) \union ToSet(F) /\ IsInjective(names)
  BY <1>2, <1>3, JoinedIsSet
<1>5. ToSet(names) = G
  BY <1>2, <1>3, <1>4
<1> HIDE DEF names
<1>6. ArgPairs = [i \in DOMAIN names |-> ArgOf(names[i])]
  BY DEF ArgPairs, names, P, F, I
<1>7. [i \in DOMAIN ArgPairs |-> ArgPairs[i].name] = names
  <2>1. \A n : ArgOf(n).name = n
    BY DEF ArgOf
  <2>2. DOMAIN ArgPairs = DOMAIN names /\ \A i \in DOMAIN names : ArgPairs[i].name = names[i]
    BY <1>6, <2>1
  <2>3. names = [i \in DOMAIN names |-> names[i]]
    BY <1>4
  <2> QED
    BY <2>2, <2>3
<1>8. ASSUME NEW i \in DOMAIN ArgPairs, NEW j \in DOMAIN ArgPairs, i < j,
             ArgPairs[j].form = "positional"
      PROVE  ArgPairs[i].form = "positional"
  <2>1. /\ DOMAIN names = 1..(Len(P) + Len(F)) /\ Len(P) \in Nat /\ Len(F) \in Nat
        /\ i \in DOMAIN names /\ j \in DOMAIN names
    BY <1>2, <1>3, <1>4, <1>6
  <2>2. names[j] \in I /\ ArgOf(names[j]).form = "positional"
    <3>1. names[j] \in ToSet(names)
      BY <2>1 DEF ToSet
    <3> QED
      BY <1>5, <1>6, <1>8, <2>1, <3>1
  <2>3. names[j] \in Positional
    BY <2>2 DEF Positional, I
  <2>4. j <= Len(P)
    BY <1>3, <1>4, <2>1, <2>3
  <2>5. i \in 1..Len(P)
    BY <1>8, <2>1, <2>4
  <2>6. names[i] \in Positional
    <3>1. P[i] \in ToSet(P)
      BY <1>2, <2>5 DEF ToSet
    <3> QED
      BY <1>2, <1>4, <2>5, <3>1
  <2> QED
    BY <1>6, <2>1, <2>6 DEF Positional
<1>9. ASSUME NEW i \in DOMAIN ArgPairs
      PROVE  /\ ToSet(ArgPairs[i].value)
                  \subseteq {m \in InputNames : Given(m)}
                            \union (IF "owner" \in InputNames THEN {} ELSE {"null"})
             /\ ArgPairs[i].form = "switch" \/ ArgPairs[i].name \in ToSet(ArgPairs[i].value)
  <2>1. i \in DOMAIN names /\ ArgPairs[i] = ArgOf(names[i]) /\ names[i] \in ToSet(names)
    BY <1>6 DEF ToSet
  <2>2. names[i] \in InputNames /\ Passed(names[i])
    BY <1>5, <2>1 DEF I
  <2>3. ArgPairs[i].name = names[i]
    BY <2>1 DEF ArgOf
  <2> QED
    BY <2>1, <2>2, <2>3, ValueIsGiven
<1>10. ToSet(names) = {n \in InputNames : Passed(n)}
  BY <1>5 DEF I
<1> QED
  BY <1>4, <1>7, <1>8, <1>9, <1>10 DEF ArgumentsAreTheInput

\* A process runs only for an action that passed the checks; what is kept of its
\* output and what is known of it agree at every moment; and a success is answered
\* for what the code says.
CommandInv ==
  /\ action \in Actions
  /\ step \in {"check", "start", "run", "done"}
  /\ printed \in Nat
  /\ writer \in [kept : Nat, truncated : BOOLEAN]
  /\ writer.kept = IF printed > OutputLimit THEN OutputLimit ELSE printed
  /\ writer.truncated = (printed > OutputLimit)
  /\ step \in {"start", "run"} => CheckedStatus = 200
  /\ answer.status = 200 => /\ step = "done" /\ CheckedStatus = 200 /\ writer.kept = printed
                            /\ \/ ended = "zero"
                               \/ ended = "other" /\ "other" \in action.success /\ late = "no"

LEMMA CommandInvInit == CommandInit => CommandInv
<1> SUFFICES ASSUME CommandInit PROVE CommandInv
  OBVIOUS
<1>1. writer = [kept |-> 0, truncated |-> FALSE] /\ writer \in [kept : Nat, truncated : BOOLEAN]
  BY DEF CommandInit
<1>2. writer.kept = 0 /\ printed = 0 /\ ~(printed > OutputLimit)
  BY <1>1, CommandAssumption DEF CommandInit
<1>3. writer.truncated = FALSE
  BY <1>1
<1>4. writer.truncated = (printed > OutputLimit)
  <2> DEFINE t == printed > OutputLimit
  <2>1. t \in BOOLEAN /\ ~t
    BY <1>2
  <2> HIDE DEF t
  <2>2. writer.truncated = t
    BY <1>3, <2>1
  <2> QED
    BY <2>2 DEF t
<1>5. writer.kept = IF printed > OutputLimit THEN OutputLimit ELSE printed
  BY <1>2
<1>6. answer.status # 200
  BY DEF CommandInit
<1> QED
  BY <1>1, <1>2, <1>4, <1>5, <1>6 DEF CommandInit, CommandInv

\* The answers other than success.
LEMMA FailedIsNoSuccess ==
  ASSUME NEW e \in BOOLEAN, Failed(e) PROVE step' = "done" /\ answer'.status # 200
  BY DEF Failed, Conclude, ScriptStatuses

LEMMA StatusStays == ASSUME UNCHANGED action PROVE UNCHANGED CheckedStatus
  BY DEF CheckedStatus, Wanting

LEMMA CommandInvStep == ASSUME CommandInv, [CommandNext]_commandVars PROVE CommandInv'
<1> USE CommandAssumption
<1>1. CASE Check
  <2>1. UNCHANGED <<action, late, printed, writer, ended, CheckedStatus>> /\ step = "check"
    BY <1>1, StatusStays DEF Check, ProcessSame
  <2>2. \/ CheckedStatus = 200 /\ step' = "start" /\ UNCHANGED answer
        \/ step' = "done" /\ answer'.status # 200
    BY <1>1 DEF Check, Conclude
  <2> QED
    BY <2>1, <2>2 DEF CommandInv
<1>2. CASE StartProcess
  <2>1. step = "start" /\ UNCHANGED <<action, late, printed, writer, ended, CheckedStatus>>
    BY <1>2, StatusStays DEF StartProcess, ProcessSame
  <2>2. (step' = "run" /\ UNCHANGED answer) \/ (step' = "done" /\ answer'.status # 200)
    BY <1>2, FailedIsNoSuccess DEF StartProcess
  <2> QED
    BY <2>1, <2>2 DEF CommandInv
<1>3. CASE Judge
  <2>1. step = "run" /\ UNCHANGED <<action, late, printed, writer, ended, CheckedStatus>>
    BY <1>3, StatusStays DEF Judge, ProcessSame
  <2>2. \/ step' = "done" /\ answer'.status # 200
        \/ /\ step' = "done" /\ answer'.status = 200 /\ ~writer.truncated
           /\ Succeeded \/ (ended = "zero" /\ late # "no")
    <3>1. CASE ~Succeeded /\ Failed(ended = "zero")
      BY <3>1 DEF Failed, Conclude, ScriptStatuses
    <3>2. CASE Succeeded \/ (ended = "zero" /\ late # "no")
      <4>1. \/ ~Succeeded /\ Failed(ended = "zero")
            \/ writer.truncated /\ Conclude(502, FALSE)
            \/ ~writer.truncated /\ Conclude(200, FALSE)
        BY <1>3 DEF Judge
      <4> QED
        BY <3>1, <3>2, <4>1 DEF Conclude
    <3> QED
      BY <1>3, <3>1, <3>2 DEF Judge
  <2>3. ~writer.truncated => writer.kept = printed
    BY DEF CommandInv
  <2> QED
    BY <2>1, <2>2, <2>3 DEF CommandInv, Succeeded
<1>4. ASSUME NEW n \in 1..MaxPrinted, PrintBytes(n) PROVE CommandInv'
  <2>1. /\ step = "run" /\ printed' = printed + n /\ UNCHANGED <<action, step, late, ended, answer, CheckedStatus>>
        /\ n \in Nat
    BY <1>4, StatusStays DEF PrintBytes
  <2> DEFINE room == OutputLimit - writer.kept
             t == writer.truncated \/ n > room
             k == writer.kept + (IF n > room THEN room ELSE n)
  <2>2. writer' = [kept |-> k, truncated |-> t] /\ t \in BOOLEAN
    BY <1>4 DEF PrintBytes, KeepBytes
  <2>3. k = IF printed' > OutputLimit THEN OutputLimit ELSE printed'
    BY <2>1 DEF CommandInv
  <2>4. t <=> (printed' > OutputLimit)
    BY <2>1 DEF CommandInv
  <2>5. k \in Nat
    BY <2>1, <2>3 DEF CommandInv
  <2> HIDE DEF t, k
  <2>6. writer'.kept = k /\ writer'.truncated = t /\ writer' \in [kept : Nat, truncated : BOOLEAN]
    BY <2>2, <2>5
  <2>7. writer'.truncated = (printed' > OutputLimit)
    BY <2>2, <2>4, <2>6
  <2> QED
    BY <2>1, <2>3, <2>6, <2>7 DEF CommandInv
<1>5. ASSUME NEW how \in {"zero", "other", "killed"}, Exits(how) PROVE CommandInv'
  BY <1>5, StatusStays DEF Exits, CommandInv
<1>6. ASSUME NEW why \in {"deadline", "caller"}, CommandContextEnds(why) PROVE CommandInv'
  BY <1>6, StatusStays DEF CommandContextEnds, CommandInv
<1>7. CASE UNCHANGED commandVars
  BY <1>7, StatusStays DEF commandVars, CommandInv
<1> QED
  BY <1>1, <1>2, <1>3, <1>4, <1>5, <1>6, <1>7 DEF CommandNext

\* A call succeeds only for a process that was allowed to run, was given the call's
\* own arguments, each once and with its own value or, for a repository whose owner
\* the call does not name, "null" beside it, ended by itself with a code that counts
\* as success, and whose whole output was kept, however it was cut into writes, for
\* any limit, action and input (CommandAdapter.Execute, buildCommandArgPairs,
\* resolveRepositoryArgValue, limitedWriter).
THEOREM SuccessStaysWhole == CommandSpec => []SuccessIsWhole
<1>1. CommandInv => SuccessIsWhole
  <2> SUFFICES ASSUME CommandInv PROVE SuccessIsWhole
    OBVIOUS
  <2>1. ArgumentsAreTheInput
    BY ArgumentsHold DEF CommandInv
  <2>2. CheckedStatus = 200 => Permitted
    <3>1. action.adapter \in {"command", "applescript"}
      BY CommandAssumption DEF CommandInv
    <3>2. CASE action.adapter = "command"
      <4> DEFINE e == Wanting({"executable"})
                 a == Wanting({"allowlist"})
                 p == Wanting({"permission"})
      <4>1. CheckedStatus = IF e THEN 400 ELSE IF a THEN 502 ELSE IF p THEN 403 ELSE 200
        BY <3>2 DEF CheckedStatus
      <4>2. Wanting({"executable", "allowlist", "permission"}) => e \/ a \/ p
        BY DEF Wanting
      <4>3. e \in BOOLEAN /\ a \in BOOLEAN /\ p \in BOOLEAN
        BY DEF Wanting
      <4> HIDE DEF e, a, p
      <4>4. CheckedStatus = 200 => ~e /\ ~a /\ ~p
        BY <4>1, <4>3
      <4> QED
        BY <3>2, <4>2, <4>4 DEF Permitted
    <3>3. CASE action.adapter = "applescript"
      BY <3>3 DEF CheckedStatus, Permitted, Wanting
    <3> QED
      BY <3>1, <3>2, <3>3
  <2> QED
    BY <2>1, <2>2 DEF CommandInv, SuccessIsWhole
<1> QED
  BY <1>1, CommandInvInit, CommandInvStep, PTL DEF CommandSpec

-----------------------------------------------------------------------------
(***************************************************************************)
(* The proxy's rules.  A rule's path is a sequence, its id a pair of       *)
(* numbers.                                                                *)
(***************************************************************************)
Shaped(r) == IsSequence(r.path) /\ r.id \in [1..2 -> Nat]

RuleList(rs) ==
  /\ IsSequence(rs)
  /\ \A i \in DOMAIN rs : Shaped(rs[i])
  /\ \A i, j \in DOMAIN rs : rs[i].id = rs[j].id => i = j

Ordered(rs) == \A i, j \in DOMAIN rs : i < j => ~TriedBefore(rs[j], rs[i])

\* The rules are each once in the list and in order; the one that matched is
\* the first that could.
RulesInv ==
  /\ unread \subseteq Services
  /\ RuleList(rules) /\ Ordered(rules)
  /\ \A i \in DOMAIN rules : rules[i].id[1] \notin unread
  /\ matched # Nothing => unread = {} /\ matched = FirstMatch(rules, asked)

LEMMA SequenceFacts ==
  ASSUME NEW s, IsSequence(s)
  PROVE  Len(s) \in Nat /\ DOMAIN s = 1..Len(s)
  BY DEF IsSequence

LEMMA FirstNumbers ==
  ASSUME NEW n \in Nat
  PROVE  /\ IsFiniteSet(1..n) /\ Cardinality(1..n) = n
         /\ IsFiniteSet(0..n - 1) /\ Cardinality(0..n - 1) = n
<1>1. 0 \in Int /\ 1 \in Int /\ n \in Int /\ n - 1 \in Int
  OBVIOUS
<1>2. IsFiniteSet(1..n) /\ Cardinality(1..n) = IF 1 > n THEN 0 ELSE n - 1 + 1
  BY <1>1, FS_Interval
<1>3. IsFiniteSet(0..n - 1) /\ Cardinality(0..n - 1) = IF 0 > n - 1 THEN 0 ELSE n - 1 - 0 + 1
  BY <1>1, FS_Interval
<1> QED
  BY <1>2, <1>3

LEMMA FunctionIsSequence ==
  ASSUME NEW n \in Nat, NEW f, f = [i \in 1..n |-> f[i]]
  PROVE  IsSequence(f) /\ Len(f) = n
<1> DEFINE S == {f[i] : i \in 1..n}
<1>1. DOMAIN f = 1..n
  OBVIOUS
<1>2. f \in [1..n -> S]
  OBVIOUS
<1>3. f \in Seq(S)
  <2> HIDE DEF S
  <2> QED
    BY <1>2
<1>4. S = {f[i] : i \in DOMAIN f}
  BY <1>1
<1>5. IsSequence(f)
  BY <1>3, <1>4 DEF IsSequence
<1> QED
  BY <1>1, <1>5, SequenceFacts

LEMMA JoinedSequences ==
  ASSUME NEW s, NEW t, IsSequence(s), IsSequence(t)
  PROVE  /\ s \o t = [i \in 1..Len(s) + Len(t) |-> IF i <= Len(s) THEN s[i] ELSE t[i - Len(s)]]
         /\ IsSequence(s \o t) /\ Len(s \o t) = Len(s) + Len(t)
<1> PICK S : S = {s[i] : i \in DOMAIN s}
  OBVIOUS
<1> PICK T : T = {t[i] : i \in DOMAIN t}
  OBVIOUS
<1>1. s \in Seq(S) /\ t \in Seq(T)
  BY DEF IsSequence
<1> PICK U : U = S \union T
  OBVIOUS
<1>2. s \in Seq(U) /\ t \in Seq(U)
  BY <1>1
<1>3. PICK u \in Seq(U) : u = s \o t
  BY <1>2, ConcatProperties
<1>4. Len(u) = Len(s) + Len(t) /\ Len(s) \in Nat /\ Len(t) \in Nat
  BY <1>2, <1>3
<1>5. \A i \in 1..Len(u) : u[i] = IF i <= Len(s) THEN s[i] ELSE t[i - Len(s)]
  BY <1>2, <1>3
<1>6. u = [i \in 1..Len(u) |-> IF i <= Len(s) THEN s[i] ELSE t[i - Len(s)]]
  BY <1>5
<1>7. IsSequence(u)
  <2>1. u = [i \in 1..Len(u) |-> u[i]] /\ Len(u) \in Nat
    OBVIOUS
  <2> QED
    BY <2>1, FunctionIsSequence
<1> QED
  BY <1>3, <1>4, <1>6, <1>7

(***************************************************************************)
(* The order of two tuples, at the first place they differ in.             *)
(***************************************************************************)
LEMMA NotUpwardsOfItself ==
  ASSUME NEW n \in Nat, NEW s \in [1..n -> Nat]
  PROVE  ~DiffersUpwards(s, s)
  BY DEF DiffersUpwards

LEMMA UpwardsOfUpwards ==
  ASSUME NEW n \in Nat, NEW s \in [1..n -> Nat], NEW t \in [1..n -> Nat], NEW u \in [1..n -> Nat],
         DiffersUpwards(s, t), DiffersUpwards(t, u)
  PROVE  DiffersUpwards(s, u)
<1>1. PICK i \in 1..n : s[i] > t[i] /\ \A j \in 1..i - 1 : s[j] = t[j]
  BY DEF DiffersUpwards
<1>2. PICK k \in 1..n : t[k] > u[k] /\ \A j \in 1..k - 1 : t[j] = u[j]
  BY DEF DiffersUpwards
<1>3. CASE i < k
  <2>1. s[i] > u[i]
    BY <1>1, <1>2, <1>3
  <2>2. \A j \in 1..i - 1 : s[j] = u[j]
    BY <1>1, <1>2, <1>3
  <2> QED
    BY <2>1, <2>2 DEF DiffersUpwards
<1>4. CASE i >= k
  <2>1. s[k] = t[k] \/ s[k] > t[k]
    <3>1. CASE k = i
      BY <1>1, <3>1
    <3>2. CASE k < i
      <4>1. k \in 1..i - 1
        BY <3>2
      <4> QED
        BY <1>1, <4>1
    <3> QED
      BY <1>4, <3>1, <3>2
  <2>2. s[k] > u[k]
    <3>1. s[k] \in Nat /\ t[k] \in Nat /\ u[k] \in Nat /\ t[k] > u[k]
      BY <1>2
    <3> QED
      BY <2>1, <3>1
  <2>3. \A j \in 1..k - 1 : s[j] = u[j]
    BY <1>1, <1>2, <1>4
  <2> QED
    BY <2>2, <2>3 DEF DiffersUpwards
<1> QED
  BY <1>3, <1>4

LEMMA OneIsUpwards ==
  ASSUME NEW n \in Nat, NEW s \in [1..n -> Nat], NEW t \in [1..n -> Nat], s # t
  PROVE  DiffersUpwards(s, t) \/ DiffersUpwards(t, s)
<1> DEFINE D == {i \in 1..n : s[i] # t[i]}
<1>1. D # {}
  OBVIOUS
<1>2. PICK i \in D : \A j \in D : i <= j
  <2>1. D \in SUBSET Nat
    OBVIOUS
  <2> HIDE DEF D
  <2> QED
    BY <1>1, <2>1, LeastNumber
<1>3. \A j \in 1..i - 1 : s[j] = t[j] /\ t[j] = s[j]
  BY <1>2
<1>4. s[i] > t[i] \/ t[i] > s[i]
  OBVIOUS
<1> QED
  BY <1>3, <1>4 DEF DiffersUpwards

(***************************************************************************)
(* The segments that are not globs.                                        *)
(***************************************************************************)
Fixed(path) == {i \in DOMAIN path : ~HasGlob(path[i])}

LEMMA FixedFinite ==
  ASSUME NEW path, IsSequence(path)
  PROVE  /\ IsFiniteSet(Fixed(path)) /\ Literals(path) \in Nat
         /\ Literals(path) = Cardinality(Fixed(path))
         /\ PathKind(path) \in 0..2
<1>1. Literals(path) = Cardinality(Fixed(path))
  BY DEF Literals, Fixed
<1>2. IsFiniteSet(DOMAIN path) /\ Fixed(path) \in SUBSET DOMAIN path
  BY SequenceFacts, FS_Interval DEF Fixed
<1>3. IsFiniteSet(Fixed(path))
  BY <1>2, FS_Subset
<1>4. Cardinality(Fixed(path)) \in Nat
  BY <1>3, FS_CardinalityType
<1> QED
  BY <1>1, <1>3, <1>4 DEF PathKind

\* A path that another covers has at least its literals, and is no less of a
\* kind, if its wildcards are whole segments.
LEMMA CoveredIsNarrower ==
  ASSUME NEW p, NEW q, IsSequence(p), IsSequence(q), Len(p) = Len(q),
         \A i \in DOMAIN p : CoversGlob(p[i], q[i]), \A i \in DOMAIN q : q[i] \notin DOMAIN Globs
  PROVE  /\ Literals(p) <= Literals(q) /\ PathKind(p) <= PathKind(q)
         /\ Literals(p) = Literals(q) => \A i \in DOMAIN p : p[i] = q[i]
<1>1. Len(p) = Len(q) /\ Len(p) \in Nat /\ DOMAIN p = 1..Len(p) /\ DOMAIN q = 1..Len(p)
  BY SequenceFacts
<1>2. Fixed(p) \in SUBSET Fixed(q)
  BY <1>1 DEF CoversGlob, HasGlob, Fixed
<1>3. /\ Cardinality(Fixed(p)) <= Cardinality(Fixed(q))
      /\ Cardinality(Fixed(q)) = Cardinality(Fixed(p)) => Fixed(q) = Fixed(p)
  BY <1>2, FixedFinite, FS_Subset
<1>4. /\ Literals(p) \in Nat /\ Literals(q) \in Nat /\ Literals(p) <= Literals(q)
      /\ Literals(p) = Literals(q) => Fixed(q) = Fixed(p)
  BY <1>3, FixedFinite
<1>5. Literals(q) <= Len(q)
  <2>1. Fixed(q) \in SUBSET (1..Len(q)) /\ IsFiniteSet(1..Len(q)) /\ Cardinality(1..Len(q)) = Len(q)
    BY <1>1, FirstNumbers DEF Fixed
  <2>2. Cardinality(Fixed(q)) <= Cardinality(1..Len(q))
    BY <2>1, FS_Subset
  <2> QED
    BY <2>1, <2>2, FixedFinite
<1>6. ASSUME Fixed(q) = Fixed(p) PROVE \A i \in DOMAIN p : p[i] = q[i]
  BY <1>1, <1>6 DEF CoversGlob, HasGlob, Fixed
<1>7. Literals(p) = Literals(q) => \A i \in DOMAIN p : p[i] = q[i]
  BY <1>4, <1>6
<1>8. PathKind(p) <= PathKind(q)
  <2>1. CASE Literals(p) = Literals(q)
    <3>1. Len(p) > 1 => p[Len(p)] = q[Len(p)]
      BY <2>1, <1>1, <1>4, <1>6
    <3> QED
      BY <2>1, <1>1, <3>1 DEF PathKind
  <2>2. CASE Literals(p) < Literals(q)
    BY <2>2, <1>1, <1>4, <1>5 DEF PathKind
  <2> QED
    BY <2>1, <2>2, <1>4
<1> QED
  BY <1>4, <1>7, <1>8

LEMMA RankTyped == ASSUME NEW r, Shaped(r) PROVE Rank(r) \in [1..5 -> Nat]
<1>1. /\ PathKind(r.path) \in Nat /\ Literals(r.path) \in Nat /\ Len(r.path) \in Nat
  BY FixedFinite, SequenceFacts DEF Shaped
<1> DEFINE h == HostRank(r.host)
           m == IF r.method = "*" THEN 0 ELSE 1
<1>2. h \in Nat /\ m \in Nat
  BY DEF HostRank
<1>3. Rank(r) = <<h, PathKind(r.path), Literals(r.path), Len(r.path), m>>
  BY DEF Rank
<1> HIDE DEF h, m
<1> QED
  BY <1>1, <1>2, <1>3

\* The order compares the two hosts, and the paths in which globs are whole.
Compared(m, l) ==
  /\ l.host = m.host \/ HostRank(l.host) # HostRank(m.host)
  /\ \A k \in DOMAIN l.path : l.path[k] \notin DOMAIN Globs

\* Of two such rules of which one covers the other, the one tried first is covered.
LEMMA NarrowerFirst ==
  ASSUME NEW m, NEW l, Shaped(m), Shaped(l), Covers(m, l), Compared(m, l), ~TriedBefore(l, m)
  PROVE  Covers(l, m)
<1>1. ~DiffersUpwards(Rank(l), Rank(m))
  BY DEF TriedBefore
<1>2. /\ IsSequence(m.path) /\ IsSequence(l.path) /\ Len(m.path) = Len(l.path)
      /\ \A i \in DOMAIN m.path : CoversGlob(m.path[i], l.path[i])
      /\ \A i \in DOMAIN l.path : l.path[i] \notin DOMAIN Globs
  BY DEF Shaped, Covers, Compared
<1>3. /\ Literals(m.path) <= Literals(l.path) /\ PathKind(m.path) <= PathKind(l.path)
      /\ Literals(m.path) = Literals(l.path) => \A i \in DOMAIN m.path : m.path[i] = l.path[i]
      /\ Len(m.path) = Len(l.path) /\ DOMAIN m.path = DOMAIN l.path
  BY <1>2, CoveredIsNarrower, SequenceFacts
<1>4. /\ Literals(m.path) \in Nat /\ Literals(l.path) \in Nat
      /\ PathKind(m.path) \in Nat /\ PathKind(l.path) \in Nat
  BY <1>2, FixedFinite
<1>5. /\ HostRank(m.host) <= HostRank(l.host) /\ HostRank(m.host) \in 0..2 /\ HostRank(l.host) \in 0..2
      /\ m.method = "*" \/ m.method = l.method
  <2>1. CoversGlob(m.host.name, l.host.name) /\ m.host.port \in {"", l.host.port}
    BY DEF Covers, CoversHost
  <2>2. HasGlob(l.host.name) => HasGlob(m.host.name)
    BY <2>1 DEF CoversGlob, HasGlob
  <2>3. AnyHost(l.host) => AnyHost(m.host)
    BY <2>1, GlobsAssumption DEF CoversGlob, AnyHost
  <2>4. AnyHost(m.host) => HasGlob(m.host.name)
    BY DEF HasGlob, AnyHost
  <2> QED
    BY <2>2, <2>3, <2>4 DEF Covers, HostRank
<1> DEFINE R == Rank(l)
           Q == Rank(m)
<1>6. /\ R \in [1..5 -> Nat] /\ Q \in [1..5 -> Nat]
  BY RankTyped
<1>7. /\ R[1] = HostRank(l.host) /\ Q[1] = HostRank(m.host)
      /\ R[2] = PathKind(l.path) /\ Q[2] = PathKind(m.path)
      /\ R[3] = Literals(l.path) /\ Q[3] = Literals(m.path)
      /\ R[4] = Len(l.path) /\ Q[4] = Len(m.path)
      /\ R[5] = (IF l.method = "*" THEN 0 ELSE 1) /\ Q[5] = (IF m.method = "*" THEN 0 ELSE 1)
  BY DEF Rank
<1>8. \A i \in 1..5 : (\A j \in 1..i - 1 : R[j] = Q[j]) => ~(R[i] > Q[i])
  BY <1>1, <1>6 DEF DiffersUpwards
<1> HIDE DEF R, Q
<1>9. ~(R[1] > Q[1])
  BY <1>8
<1>10. m.host = l.host /\ R[1] = Q[1]
  BY <1>5, <1>7, <1>9 DEF Compared
<1>11. R[2] = Q[2]
  <2>1. ~(R[2] > Q[2])
    BY <1>8, <1>10
  <2> QED
    BY <2>1, <1>3, <1>4, <1>7
<1>12. R[3] = Q[3]
  <2>1. ~(R[3] > Q[3])
    BY <1>8, <1>10, <1>11
  <2> QED
    BY <2>1, <1>3, <1>4, <1>7
<1>13. R[4] = Q[4]
  BY <1>3, <1>7
<1>14. m.method = l.method
  <2>1. ~(R[5] > Q[5])
    BY <1>8, <1>10, <1>11, <1>12, <1>13
  <2> QED
    BY <2>1, <1>5, <1>7
<1>15. CoversHost(l.host, m.host)
  BY <1>10 DEF CoversHost, CoversGlob
<1>16. \A i \in DOMAIN l.path : CoversGlob(l.path[i], m.path[i])
  BY <1>3, <1>7, <1>12 DEF CoversGlob
<1> QED
  BY <1>3, <1>14, <1>15, <1>16 DEF Covers

(***************************************************************************)
(* TriedBefore is a strict order, total on rules of different ids.         *)
(***************************************************************************)
LEMMA TriedBeforeIsOrder ==
  /\ \A a : Shaped(a) => ~TriedBefore(a, a)
  /\ \A a, b, c : /\ Shaped(a) /\ Shaped(b) /\ Shaped(c)
                  /\ TriedBefore(a, b) /\ TriedBefore(b, c)
                  => TriedBefore(a, c)
  /\ \A a, b : Shaped(a) /\ Shaped(b) /\ a.id # b.id => TriedBefore(a, b) \/ TriedBefore(b, a)
<1>1. ASSUME NEW a, Shaped(a) PROVE Rank(a) \in [1..5 -> Nat] /\ a.id \in [1..2 -> Nat]
  BY <1>1, RankTyped DEF Shaped
<1>2. ASSUME NEW a, Shaped(a) PROVE ~TriedBefore(a, a)
  <2>1. ~DiffersUpwards(Rank(a), Rank(a)) /\ ~DiffersUpwards(a.id, a.id)
    BY <1>1, <1>2, NotUpwardsOfItself
  <2> QED
    BY <2>1 DEF TriedBefore
<1>3. ASSUME NEW a, NEW b, NEW c, Shaped(a), Shaped(b), Shaped(c),
             TriedBefore(a, b), TriedBefore(b, c)
      PROVE  TriedBefore(a, c)
  <2>1. DiffersUpwards(Rank(a), Rank(b)) /\ DiffersUpwards(Rank(b), Rank(c))
          => DiffersUpwards(Rank(a), Rank(c))
    <3> 5 \in Nat
      OBVIOUS
    <3> QED
      BY <1>1, <1>3, UpwardsOfUpwards
  <2>2. DiffersUpwards(c.id, b.id) /\ DiffersUpwards(b.id, a.id) => DiffersUpwards(c.id, a.id)
    <3> 2 \in Nat
      OBVIOUS
    <3> QED
      BY <1>1, <1>3, UpwardsOfUpwards
  <2>3. \/ DiffersUpwards(Rank(a), Rank(b))
        \/ Rank(a) = Rank(b) /\ DiffersUpwards(b.id, a.id)
    BY <1>3 DEF TriedBefore
  <2>4. \/ DiffersUpwards(Rank(b), Rank(c))
        \/ Rank(b) = Rank(c) /\ DiffersUpwards(c.id, b.id)
    BY <1>3 DEF TriedBefore
  <2>5. \/ DiffersUpwards(Rank(a), Rank(c))
        \/ Rank(a) = Rank(c) /\ DiffersUpwards(c.id, a.id)
    BY <2>1, <2>2, <2>3, <2>4, Zenon
  <2> QED
    BY <2>5 DEF TriedBefore
<1>4. ASSUME NEW a, NEW b, Shaped(a), Shaped(b), a.id # b.id
      PROVE  TriedBefore(a, b) \/ TriedBefore(b, a)
  <2>1. Rank(a) # Rank(b) => DiffersUpwards(Rank(a), Rank(b)) \/ DiffersUpwards(Rank(b), Rank(a))
    BY <1>1, <1>4, OneIsUpwards
  <2>2. DiffersUpwards(a.id, b.id) \/ DiffersUpwards(b.id, a.id)
    BY <1>1, <1>4, OneIsUpwards
  <2> QED
    BY <2>1, <2>2, Zenon DEF TriedBefore
<1> QED
  BY <1>2, <1>3, <1>4

\* Sorting keeps every rule, in the order they are tried.
LEMMA SortedInOrder ==
  ASSUME NEW rs, RuleList(rs)
  PROVE  /\ RuleList(Sorted(rs)) /\ Ordered(Sorted(rs))
         /\ \A k \in DOMAIN Sorted(rs) : \E i \in DOMAIN rs : Sorted(rs)[k] = rs[i]
<1> PICK n \in Nat : n = Len(rs)
  BY SequenceFacts DEF RuleList
<1>1. DOMAIN rs = 1..n
  BY SequenceFacts DEF RuleList
<1> DEFINE E(i) == {j \in 1..n : TriedBefore(rs[j], rs[i])}
           c == [i \in 1..n |-> Cardinality(E(i))]
<1>2. \A i \in 1..n : /\ Shaped(rs[i])
                      /\ \A j \in 1..n : rs[i].id = rs[j].id => i = j
  BY <1>1 DEF RuleList
<1>3. IsFiniteSet(1..n) /\ Cardinality(1..n) = n /\ IsFiniteSet(0..n - 1) /\ Cardinality(0..n - 1) = n
  BY FirstNumbers
<1>4. ASSUME NEW i \in 1..n
      PROVE  IsFiniteSet(E(i)) /\ i \notin E(i) /\ Cardinality(E(i)) \in 0..n - 1
  <2>1. E(i) \in SUBSET (1..n)
    OBVIOUS
  <2>2. i \notin E(i)
    BY <1>2, TriedBeforeIsOrder
  <2> HIDE DEF E
  <2>3. IsFiniteSet(E(i)) /\ Cardinality(E(i)) <= n /\ Cardinality(E(i)) # n
    BY <1>3, <2>1, <2>2, FS_Subset
  <2>4. Cardinality(E(i)) \in Nat
    BY <2>3, FS_CardinalityType
  <2> QED
    BY <2>2, <2>3, <2>4
<1>5. ASSUME NEW i \in 1..n, NEW j \in 1..n, TriedBefore(rs[i], rs[j])
      PROVE  Cardinality(E(i)) < Cardinality(E(j))
  <2>1. E(i) \in SUBSET E(j)
    BY <1>2, <1>5, TriedBeforeIsOrder
  <2>2. i \in E(j)
    BY <1>5
  <2> HIDE DEF E
  <2>3. /\ Cardinality(E(i)) <= Cardinality(E(j))
        /\ Cardinality(E(i)) # Cardinality(E(j))
    BY <1>4, <2>1, <2>2, FS_Subset
  <2> QED
    BY <1>4, <2>3
<1>6. \A i \in 1..n : c[i] = Cardinality(E(i))
  OBVIOUS
<1>7. c \in [1..n -> 0..n - 1]
  BY <1>4
<1> HIDE DEF c
<1>8. \A i, j \in 1..n : c[i] = c[j] => i = j
  <2>1. ASSUME NEW i \in 1..n, NEW j \in 1..n, i # j PROVE c[i] # c[j]
    <3>1. TriedBefore(rs[i], rs[j]) \/ TriedBefore(rs[j], rs[i])
      BY <1>2, <2>1, TriedBeforeIsOrder
    <3>2. Cardinality(E(i)) < Cardinality(E(j)) \/ Cardinality(E(j)) < Cardinality(E(i))
      BY <1>5, <3>1
    <3> HIDE DEF E
    <3> QED
      BY <1>4, <1>6, <3>2
  <2> QED
    BY <2>1
<1>9. \A k \in 0..n - 1 : \E i \in 1..n : c[i] = k
  <2>1. c \in Injection(1..n, 0..n - 1)
    BY <1>7, <1>8, Fun_IsInj
  <2>2. c \in Surjection(1..n, 0..n - 1)
    BY <1>3, <2>1, FS_Injection
  <2> QED
    BY <2>2 DEF Surjection
<1> DEFINE p == [k \in 1..n |-> CHOOSE i \in 1..n : Cardinality(E(i)) = k - 1]
<1>10. p \in [1..n -> 1..n] /\ \A k \in 1..n : c[p[k]] = k - 1
  <2>1. ASSUME NEW k \in 1..n
        PROVE  (CHOOSE i \in 1..n : Cardinality(E(i)) = k - 1) \in 1..n /\ c[p[k]] = k - 1
    <3>1. PICK y \in 1..n : Cardinality(E(y)) = k - 1
      <4>1. k - 1 \in 0..n - 1
        OBVIOUS
      <4> QED
        BY <1>6, <1>9, <4>1
    <3> HIDE DEF E
    <3>2. PICK x : x = CHOOSE i \in 1..n : Cardinality(E(i)) = k - 1
      OBVIOUS
    <3>3. x \in 1..n /\ Cardinality(E(x)) = k - 1
      BY <3>1, <3>2
    <3> QED
      BY <1>6, <3>2, <3>3
  <2> QED
    BY <2>1
<1>11. Sorted(rs) = [k \in 1..n |-> rs[p[k]]]
  BY <1>1 DEF Sorted
<1> HIDE DEF p
<1> DEFINE t == [k \in 1..n |-> rs[p[k]]]
<1>12. IsSequence(t) /\ DOMAIN t = 1..n
  BY FunctionIsSequence
<1>13. \A k \in 1..n : t[k] = rs[p[k]] /\ p[k] \in 1..n
  BY <1>10
<1> HIDE DEF t, E
<1>14. \A k, m \in 1..n : k # m => p[k] # p[m]
  BY <1>10
<1>15. RuleList(t)
  <2>1. \A k \in 1..n : Shaped(t[k])
    BY <1>2, <1>13
  <2>2. ASSUME NEW k \in 1..n, NEW m \in 1..n, t[k].id = t[m].id PROVE k = m
    BY <1>2, <1>13, <1>14, <2>2
  <2> QED
    BY <1>12, <2>1, <2>2 DEF RuleList
<1>16. Ordered(t)
  <2>1. ASSUME NEW k \in 1..n, NEW m \in 1..n, k < m, TriedBefore(t[m], t[k]) PROVE FALSE
    <3>1. Cardinality(E(p[m])) < Cardinality(E(p[k]))
      BY <1>5, <1>13, <2>1
    <3>2. c[p[m]] = m - 1 /\ c[p[k]] = k - 1
      BY <1>10
    <3> QED
      BY <1>6, <1>13, <2>1, <3>1, <3>2
  <2> QED
    BY <1>12, <2>1 DEF Ordered
<1> QED
  BY <1>1, <1>11, <1>12, <1>13, <1>15, <1>16 DEF t
(***************************************************************************)
(* The invariant.                                                          *)
(***************************************************************************)
LEMMA RulesOfService ==
  ASSUME NEW s \in Services
  PROVE  /\ IsSequence(RulesOf(s))
         /\ \A a \in DOMAIN RulesOf(s) : Shaped(RulesOf(s)[a]) /\ RulesOf(s)[a].id = <<s, a>>
<1>1. s \in Nat /\ IsSequence(Manifests[s].base) /\ IsSequence(Manifests[s].actions)
  BY ManifestsAssumption, SequenceFacts DEF Services
<1> DEFINE as == Manifests[s].actions
<1>2. PICK n \in Nat : DOMAIN as = 1..n
  BY <1>1, SequenceFacts
<1>3. ASSUME NEW a \in 1..n PROVE Shaped(RuleOf(s, a)) /\ RuleOf(s, a).id = <<s, a>>
  <2>1. IsSequence(as[a].path)
    BY <1>2, <1>3, ManifestsAssumption DEF Services
  <2>2. PICK p : p = Manifests[s].base \o as[a].path
    OBVIOUS
  <2>3. PICK m \in Nat : DOMAIN p = 1..m
    BY <1>1, <2>1, <2>2, JoinedSequences, SequenceFacts
  <2>4. PICK w : w = Wild(p)
    OBVIOUS
  <2>5. IsSequence(w)
    BY <2>3, <2>4, FunctionIsSequence DEF Wild
  <2>6. RuleOf(s, a).path = w /\ RuleOf(s, a).id = <<s, a>>
    BY <2>2, <2>4 DEF RuleOf
  <2> QED
    BY <1>1, <2>5, <2>6 DEF Shaped
<1>4. RulesOf(s) = [a \in 1..n |-> RuleOf(s, a)]
  BY <1>2 DEF RulesOf
<1> QED
  BY <1>3, <1>4, FunctionIsSequence

LEMMA RulesInvInit == ProxyInit => RulesInv
<1> SUFFICES ASSUME ProxyInit PROVE RulesInv
  OBVIOUS
<1>1. IsSequence(rules) /\ DOMAIN rules = {}
  BY DEF ProxyInit, IsSequence
<1> QED
  BY <1>1 DEF ProxyInit, RulesInv, RuleList, Ordered

\* The rules with those of a service whose rules were not there.
LEMMA RulesJoin ==
  ASSUME RulesInv, NEW s \in unread
  PROVE  LET rs == rules \o RulesOf(s)
         IN  /\ RuleList(rs)
             /\ \A i \in DOMAIN rs : rs[i].id[1] \notin unread \ {s}
             /\ \A i \in DOMAIN rs : \/ \E j \in DOMAIN rules : rs[i] = rules[j]
                                     \/ \E a \in DOMAIN RulesOf(s) : rs[i] = RulesOf(s)[a]
<1> DEFINE rs == rules \o RulesOf(s)
<1>1. s \in Services
  BY DEF RulesInv
<1>2. PICK n \in Nat : Len(rules) = n /\ DOMAIN rules = 1..n
  BY SequenceFacts DEF RulesInv, RuleList
<1>3. PICK m \in Nat : Len(RulesOf(s)) = m /\ DOMAIN RulesOf(s) = 1..m
  BY <1>1, SequenceFacts, RulesOfService
<1>4. rs = [i \in 1..n + m |-> IF i <= n THEN rules[i] ELSE RulesOf(s)[i - n]]
  <2>1. IsSequence(rules) /\ IsSequence(RulesOf(s))
    BY <1>1, RulesOfService DEF RulesInv, RuleList
  <2> QED
    BY <1>2, <1>3, <2>1, JoinedSequences
<1>5. /\ \A i \in 1..n : Shaped(rules[i]) /\ rules[i].id[1] \notin unread
      /\ \A i, j \in 1..n : rules[i].id = rules[j].id => i = j
  BY <1>2 DEF RulesInv, RuleList
<1>6. \A i \in 1..m : Shaped(RulesOf(s)[i]) /\ RulesOf(s)[i].id = <<s, i>>
  BY <1>1, <1>3, RulesOfService
<1>7. \A i \in 1..n + m : \/ i \in 1..n /\ rs[i] = rules[i]
                          \/ i - n \in 1..m /\ rs[i] = RulesOf(s)[i - n]
  BY <1>4
<1>8. IsSequence(rs) /\ DOMAIN rs = 1..n + m
  <2>1. n + m \in Nat /\ rs = [i \in 1..n + m |-> rs[i]]
    BY <1>4
  <2> QED
    BY <2>1, FunctionIsSequence
<1> HIDE DEF rs
<1>9. \A i \in 1..n + m : Shaped(rs[i]) /\ rs[i].id[1] \notin unread \ {s}
  BY <1>5, <1>6, <1>7
<1>10. ASSUME NEW i \in 1..n + m, NEW j \in 1..n + m, rs[i].id = rs[j].id PROVE i = j
  BY <1>5, <1>6, <1>7, <1>10
<1>11. RuleList(rs)
  BY <1>8, <1>9, <1>10 DEF RuleList
<1> QED
  BY <1>2, <1>3, <1>7, <1>8, <1>9, <1>11 DEF rs

LEMMA RulesInvStep == ASSUME RulesInv, [ProxyNext]_proxyVars PROVE RulesInv'
<1>1. ASSUME NEW s \in Services, AddRulesFromService(s) PROVE RulesInv'
  <2> DEFINE rs == rules \o RulesOf(s)
  <2>1. /\ s \in unread /\ unread' = unread \ {s} /\ rules' = Sorted(rs) /\ matched' = matched
    BY <1>1 DEF AddRulesFromService
  <2>2. matched' = Nothing
    BY <2>1 DEF RulesInv
  <2>3. RuleList(rs) /\ \A i \in DOMAIN rs : rs[i].id[1] \notin unread'
    BY <2>1, RulesJoin
  <2> HIDE DEF rs
  <2>4. /\ RuleList(rules') /\ Ordered(rules')
        /\ \A k \in DOMAIN rules' : \E i \in DOMAIN rs : rules'[k] = rs[i]
    BY <2>1, <2>3, SortedInOrder
  <2> QED
    BY <2>1, <2>2, <2>3, <2>4 DEF RulesInv
<1>2. ASSUME NEW q, Ask(q) PROVE RulesInv'
  BY <1>2 DEF Ask, RulesInv
<1>3. ASSUME AnswerStep PROVE RulesInv'
  <2>1. UNCHANGED <<unread, rules, asked, matched>>
    BY <1>3 DEF AnswerStep, Unmatched, BadBody, NotInstalled, InputRefused, KeyMissing, Executed, Respond
  <2> QED
    BY <2>1 DEF RulesInv
<1>4. ASSUME Written PROVE RulesInv'
  BY <1>4 DEF Written, RulesInv
<1>5. ASSUME NEW s, Uninstall(s) PROVE RulesInv'
  BY <1>5 DEF Uninstall, RulesInv
<1>6. ASSUME UNCHANGED proxyVars PROVE RulesInv'
  BY <1>6 DEF proxyVars, RulesInv
<1> QED
  BY <1>1, <1>2, <1>3, <1>4, <1>5, <1>6 DEF ProxyNext

\* Whatever order the services are read in, and whatever their rules are: the
\* rule that answers covers no other that matches unless that one covers it too,
\* of those the order compares: rules of one host or of hosts of different ranks,
\* the other's globs whole segments of its path (sortRules, Classify).
THEOREM NarrowRulesAnswer == ProxySpec => []NarrowerRuleAnswers
<1>1. ASSUME RulesInv PROVE NarrowerRuleAnswers
  <2> SUFFICES ASSUME matched # Nothing, NEW i \in DOMAIN rules,
                      RuleMatches(rules[i], asked), Covers(matched, rules[i]), Compared(matched, rules[i])
               PROVE  Covers(rules[i], matched)
    BY DEF NarrowerRuleAnswers, Compared
  <2> DEFINE hits == {k \in DOMAIN rules : RuleMatches(rules[k], asked)}
  <2>1. matched = rules[CHOOSE k \in hits : \A j \in hits : k <= j]
    BY <1>1 DEF RulesInv, FirstMatch
  <2>2. PICK n \in Nat : DOMAIN rules = 1..n
    BY <1>1, SequenceFacts DEF RulesInv, RuleList
  <2>3. i \in hits /\ hits \in SUBSET Nat /\ hits \subseteq DOMAIN rules
    BY <2>2
  <2> HIDE DEF hits
  <2>4. PICK k \in hits : matched = rules[k] /\ \A j \in hits : k <= j
    <3>1. \E k \in hits : \A j \in hits : k <= j
      BY <2>3, LeastNumber
    <3> QED
      BY <2>1, <3>1
  <2>5. k = i \/ k < i
    BY <2>3, <2>4
  <2>6. k = i => Covers(rules[i], matched)
    BY <2>4
  <2>7. CASE k < i
    <3>1. ~TriedBefore(rules[i], rules[k]) /\ Shaped(rules[i]) /\ Shaped(rules[k])
      BY <1>1, <2>3, <2>4, <2>7 DEF RulesInv, Ordered, RuleList
    <3> QED
      BY <2>4, <3>1, NarrowerFirst
  <2> QED
    BY <2>5, <2>6, <2>7
<1> QED
  BY <1>1, RulesInvInit, RulesInvStep, PTL DEF ProxySpec

\* A rule is one made of an action.
IsRule(r) == \E s \in Services : \E a \in DOMAIN Manifests[s].actions : r = RuleOf(s, a)

RequestsInv == RulesInv /\ ProxyTypeOK /\ \A i \in DOMAIN rules : IsRule(rules[i])

LEMMA RequestsInvInit == ProxyInit => RequestsInv
  BY RulesInvInit DEF ProxyInit, RequestsInv, ProxyTypeOK

\* A rule that matched is one of the rules, and matches.
LEMMA MatchIsRule ==
  ASSUME NEW rs, RuleList(rs), NEW q, FirstMatch(rs, q) # Nothing
  PROVE  \E i \in DOMAIN rs : FirstMatch(rs, q) = rs[i] /\ RuleMatches(rs[i], q)
<1> DEFINE hits == {i \in DOMAIN rs : RuleMatches(rs[i], q)}
<1>1. hits # {} /\ FirstMatch(rs, q) = rs[CHOOSE i \in hits : \A j \in hits : i <= j]
  BY DEF FirstMatch
<1>2. hits \in SUBSET Nat
  BY SequenceFacts DEF RuleList
<1>3. \A i \in hits : i \in DOMAIN rs /\ RuleMatches(rs[i], q)
  OBVIOUS
<1> HIDE DEF hits
<1>4. (CHOOSE i \in hits : \A j \in hits : i <= j) \in hits
  BY <1>1, <1>2, LeastNumber
<1> QED
  BY <1>1, <1>3, <1>4

LEMMA RequestsInvStep == ASSUME RequestsInv, [ProxyNext]_proxyVars PROVE RequestsInv'
<1> DEFINE Ruled == \A i \in DOMAIN rules : IsRule(rules[i])
<1>1. RulesInv'
  BY RulesInvStep DEF RequestsInv
<1>2. ASSUME NEW s \in Services, AddRulesFromService(s) PROVE (ProxyTypeOK /\ Ruled)'
  <2> DEFINE rs == rules \o RulesOf(s)
  <2>1. /\ s \in unread /\ unread' = unread \ {s} /\ rules' = Sorted(rs)
        /\ UNCHANGED <<installed, asked, matched>>
    BY <1>2 DEF AddRulesFromService
  <2>2. matched = Nothing
    BY <2>1 DEF RequestsInv, RulesInv
  <2>3. \A a \in DOMAIN RulesOf(s) : IsRule(RulesOf(s)[a])
    BY DEF RulesOf, IsRule
  <2>4. RuleList(rs) /\ \A i \in DOMAIN rs : IsRule(rs[i])
    BY <2>1, <2>3, RulesJoin DEF RequestsInv
  <2> HIDE DEF rs
  <2>5. \A k \in DOMAIN rules' : IsRule(rules'[k])
    BY <2>1, <2>4, SortedInOrder
  <2>6. \A r : IsRule(r) => r = RuleOf(r.id[1], r.id[2])
    BY DEF IsRule, RuleOf
  <2> QED
    BY <2>1, <2>2, <2>5, <2>6 DEF RequestsInv, ProxyTypeOK, IsRule
<1>3. ASSUME NEW q \in AgentRequests, Ask(q) PROVE (ProxyTypeOK /\ Ruled)'
  BY <1>3, MatchIsRule DEF Ask, RequestsInv, RulesInv, ProxyTypeOK, IsRule
<1>4. ASSUME AnswerStep PROVE (ProxyTypeOK /\ Ruled)'
  <2>1. UNCHANGED <<unread, rules, installed, asked, matched>>
    BY <1>4 DEF AnswerStep, Unmatched, BadBody, NotInstalled, InputRefused, KeyMissing, Executed, Respond
  <2> QED
    BY <2>1 DEF RequestsInv, ProxyTypeOK, IsRule
<1>5. ASSUME Written \/ (\E s \in Services : Uninstall(s)) \/ UNCHANGED proxyVars
      PROVE  (ProxyTypeOK /\ Ruled)'
  BY <1>5 DEF Written, Uninstall, proxyVars, RequestsInv, ProxyTypeOK, IsRule
<1>6. (ProxyTypeOK /\ Ruled)'
  BY <1>2, <1>3, <1>4, <1>5 DEF ProxyNext
<1> QED
  BY <1>1, <1>6 DEF RequestsInv

\* No segment of an action's path stands for a parameter or is a glob.
FixedPath(id) ==
  \A path \in {Manifests[id[1]].base, ActionOf(id).path} :
    \A i \in DOMAIN path : ~HasGlob(path[i]) /\ path[i] \notin DOMAIN Params

\* Whatever the query and the body say, what is sent matches the rule the request
\* was matched by; without parameters and globs it is what was asked for.
SentByItsRule ==
  response.outcome = "executed" =>
    /\ MatchesPath(matched.path, response.sent)
    /\ FixedPath(matched.id) => response.sent = asked.path

\* What is sent is what the matched action made of an input it accepted.
AnswerInv ==
  /\ asked = Nothing => response = Unanswered
  /\ response.outcome = "executed" =>
       /\ matched # Nothing /\ asked # Nothing
       /\ Accepted(matched.id, InputOf(matched.id, asked))
       /\ response.sent = ResolvedPath(matched.id, InputOf(matched.id, asked))

LEMMA AnswerInvInit == ProxyInit => AnswerInv
  BY DEF ProxyInit, AnswerInv, Unanswered

LEMMA AnswerInvStep == ASSUME AnswerInv, [ProxyNext]_proxyVars PROVE AnswerInv'
<1>1. ASSUME AnswerStep PROVE AnswerInv'
  <2>1. asked # Nothing /\ UNCHANGED <<asked, matched>>
    BY <1>1 DEF AnswerStep, Unmatched, BadBody, NotInstalled, InputRefused, KeyMissing, Executed, Respond
  <2>3. CASE Executed
    <3> DEFINE to == ResolvedPath(matched.id, InputOf(matched.id, asked))
    <3>1. /\ matched # Nothing /\ Accepted(matched.id, InputOf(matched.id, asked))
          /\ response' = [outcome |-> "executed", sent |-> to]
      BY <2>3 DEF Executed, Resolved, Respond
    <3>2. /\ Accepted(matched.id, InputOf(matched.id, asked))' <=> Accepted(matched.id, InputOf(matched.id, asked))
          /\ ResolvedPath(matched.id, InputOf(matched.id, asked))' = to
      BY <2>1
    <3> HIDE DEF to
    <3> QED
      BY <2>1, <3>1, <3>2 DEF AnswerInv
  <2>4. CASE Unmatched \/ BadBody \/ NotInstalled \/ InputRefused \/ KeyMissing
    <3>1. \A o, t : Respond(o, t) => response'.outcome = o
      BY DEF Respond
    <3>2. Unmatched => response'.outcome \in {"forwarded", "denied"}
      BY <3>1 DEF Unmatched
    <3>3. BadBody => response'.outcome = "unsupported body"
      BY <3>1 DEF BadBody
    <3>4. NotInstalled => response'.outcome = "action not found"
      BY <3>1 DEF NotInstalled
    <3>5. KeyMissing => response'.outcome = "key required"
      BY <3>1 DEF KeyMissing
    <3>7. InputRefused => response'.outcome = "invalid input"
      BY <3>1 DEF InputRefused
    <3>6. response'.outcome # "executed"
      BY <2>4, <3>2, <3>3, <3>4, <3>5, <3>7
    <3> QED
      BY <2>1, <3>6 DEF AnswerInv
  <2> QED
    BY <1>1, <2>3, <2>4 DEF AnswerStep
<1>2. ASSUME NEW q, Ask(q) PROVE AnswerInv'
  <2>1. response' = Unanswered
    BY <1>2 DEF Ask, AnswerInv
  <2> QED
    BY <2>1 DEF AnswerInv, Unanswered
<1>3. ASSUME Written PROVE AnswerInv'
  BY <1>3 DEF Written, AnswerInv, Unanswered
<1>4. ASSUME NEW s, AddRulesFromService(s) \/ Uninstall(s) PROVE AnswerInv'
  BY <1>4 DEF AddRulesFromService, Uninstall, AnswerInv
<1>5. ASSUME UNCHANGED proxyVars PROVE AnswerInv'
  BY <1>5 DEF proxyVars, AnswerInv
<1> QED
  BY <1>1, <1>2, <1>3, <1>4, <1>5 DEF ProxyNext

\* What an input holds is a text.
LEMMA InputIsText ==
  ASSUME NEW s \in Services, NEW a \in DOMAIN Manifests[s].actions, NEW q \in AgentRequests,
         NEW n \in DOMAIN InputOf(<<s, a>>, q)
  PROVE  InputOf(<<s, a>>, q)[n][2] \in Texts
<1> DEFINE act == Manifests[s].actions[a]
           said == ExtractInput(q)
           d == Defaults(<<s, a>>)
<1>1. \A m \in DOMAIN act.args : act.args[m].default[2] \in Texts
  BY ManifestsAssumption DEF Services
<1>2. \A m \in DOMAIN d : d[m][2] \in Texts
  <2>1. ActionOf(<<s, a>>) = act
    BY DEF ActionOf
  <2> HIDE DEF act
  <2> QED
    BY <1>1, <2>1 DEF Defaults
<1>3. \A m \in DOMAIN said : said[m][2] \in Texts
  <2> DEFINE own == CASE q.body.kind = "object" -> q.body.args
                      [] q.body.kind = "value" -> [x \in {"body"} |-> q.body.value]
                      [] OTHER -> << >>
  <2>1. \A m \in DOMAIN q.query : q.query[m][2] \in Texts
    BY RequestsAssumption
  <2>2. \A m \in DOMAIN own : own[m][2] \in Texts
    <3>1. CASE q.body.kind = "object"
      BY <3>1, RequestsAssumption
    <3>2. CASE q.body.kind = "value"
      <4>1. own = [x \in {"body"} |-> q.body.value]
        BY <3>2
      <4> HIDE DEF own
      <4> QED
        BY <3>2, <4>1, RequestsAssumption
    <3>3. CASE q.body.kind \notin {"object", "value"}
      BY <3>3
    <3> QED
      BY <3>1, <3>2, <3>3
  <2>3. said = Overlay(q.query, own)
    BY DEF ExtractInput
  <2> HIDE DEF own, said
  <2> QED
    BY <2>1, <2>2, <2>3 DEF Overlay
<1>4. InputOf(<<s, a>>, q) = Overlay(d, said)
  BY DEF InputOf
<1> HIDE DEF d, said
<1> QED
  BY <1>2, <1>3, <1>4 DEF Overlay

\* Whatever the query and the body of a request say, what is sent for it matches
\* the rule it was matched by, so that no other rule's path is sent; and where the
\* action has no parameter and no glob, it is the path the request asked for: the
\* path is lost only by a parameter (resolveURL, extractProxyInput, proxy.go:558).
THEOREM SentPathsMatch == ProxySpec => []SentByItsRule
<1>1. ASSUME RequestsInv, AnswerInv, response.outcome = "executed"
      PROVE  /\ MatchesPath(matched.path, response.sent)
             /\ FixedPath(matched.id) => response.sent = asked.path
  <2> DEFINE input == InputOf(matched.id, asked)
  <2>1. /\ matched # Nothing /\ asked # Nothing /\ asked \in AgentRequests
        /\ IsRule(matched) /\ RuleMatches(matched, asked)
    <3>1. matched # Nothing /\ asked # Nothing /\ asked \in AgentRequests
      BY <1>1 DEF AnswerInv, RequestsInv, ProxyTypeOK
    <3>2. matched = FirstMatch(rules, asked) /\ RuleList(rules) /\ \A i \in DOMAIN rules : IsRule(rules[i])
      BY <1>1, <3>1 DEF RequestsInv, RulesInv
    <3> QED
      BY <3>1, <3>2, MatchIsRule
  <2>2. PICK s \in Services : \E a \in DOMAIN Manifests[s].actions : matched = RuleOf(s, a)
    BY <2>1 DEF IsRule
  <2>3. PICK a \in DOMAIN Manifests[s].actions : matched = RuleOf(s, a)
    BY <2>2
  <2> DEFINE root == Manifests[s].base
             own == Manifests[s].actions[a].path
             path == root \o own
  <2>4. matched.id = <<s, a>> /\ matched.path = Wild(path)
    BY <2>3 DEF RuleOf
  <2>5. ActionOf(matched.id).path = own /\ Manifests[matched.id[1]].base = root
    BY <2>4 DEF ActionOf
  <2>6. IsSequence(root) /\ IsSequence(own) /\ \A i \in DOMAIN root : root[i] \notin DOMAIN Params
    BY ManifestsAssumption DEF Services
  <2>7. /\ response.sent = root \o [i \in DOMAIN own |-> Filled(own[i], input)]
        /\ PathParams(matched.id) \subseteq DOMAIN input
        /\ \A n \in DOMAIN input : input[n][2] \in Texts
    <3>1. /\ Accepted(matched.id, input) /\ response.sent = ResolvedPath(matched.id, input)
      BY <1>1 DEF AnswerInv
    <3>2. PathParams(matched.id) \subseteq DOMAIN input
      BY <3>1 DEF Accepted, ValidInput, Required
    <3>3. \A n \in DOMAIN input : input[n][2] \in Texts
      BY <2>1, <2>4, InputIsText
    <3> HIDE DEF input
    <3> QED
      BY <3>1, <3>2, <3>3, <2>5 DEF ResolvedPath
  <2>8. PathParams(matched.id) = {Params[p].name : p \in {own[i] : i \in DOMAIN own} \cap DOMAIN Params}
    BY <2>5 DEF PathParams
  <2>9. FixedPath(matched.id) <=>
          /\ \A i \in DOMAIN root : ~HasGlob(root[i]) /\ root[i] \notin DOMAIN Params
          /\ \A i \in DOMAIN own : ~HasGlob(own[i]) /\ own[i] \notin DOMAIN Params
    BY <2>5 DEF FixedPath
  <2> HIDE DEF input, root, own
  <2> DEFINE made == [i \in DOMAIN own |-> Filled(own[i], input)]
  <2>10. PICK k \in Nat : Len(root) = k /\ DOMAIN root = 1..k
    BY <2>6, SequenceFacts
  <2>11. PICK m \in Nat : Len(own) = m /\ DOMAIN own = 1..m
    BY <2>6, SequenceFacts
  <2>12. IsSequence(made) /\ Len(made) = m
    <3>1. made = [i \in 1..m |-> made[i]]
      BY <2>11
    <3> QED
      BY <3>1, FunctionIsSequence
  <2>13. /\ path = [i \in 1..k + m |-> IF i <= k THEN root[i] ELSE own[i - k]]
         /\ root \o made = [i \in 1..k + m |-> IF i <= k THEN root[i] ELSE made[i - k]]
         /\ Len(path) = k + m /\ Len(root \o made) = k + m
    BY <2>6, <2>10, <2>11, <2>12, JoinedSequences
  <2>14. ASSUME NEW i \in 1..m
         PROVE  /\ own[i] \in DOMAIN Params => MatchesGlob(Params[own[i]].glob, made[i])
                /\ own[i] \notin DOMAIN Params => made[i] = own[i]
    <3>1. made[i] = Filled(own[i], input)
      BY <2>11
    <3>2. CASE own[i] \notin DOMAIN Params
      BY <3>1, <3>2 DEF Filled
    <3>3. CASE own[i] \in DOMAIN Params
      <4> DEFINE p == Params[own[i]]
                 v == input[p.name][2]
      <4>1. p.name \in DOMAIN input
        BY <2>7, <2>8, <2>11, <3>3
      <4>2. v \in Texts
        BY <2>7, <4>1
      <4>3. p.glob = "*" \/ (p.glob # "*" /\ p.glob \in DOMAIN Globs)
        BY <3>3, GlobsAssumption
      <4>4. made[i] = IF p.glob = "*" THEN v ELSE Globs[p.glob][v]
        BY <3>1, <3>3 DEF Filled
      <4> HIDE DEF v, p
      <4>5. MatchesGlob(p.glob, made[i])
        BY <4>2, <4>3, <4>4 DEF MatchesGlob
      <4> QED
        BY <3>3, <4>5 DEF p
    <3> QED
      BY <3>2, <3>3
  <2> HIDE DEF made, path
  <2>15. MatchesPath(matched.path, response.sent)
    <3>1. PICK w : w = Wild(path)
      OBVIOUS
    <3>2. DOMAIN path = 1..k + m /\ k + m \in Nat
      BY <2>13
    <3>3. /\ DOMAIN w = 1..k + m
          /\ \A i \in 1..k + m : w[i] = IF path[i] \in DOMAIN Params THEN Params[path[i]].glob ELSE path[i]
      <4> QED
        BY <3>1, <3>2 DEF Wild
    <3>4. Len(w) = k + m
      <4>1. w = [i \in 1..k + m |-> w[i]]
        BY <3>1, <3>2, <3>3 DEF Wild
      <4> QED
        BY <3>2, <4>1, FunctionIsSequence
    <3>5. ASSUME NEW i \in 1..k + m PROVE MatchesGlob(w[i], (root \o made)[i])
      <4>1. CASE i <= k
        <5>1. path[i] = root[i] /\ (root \o made)[i] = root[i] /\ i \in DOMAIN root
          BY <2>10, <2>13, <4>1
        <5>2. w[i] = root[i]
          BY <2>6, <3>3, <5>1
        <5> QED
          BY <5>1, <5>2 DEF MatchesGlob
      <4>2. CASE i > k
        <5>1. path[i] = own[i - k] /\ (root \o made)[i] = made[i - k] /\ i - k \in 1..m
          BY <2>13, <4>2
        <5>2. w[i] = IF own[i - k] \in DOMAIN Params THEN Params[own[i - k]].glob ELSE own[i - k]
          BY <3>3, <5>1
        <5> PICK j \in 1..m : j = i - k
          BY <5>1
        <5>3. CASE own[j] \in DOMAIN Params
          <6>1. w[i] = Params[own[j]].glob
            BY <5>2, <5>3
          <6> QED
            BY <2>14, <5>1, <5>3, <6>1
        <5>4. CASE own[j] \notin DOMAIN Params
          <6>1. w[i] = own[j] /\ made[j] = own[j]
            BY <2>14, <5>2, <5>4
          <6> QED
            BY <5>1, <6>1 DEF MatchesGlob
        <5> QED
          BY <5>3, <5>4
      <4>3. i <= k \/ i > k
        <5>1. i \in Nat /\ k \in Nat
          BY <2>13
        <5> QED
          BY <5>1
      <4> QED
        BY <4>1, <4>2, <4>3, Zenon
    <3>6. matched.path = w /\ response.sent = root \o made
      BY <2>4, <2>7, <3>1 DEF made, path
    <3> QED
      BY <2>13, <3>3, <3>4, <3>5, <3>6 DEF MatchesPath
  <2>16. ASSUME FixedPath(matched.id) PROVE response.sent = asked.path
    <3>1. \A i \in 1..k + m : ~HasGlob(path[i]) /\ path[i] \notin DOMAIN Params
      <4>1. ASSUME NEW i \in 1..k + m PROVE ~HasGlob(path[i]) /\ path[i] \notin DOMAIN Params
        <5>1. CASE i <= k
          BY <2>9, <2>10, <2>13, <2>16, <5>1
        <5>2. CASE i > k
          <6>1. path[i] = own[i - k] /\ i - k \in 1..m
            BY <2>13, <5>2
          <6> QED
            BY <2>9, <2>11, <2>16, <6>1
        <5> QED
          BY <5>1, <5>2
      <4> QED
        BY <4>1
    <3>2. \A i \in 1..k + m : (root \o made)[i] = path[i]
      BY <2>9, <2>11, <2>13, <2>14, <2>16
    <3>3. DOMAIN path = 1..k + m /\ k + m \in Nat
      BY <2>13
    <3>4. Wild(path) = [i \in 1..k + m |-> path[i]]
      <4> QED
        BY <3>1, <3>3 DEF Wild
    <3>5. MatchesPath(Wild(path), asked.path)
      BY <2>1, <2>4 DEF RuleMatches, path
    <3>6. Len(Wild(path)) = k + m /\ DOMAIN Wild(path) = 1..k + m
      BY <3>3, <3>4, FunctionIsSequence
    <3>7. Len(asked.path) = k + m /\ \A i \in 1..k + m : asked.path[i] = path[i]
      BY <3>1, <3>4, <3>5, <3>6 DEF MatchesPath, MatchesGlob, HasGlob
    <3>8. asked.path = [i \in 1..k + m |-> asked.path[i]]
      <4> PICK q : q = asked.path
        OBVIOUS
      <4>1. q \in Seq({q[i] : i \in DOMAIN q}) /\ Len(q) = k + m
        BY <2>1, <3>7, RequestsAssumption DEF IsSequence
      <4> QED
        BY <4>1
    <3>9. root \o made = [i \in 1..k + m |-> (root \o made)[i]]
      BY <2>13
    <3> QED
      BY <2>7, <3>2, <3>7, <3>8, <3>9 DEF made
  <2> QED
    BY <2>15, <2>16
<1>2. ProxyInit => RequestsInv /\ AnswerInv
  BY RequestsInvInit, AnswerInvInit
<1>3. RequestsInv /\ AnswerInv /\ [ProxyNext]_proxyVars => RequestsInv' /\ AnswerInv'
  BY RequestsInvStep, AnswerInvStep
<1>4. RequestsInv /\ AnswerInv => SentByItsRule
  BY <1>1 DEF SentByItsRule
<1> QED
  BY <1>2, <1>3, <1>4, PTL DEF ProxySpec

-----------------------------------------------------------------------------
(***************************************************************************)
(* The filter of an output.  Sizes grow with what they are the sizes of.   *)
(***************************************************************************)
PlacesOf(f) == UNION {{x} \X (1..f[x]) : x \in DOMAIN f}

LEMMA PlacesFinite ==
  ASSUME NEW f, IsFiniteSet(DOMAIN f), \A x \in DOMAIN f : f[x] \in Nat
  PROVE  IsFiniteSet(PlacesOf(f)) /\ Total(f) = Cardinality(PlacesOf(f)) /\ Total(f) \in Nat
<1> DEFINE D == DOMAIN f
           h == [x \in D |-> {x} \X (1..f[x])]
           R == {h[x] : x \in D}
<1>1. IsFiniteSet(R)
  <2>1. h \in Surjection(D, R)
    BY DEF Surjection
  <2> HIDE DEF h, R
  <2> QED
    BY <2>1, FS_Surjection
<1>2. \A T \in R : IsFiniteSet(T)
  <2>1. ASSUME NEW x \in D PROVE IsFiniteSet({x} \X (1..f[x]))
    <3>1. IsFiniteSet({x})
      BY FS_Singleton
    <3>2. IsFiniteSet(1..f[x])
      <4>1. f[x] \in Int /\ 1 \in Int
        OBVIOUS
      <4> QED
        BY <4>1, FS_Interval
    <3> QED
      BY <3>1, <3>2, FS_Product
  <2> QED
    BY <2>1
<1>3. IsFiniteSet(UNION R)
  BY <1>1, <1>2, FS_UNION
<1>4. UNION R = PlacesOf(f)
  BY DEF PlacesOf
<1>5. Total(f) = Cardinality(PlacesOf(f))
  BY DEF Total, PlacesOf
<1> QED
  BY <1>3, <1>4, <1>5, FS_CardinalityType

LEMMA TotalGrows ==
  ASSUME NEW f, NEW g, IsFiniteSet(DOMAIN g), DOMAIN f \subseteq DOMAIN g,
         \A x \in DOMAIN g : g[x] \in Nat,
         \A x \in DOMAIN f : f[x] \in Nat /\ f[x] <= g[x]
  PROVE  Total(f) \in Nat /\ Total(g) \in Nat /\ Total(f) <= Total(g)
<1>1. IsFiniteSet(DOMAIN f)
  BY FS_Subset
<1>2. PlacesOf(f) \in SUBSET PlacesOf(g)
  <2>1. ASSUME NEW p \in PlacesOf(f) PROVE p \in PlacesOf(g)
    <3>1. PICK x \in DOMAIN f : p \in {x} \X (1..f[x])
      BY DEF PlacesOf
    <3>2. 1..f[x] \subseteq 1..g[x] /\ x \in DOMAIN g
      OBVIOUS
    <3>3. p \in {x} \X (1..g[x])
      BY <3>1, <3>2
    <3> QED
      BY <3>2, <3>3 DEF PlacesOf
  <2> QED
    BY <2>1
<1> QED
  BY <1>1, <1>2, PlacesFinite, FS_Subset

LEMMA TotalOfOne ==
  ASSUME NEW f, NEW n \in Nat, DOMAIN f = {1}, f[1] = n PROVE Total(f) = n
<1>1. IsFiniteSet({1}) /\ Cardinality({1}) = 1
  BY FS_Singleton
<1>2. IsFiniteSet(1..n) /\ Cardinality(1..n) = n
  <2>1. n \in Int /\ 1 \in Int /\ (1 > n => n = 0)
    OBVIOUS
  <2> QED
    BY <2>1, FS_Interval
<1>3. Cardinality({1} \X (1..n)) = n
  <2>1. Cardinality({1} \X (1..n)) = 1 * n
    BY <1>1, <1>2, FS_Product
  <2> QED
    BY <2>1
<1>4. PlacesOf(f) = {1} \X (1..n)
  BY DEF PlacesOf
<1> QED
  BY <1>3, <1>4 DEF Total, PlacesOf

LEMMA SizeOfItemTyped ==
  ASSUME NEW item, IsItem(item) PROVE SizeOfItem(item) \in Nat
<1> DEFINE f == [x \in DOMAIN item.fields |-> 1 + SizeOfValue(item.fields[x])]
<1>1. DOMAIN f = DOMAIN item.fields /\ \A x \in DOMAIN f : f[x] \in Nat
  BY DEF IsItem, SizeOfValue, Null
<1>2. IsFiniteSet(DOMAIN item.fields)
  BY DEF IsItem
<1>3. SizeOfItem(item) = 1 + Total(f)
  BY DEF SizeOfItem
<1> HIDE DEF f
<1>4. Total(f) \in Nat
  BY <1>1, <1>2, PlacesFinite
<1> QED
  BY <1>3, <1>4

\* An item with some of its fields, none of which grew, is not larger.
LEMMA SmallerItem ==
  ASSUME NEW item, NEW fields, IsItem(item),
         DOMAIN fields \subseteq DOMAIN item.fields,
         \A x \in DOMAIN fields : /\ fields[x] \in Nat \union {Null}
                                  /\ SizeOfValue(fields[x]) <= SizeOfValue(item.fields[x])
  PROVE  /\ IsItem([item EXCEPT !.fields = fields])
         /\ SizeOfItem([item EXCEPT !.fields = fields]) <= SizeOfItem(item)
<1> PICK new : new = [item EXCEPT !.fields = fields]
  OBVIOUS
<1>1. DOMAIN new = {"map", "fields"} /\ new.map = item.map /\ new.fields = fields
  BY DEF IsItem
<1>2. IsFiniteSet(DOMAIN item.fields) /\ \A x \in DOMAIN item.fields : item.fields[x] \in Nat \union {Null}
  BY DEF IsItem
<1>3. IsFiniteSet(DOMAIN fields)
  BY <1>2, FS_Subset
<1>4. IsItem(new)
  BY <1>1, <1>3 DEF IsItem
<1> DEFINE f == [x \in DOMAIN fields |-> 1 + SizeOfValue(fields[x])]
           g == [x \in DOMAIN item.fields |-> 1 + SizeOfValue(item.fields[x])]
<1>5. /\ DOMAIN f = DOMAIN fields /\ DOMAIN g = DOMAIN item.fields
      /\ \A x \in DOMAIN g : g[x] \in Nat
      /\ \A x \in DOMAIN f : f[x] \in Nat /\ f[x] <= g[x]
  <2>1. \A v \in Nat \union {Null} : SizeOfValue(v) \in Nat
    BY DEF SizeOfValue, Null
  <2> HIDE DEF Null
  <2> QED
    BY <1>2, <2>1
<1>6. SizeOfItem(new) = 1 + Total(f) /\ SizeOfItem(item) = 1 + Total(g)
  BY <1>1 DEF SizeOfItem
<1> HIDE DEF f, g
<1>7. Total(f) \in Nat /\ Total(g) \in Nat /\ Total(f) <= Total(g)
  BY <1>2, <1>5, TotalGrows
<1> QED
  BY <1>4, <1>6, <1>7

\* The parts of an output's size.
ItemSizes(out) == [i \in DOMAIN out.items |-> SizeOfItem(out.items[i])]
LineSizes(out) == [i \in DOMAIN out.text |-> out.text[i].size]

LEMMA SizeOfParts ==
  ASSUME NEW out, IsOutput(out)
  PROVE  /\ SizeOf(out) = 1 + out.beside + Total(ItemSizes(out)) + Total(LineSizes(out))
         /\ DOMAIN ItemSizes(out) = DOMAIN out.items /\ DOMAIN LineSizes(out) = DOMAIN out.text
         /\ IsFiniteSet(DOMAIN out.items) /\ IsFiniteSet(DOMAIN out.text)
         /\ \A i \in DOMAIN out.items : ItemSizes(out)[i] \in Nat
         /\ \A i \in DOMAIN out.text : LineSizes(out)[i] \in Nat
         /\ out.beside \in Nat /\ SizeOf(out) \in Nat
         /\ Total(ItemSizes(out)) \in Nat /\ Total(LineSizes(out)) \in Nat
<1>1. PICK n \in Nat, m \in Nat : DOMAIN out.items = 1..n /\ DOMAIN out.text = 1..m /\ Len(out.text) = m
  BY SequenceFacts DEF IsOutput
<1>2. IsFiniteSet(1..n) /\ IsFiniteSet(1..m)
  <2>1. n \in Int /\ m \in Int /\ 1 \in Int
    OBVIOUS
  <2> QED
    BY <2>1, FS_Interval
<1>3. DOMAIN ItemSizes(out) = DOMAIN out.items /\ DOMAIN LineSizes(out) = DOMAIN out.text
  BY DEF ItemSizes, LineSizes
<1>4. \A i \in DOMAIN out.items : ItemSizes(out)[i] \in Nat
  BY SizeOfItemTyped DEF IsOutput, ItemSizes
<1>5. \A i \in DOMAIN out.text : LineSizes(out)[i] \in Nat
  BY DEF IsOutput, IsLine, LineSizes
<1>6. Total(ItemSizes(out)) \in Nat /\ Total(LineSizes(out)) \in Nat
  BY <1>1, <1>2, <1>3, <1>4, <1>5, PlacesFinite
<1>8. SizeOf(out) = 1 + out.beside + Total(ItemSizes(out)) + Total(LineSizes(out))
  BY DEF SizeOf, SizeOfText, ItemSizes, LineSizes
<1>9. out.beside \in Nat
  BY DEF IsOutput
<1> QED
  BY <1>1, <1>2, <1>3, <1>4, <1>5, <1>6, <1>8, <1>9

LEMMA SmallerOutput ==
  ASSUME NEW o, NEW p, IsOutput(o), IsOutput(p), p.beside <= o.beside,
         DOMAIN p.items \subseteq DOMAIN o.items,
         \A i \in DOMAIN p.items : SizeOfItem(p.items[i]) <= SizeOfItem(o.items[i]),
         Total(LineSizes(p)) <= Total(LineSizes(o))
  PROVE  SizeOf(p) <= SizeOf(o)
<1>1. \A i \in DOMAIN p.items : ItemSizes(p)[i] <= ItemSizes(o)[i]
  BY DEF ItemSizes
<1>2. /\ Total(ItemSizes(p)) \in Nat /\ Total(ItemSizes(o)) \in Nat
      /\ Total(ItemSizes(p)) <= Total(ItemSizes(o))
  BY <1>1, SizeOfParts, TotalGrows
<1>3. /\ SizeOf(o) = 1 + o.beside + Total(ItemSizes(o)) + Total(LineSizes(o))
      /\ SizeOf(p) = 1 + p.beside + Total(ItemSizes(p)) + Total(LineSizes(p))
      /\ o.beside \in Nat /\ p.beside \in Nat
      /\ Total(LineSizes(o)) \in Nat /\ Total(LineSizes(p)) \in Nat
  BY SizeOfParts
<1> QED
  BY <1>2, <1>3

LEMMA FirstItemsTyped ==
  ASSUME NEW out, IsOutput(out), NEW n \in 0..Len(out.items)
  PROVE  /\ IsOutput(FirstItems(out, n))
         /\ DOMAIN FirstItems(out, n).items = 1..n /\ Len(FirstItems(out, n).items) = n
         /\ \A i \in 1..n : FirstItems(out, n).items[i] = out.items[i]
         /\ FirstItems(out, n).beside = out.beside /\ FirstItems(out, n).text = out.text
<1> PICK p : p = FirstItems(out, n)
  OBVIOUS
<1> PICK m \in Nat : m = Len(out.items) /\ DOMAIN out.items = 1..m
  BY SequenceFacts DEF IsOutput
<1> PICK q : q = SubSeq(out.items, 1, n)
  OBVIOUS
<1>1. q = [i \in 1..n |-> out.items[i]] /\ n \in Nat
  BY DEF IsOutput, IsSequence
<1>2. IsSequence(q) /\ Len(q) = n /\ DOMAIN q = 1..n
  BY <1>1, FunctionIsSequence
<1>3. /\ DOMAIN p = DOMAIN out /\ p.items = q /\ p.text = out.text /\ p.beside = out.beside
  BY DEF FirstItems, IsOutput
<1>4. \A i \in 1..n : q[i] = out.items[i] /\ IsItem(q[i])
  BY <1>1 DEF IsOutput
<1>5. IsOutput(p)
  BY <1>2, <1>3, <1>4 DEF IsOutput
<1> QED
  BY <1>2, <1>3, <1>4, <1>5

LEMMA FirstItemsGrow ==
  ASSUME NEW out, IsOutput(out), NEW m \in 0..Len(out.items), NEW n \in 0..Len(out.items), m <= n
  PROVE  SizeOf(FirstItems(out, m)) <= SizeOf(FirstItems(out, n))
<1> PICK o : o = FirstItems(out, n)
  OBVIOUS
<1> PICK p : p = FirstItems(out, m)
  OBVIOUS
<1>1. /\ IsOutput(o) /\ DOMAIN o.items = 1..n /\ \A i \in 1..n : o.items[i] = out.items[i]
      /\ o.beside = out.beside /\ o.text = out.text
  BY FirstItemsTyped
<1>2. /\ IsOutput(p) /\ DOMAIN p.items = 1..m /\ \A i \in 1..m : p.items[i] = out.items[i]
      /\ p.beside = out.beside /\ p.text = out.text
  BY FirstItemsTyped
<1>3. 1..m \subseteq 1..n
  OBVIOUS
<1>4. \A i \in DOMAIN p.items : SizeOfItem(p.items[i]) <= SizeOfItem(o.items[i])
  <2>1. ASSUME NEW i \in 1..m PROVE SizeOfItem(p.items[i]) <= SizeOfItem(o.items[i])
    <3>1. p.items[i] = o.items[i] /\ IsItem(p.items[i])
      BY <1>1, <1>2, <1>3 DEF IsOutput
    <3>2. SizeOfItem(p.items[i]) \in Nat
      BY <3>1, SizeOfItemTyped
    <3> QED
      BY <3>1, <3>2
  <2> QED
    BY <1>2, <2>1
<1>5. Total(LineSizes(p)) <= Total(LineSizes(o)) /\ p.beside <= o.beside
  <2>1. LineSizes(p) = LineSizes(o)
    BY <1>1, <1>2 DEF LineSizes
  <2>2. Total(LineSizes(o)) \in Nat /\ o.beside \in Nat
    BY <1>1, SizeOfParts
  <2> QED
    BY <1>1, <1>2, <2>1, <2>2
<1> QED
  BY <1>1, <1>2, <1>3, <1>4, <1>5, SmallerOutput

LEMMA AllItems ==
  ASSUME NEW out, IsOutput(out)
  PROVE  /\ Len(out.items) \in Nat
         /\ SizeOf(FirstItems(out, Len(out.items))) <= SizeOf(out)
<1> PICK m \in Nat : m = Len(out.items) /\ DOMAIN out.items = 1..m
  BY SequenceFacts DEF IsOutput
<1> PICK p : p = FirstItems(out, m)
  OBVIOUS
<1>1. /\ IsOutput(p) /\ DOMAIN p.items = 1..m /\ \A i \in 1..m : p.items[i] = out.items[i]
      /\ p.beside = out.beside /\ p.text = out.text
  BY FirstItemsTyped
<1>2. \A i \in 1..m : SizeOfItem(p.items[i]) = SizeOfItem(out.items[i]) /\ SizeOfItem(out.items[i]) \in Nat
  BY <1>1, SizeOfItemTyped DEF IsOutput
<1>3. Total(LineSizes(p)) <= Total(LineSizes(out)) /\ p.beside <= out.beside
  <2>1. LineSizes(p) = LineSizes(out)
    BY <1>1 DEF LineSizes
  <2>2. Total(LineSizes(out)) \in Nat /\ out.beside \in Nat
    BY SizeOfParts
  <2> QED
    BY <1>1, <2>1, <2>2
<1>4. SizeOf(p) <= SizeOf(out)
  BY <1>1, <1>2, <1>3, SmallerOutput
<1> QED
  BY <1>4

\* Strings are cut to a length they had at least.
LEMMA CutStringsTyped ==
  ASSUME NEW out, IsOutput(out), NEW t \in Nat
  PROVE  /\ IsOutput(CutStrings(out, t)) /\ SizeOf(CutStrings(out, t)) <= SizeOf(out)
         /\ Len(CutStrings(out, t).items) = Len(out.items)
<1> PICK m \in Nat : m = Len(out.items) /\ DOMAIN out.items = 1..m
  BY SequenceFacts DEF IsOutput
<1>0. Dots \in Nat
  BY FilterAssumption
<1>1. ASSUME NEW v \in Nat \union {Null}
      PROVE  CutValue(v, t) \in Nat \union {Null} /\ SizeOfValue(CutValue(v, t)) <= SizeOfValue(v)
  BY <1>0 DEF CutValue, SizeOfValue, Null
<1> PICK items : items = [i \in 1..m |-> CutItem(out.items[i], t)]
  OBVIOUS
<1> PICK text : text = CutText(out.text, t)
  OBVIOUS
<1>2. CutStrings(out, t) = [out EXCEPT !.items = items, !.text = text, !.beside = CutValue(out.beside, t)]
  BY DEF CutStrings
<1>3. ASSUME NEW i \in 1..m PROVE IsItem(items[i]) /\ SizeOfItem(items[i]) <= SizeOfItem(out.items[i])
  <2>1. PICK item : item = out.items[i]
    OBVIOUS
  <2>2. PICK fields : fields = [f \in DOMAIN item.fields |-> CutValue(item.fields[f], t)]
    OBVIOUS
  <2>3. IsItem(item)
    BY <1>3, <2>1 DEF IsOutput
  <2>4. DOMAIN fields = DOMAIN item.fields
    BY <2>1, <2>2
  <2>5. \A x \in DOMAIN fields : /\ fields[x] \in Nat \union {Null}
                                 /\ SizeOfValue(fields[x]) <= SizeOfValue(item.fields[x])
    BY <1>1, <2>2, <2>3 DEF IsItem
  <2>6. items[i] = [item EXCEPT !.fields = fields]
    BY <2>1, <2>2 DEF CutItem
  <2> QED
    BY <2>1, <2>3, <2>4, <2>5, <2>6, SmallerItem
<1>4. /\ IsSequence(text) /\ \A i \in DOMAIN text : IsLine(text[i])
      /\ Total([i \in DOMAIN text |-> text[i].size]) <= Total(LineSizes(out))
  <2> PICK size \in Nat : size = t + Dots
    BY <1>0
  <2>1. Total(LineSizes(out)) \in Nat /\ Total(LineSizes(out)) = SizeOfText(out.text)
    BY SizeOfParts DEF SizeOfText, LineSizes
  <2>2. CASE SizeOfText(out.text) > size
    <3> DEFINE last == [line |-> "cut", times |-> 1, size |-> size]
    <3>1. text = <<last>>
      BY <2>2 DEF CutText
    <3>2. DOMAIN last = {"line", "times", "size"} /\ last.size = size
      OBVIOUS
    <3> HIDE DEF last
    <3>3. text = [i \in 1..1 |-> text[i]] /\ DOMAIN text = {1} /\ text[1] = last
      BY <3>1
    <3>4. IsSequence(text)
      BY <3>3, FunctionIsSequence
    <3> DEFINE sizes == [i \in DOMAIN text |-> text[i].size]
    <3>5. DOMAIN sizes = {1} /\ sizes[1] = size
      BY <3>2, <3>3
    <3> HIDE DEF sizes
    <3>6. Total(sizes) = size
      BY <3>5, TotalOfOne
    <3>7. \A i \in DOMAIN text : IsLine(text[i])
      BY <3>2, <3>3 DEF IsLine
    <3> QED
      BY <2>1, <2>2, <3>4, <3>6, <3>7 DEF sizes
  <2>3. CASE ~(SizeOfText(out.text) > size)
    <3>1. text = out.text
      BY <2>3 DEF CutText
    <3> QED
      BY <2>1, <3>1 DEF LineSizes, IsOutput
  <2> QED
    BY <2>2, <2>3
<1>5. IsSequence(items) /\ DOMAIN items = 1..m /\ Len(items) = m
  BY FunctionIsSequence
<1>6. CutValue(out.beside, t) \in Nat /\ CutValue(out.beside, t) <= out.beside
  <2>1. out.beside \in Nat
    BY DEF IsOutput
  <2> QED
    BY <1>0, <2>1 DEF CutValue
<1> PICK p : p = CutStrings(out, t)
  OBVIOUS
<1>7. /\ DOMAIN p = DOMAIN out /\ p.items = items /\ p.text = text
      /\ p.beside = CutValue(out.beside, t)
  BY <1>2 DEF IsOutput
<1>8. IsOutput(p)
  BY <1>3, <1>4, <1>5, <1>6, <1>7 DEF IsOutput
<1>9. Total(LineSizes(p)) <= Total(LineSizes(out))
  BY <1>4, <1>7 DEF LineSizes
<1> QED
  BY <1>3, <1>5, <1>6, <1>7, <1>8, <1>9, SmallerOutput

(***************************************************************************)
(* The filters keep an output one.                                         *)
(***************************************************************************)
LEMMA KeepingTyped ==
  ASSUME NEW item, NEW names, IsItem(item), item.map
  PROVE  IsItem([item EXCEPT !.fields = Keeping(item.fields, names)])
<1> PICK f : f = Keeping(item.fields, names)
  OBVIOUS
<1>1. DOMAIN f \subseteq DOMAIN item.fields /\ \A x \in DOMAIN f : f[x] = item.fields[x]
  BY DEF Keeping
<1>2. \A x \in DOMAIN item.fields : item.fields[x] \in Nat \union {Null}
                                  /\ SizeOfValue(item.fields[x]) \in Nat
  BY DEF IsItem, SizeOfValue, Null
<1>3. \A x \in DOMAIN f : f[x] \in Nat \union {Null} /\ SizeOfValue(f[x]) <= SizeOfValue(item.fields[x])
  BY <1>1, <1>2
<1> QED
  BY <1>1, <1>3, SmallerItem

ItemList(s) == IsSequence(s) /\ \A i \in DOMAIN s : IsItem(s[i])

LEMMA ProjectTyped == ASSUME NEW s, NEW c, ItemList(s) PROVE ItemList(Project(s, c))
<1> PICK n \in Nat : DOMAIN s = 1..n
  BY SequenceFacts DEF ItemList
<1> DEFINE r == [i \in 1..n |-> IF s[i].map THEN [s[i] EXCEPT !.fields = Keeping(s[i].fields, c.select)]
                                ELSE s[i]]
<1>1. Project(s, c) = IF c.select = {} THEN s ELSE r
  BY DEF Project, OnMaps
<1>2. \A i \in 1..n : IsItem(r[i])
  BY KeepingTyped DEF ItemList
<1>3. IsSequence(r) /\ DOMAIN r = 1..n
  BY FunctionIsSequence
<1> HIDE DEF r
<1> QED
  BY <1>1, <1>2, <1>3 DEF ItemList

LEMMA ExcludeTyped == ASSUME NEW s, NEW c, ItemList(s) PROVE ItemList(Exclude(s, c))
<1> PICK n \in Nat : DOMAIN s = 1..n
  BY SequenceFacts DEF ItemList
<1> DEFINE names(i) == DOMAIN s[i].fields \ c.exclude
           r == [i \in 1..n |-> IF s[i].map THEN [s[i] EXCEPT !.fields = Keeping(s[i].fields, names(i))]
                                ELSE s[i]]
<1>1. Exclude(s, c) = r
  BY DEF Exclude, OnMaps
<1> HIDE DEF names
<1>2. \A i \in 1..n : IsItem(r[i])
  BY KeepingTyped DEF ItemList
<1>3. IsSequence(r) /\ DOMAIN r = 1..n
  BY FunctionIsSequence
<1> HIDE DEF r
<1> QED
  BY <1>1, <1>2, <1>3 DEF ItemList

LEMMA DropNullsTyped == ASSUME NEW s, NEW c, ItemList(s) PROVE ItemList(DropNulls(s, c))
<1> PICK n \in Nat : DOMAIN s = 1..n
  BY SequenceFacts DEF ItemList
<1> DEFINE names(i) == {f \in DOMAIN s[i].fields : s[i].fields[f] # Null}
           r == [i \in 1..n |-> IF s[i].map THEN [s[i] EXCEPT !.fields = Keeping(s[i].fields, names(i))]
                                ELSE s[i]]
<1>1. DropNulls(s, c) = IF c.dropNulls THEN r ELSE s
  BY DEF DropNulls, OnMaps
<1> HIDE DEF names
<1>2. \A i \in 1..n : IsItem(r[i])
  BY KeepingTyped DEF ItemList
<1>3. IsSequence(r) /\ DOMAIN r = 1..n
  BY FunctionIsSequence
<1> HIDE DEF r
<1> QED
  BY <1>1, <1>2, <1>3 DEF ItemList

LEMMA MaxItemsTyped ==
  ASSUME NEW s, IsSequence(s), NEW n \in Nat
  PROVE  /\ IsSequence(MaxItems(s, n))
         /\ \A i \in DOMAIN MaxItems(s, n) : i \in DOMAIN s /\ MaxItems(s, n)[i] = s[i]
<1> PICK m \in Nat : m = Len(s) /\ DOMAIN s = 1..m
  BY SequenceFacts
<1>1. CASE n > 0 /\ m > n
  <2> PICK q : q = SubSeq(s, 1, n)
    OBVIOUS
  <2>1. q = [i \in 1..n |-> s[i]]
    BY <1>1 DEF IsSequence
  <2>2. IsSequence(q) /\ DOMAIN q = 1..n
    <3>1. q = [i \in 1..n |-> q[i]]
      BY <2>1
    <3> QED
      BY <2>1, <3>1, FunctionIsSequence
  <2>3. \A i \in 1..n : i \in 1..m
    BY <1>1
  <2>4. MaxItems(s, n) = q
    BY <1>1 DEF MaxItems
  <2> QED
    BY <2>1, <2>2, <2>3, <2>4
<1>2. CASE ~(n > 0 /\ m > n)
  <2>1. MaxItems(s, n) = s
    BY <1>2 DEF MaxItems
  <2> QED
    BY <2>1
<1> QED
  BY <1>1, <1>2

LEMMA FilteredTyped ==
  ASSUME NEW out, IsOutput(out), NEW c \in Configs PROVE IsOutput(Filtered(out, c))
<1> PICK s : s = Limited(out, c)
  OBVIOUS
<1> PICK r : r = DropNulls(Exclude(Project(s, c), c), c)
  OBVIOUS
<1>1. ItemList(s)
  <2>1. c.maxItems \in Nat /\ IsSequence(out.items) /\ \A i \in DOMAIN out.items : IsItem(out.items[i])
    BY FilterAssumption DEF IsOutput
  <2> QED
    BY <2>1, MaxItemsTyped DEF Limited, ItemList
<1>2. ItemList(r)
  BY <1>1, ProjectTyped, ExcludeTyped, DropNullsTyped
<1>3. Filtered(out, c) \in {out, [out EXCEPT !.items = r]}
  BY DEF Filtered
<1> PICK p : p = [out EXCEPT !.items = r]
  OBVIOUS
<1>4. DOMAIN p = DOMAIN out /\ p.items = r /\ p.text = out.text /\ p.beside = out.beside
  BY DEF IsOutput
<1>5. IsOutput(p)
  BY <1>2, <1>4 DEF IsOutput, ItemList
<1> QED
  BY <1>3, <1>5

LEMMA SequenceElements ==
  ASSUME NEW T, NEW s \in Seq(T)
  PROVE  Len(s) \in Nat /\ DOMAIN s = 1..Len(s) /\ \A i \in 1..Len(s) : s[i] \in T
  OBVIOUS

LineList(s) == IsSequence(s) /\ \A i \in DOMAIN s : IsLine(s[i])

LEMMA SelectedLines == ASSUME NEW s, NEW S, LineList(s) PROVE LineList(Selected(s, S))
<1> PICK T : T = {s[i] : i \in DOMAIN s}
  OBVIOUS
<1> PICK r : r = Selected(s, S)
  OBVIOUS
<1>1. s \in Seq(T)
  BY DEF LineList, IsSequence
<1>2. r \in Seq(T)
  BY <1>1, SelectedIsSet
<1>3. \A x \in T : IsLine(x)
  BY DEF LineList
<1>4. PICK n \in Nat : DOMAIN r = 1..n /\ r = [i \in 1..n |-> r[i]] /\ \A i \in 1..n : r[i] \in T
  BY <1>2
<1> QED
  BY <1>3, <1>4, FunctionIsSequence DEF LineList

LEMMA FoldedLines == ASSUME NEW s, LineList(s) PROVE LineList(FoldRuns(s))
<1> PICK n \in Nat : n = Len(s) /\ DOMAIN s = 1..n
  BY SequenceFacts DEF LineList
<1> PICK heads : heads = {i \in DOMAIN s : i = 1 \/ s[i].line # s[i - 1].line}
  OBVIOUS
<1> PICK all : all = [i \in 1..n |-> i]
  OBVIOUS
<1> PICK first : first = Selected(all, heads)
  OBVIOUS
<1>1. all \in Seq(1..n)
  OBVIOUS
<1>2. first \in Seq(1..n)
  BY <1>1, SelectedIsSet
<1>3. PICK m \in Nat : m = Len(first) /\ DOMAIN first = 1..m /\ \A k \in 1..m : first[k] \in 1..n
  BY <1>2, SequenceElements
<1> DEFINE times(k) == (IF k < Len(first) THEN first[k + 1] ELSE Len(s) + 1) - first[k]
           r == [k \in 1..m |-> [s[first[k]] EXCEPT !.times = times(k)]]
<1>4. FoldRuns(s) = r
  BY <1>3 DEF FoldRuns
<1> HIDE DEF times
<1>5. ASSUME NEW k \in 1..m PROVE IsLine(r[k])
  <2>1. IsLine(s[first[k]])
    BY <1>3, <1>5 DEF LineList
  <2>2. r[k] = [s[first[k]] EXCEPT !.times = times(k)]
    OBVIOUS
  <2> HIDE DEF r
  <2>3. DOMAIN r[k] = DOMAIN s[first[k]] /\ r[k].size = s[first[k]].size
    BY <2>1, <2>2 DEF IsLine
  <2> QED
    BY <2>1, <2>3 DEF IsLine
<1>6. IsSequence(r) /\ DOMAIN r = 1..m
  BY FunctionIsSequence
<1> HIDE DEF r
<1> QED
  BY <1>4, <1>5, <1>6 DEF LineList

LEMMA TextFilteredTyped ==
  ASSUME NEW out, IsOutput(out), NEW c \in Configs PROVE IsOutput(TextFiltered(out, c))
<1> DEFINE stays == {l \in ToSet(out.text) : l.line \notin c.strip /\ (c.keep = {} \/ l.line \in c.keep)}
           stay == Selected(out.text, stays)
           folded == IF c.dedup THEN FoldRuns(stay) ELSE stay
<1> PICK r : r = MaxItems(folded, c.maxLines)
  OBVIOUS
<1>1. LineList(out.text)
  BY DEF IsOutput, LineList
<1>2. TextFiltered(out, c) \in {out, [out EXCEPT !.text = r]}
  BY DEF TextFiltered
<1> HIDE DEF stays
<1>3. LineList(folded)
  <2>1. LineList(stay)
    BY <1>1, SelectedLines
  <2> HIDE DEF stay
  <2> QED
    BY <2>1, FoldedLines
<1> HIDE DEF folded
<1>4. LineList(r)
  <2>1. c.maxLines \in Nat /\ IsSequence(folded) /\ \A i \in DOMAIN folded : IsLine(folded[i])
    BY <1>3, FilterAssumption DEF LineList
  <2> QED
    BY <2>1, MaxItemsTyped DEF LineList
<1> PICK p : p = [out EXCEPT !.text = r]
  OBVIOUS
<1>5. DOMAIN p = DOMAIN out /\ p.items = out.items /\ p.text = r /\ p.beside = out.beside
  BY DEF IsOutput
<1>6. IsOutput(p)
  BY <1>4, <1>5 DEF IsOutput, LineList
<1> QED
  BY <1>2, <1>6

(***************************************************************************)
(* The invariant.  While the search runs, what is below lo fits and what   *)
(* is above hi does not; strings are cut only of what is then too large    *)
(* without any item.                                                       *)
(***************************************************************************)
Fits(k) == SizeOf(FirstItems(base, k)) <= config.budget

BudgetInv ==
  /\ original \in Outputs /\ config \in Configs
  /\ phase \in {"filter", "text", "budget", "search", "cut", "compact", "done"}
  /\ phase # "done" => IsOutput(output) /\ IsOutput(base)
  /\ phase = "search" =>
       /\ output = base /\ base.kind = "list"
       /\ lo \in Nat /\ hi \in Nat /\ lo <= hi /\ hi <= Len(base.items)
       /\ lo = 0 \/ Fits(lo)
       /\ \A k \in hi + 1..Len(base.items) : ~Fits(k)
  /\ phase = "cut" =>
       /\ threshold \in Nat /\ SizeOf(output) <= SizeOf(base)
       /\ base.kind = "list" => Len(output.items) = 0 /\ ~Fits(0)
  /\ BudgetKeepsTheMost

LEMMA BudgetInvInit == FilterInit => BudgetInv
  BY FilterAssumption DEF FilterInit, BudgetInv, BudgetKeepsTheMost

LEMMA HalfIsNumber == ASSUME NEW n \in Nat PROVE n \div 2 \in Nat /\ n \div 2 <= n
  OBVIOUS

LEMMA LargerOfTwo == ASSUME NEW a \in Nat, NEW b \in Nat PROVE Max({a, b}) \in Nat
<1>1. \E x \in {a, b} : \A y \in {a, b} : x >= y
  OBVIOUS
<1> QED
  BY <1>1 DEF Max

LEMMA CuttingStarts == ASSUME BudgetInv, StartCutting PROVE threshold' \in Nat
<1>1. config.budget \in Nat /\ Floor \in Nat
  BY FilterAssumption DEF BudgetInv
<1>2. config.budget \div 2 \in Nat
  BY <1>1, HalfIsNumber
<1> QED
  BY <1>1, <1>2, LargerOfTwo DEF StartCutting

LEMMA BudgetInvStep == ASSUME BudgetInv, [FilterNext]_filterVars PROVE BudgetInv'
<1>0. config.budget \in Nat /\ config \in Configs
  BY FilterAssumption DEF BudgetInv
<1>1. ASSUME ApplyFilter PROVE BudgetInv'
  <2>1. /\ phase = "filter" /\ phase' \in {"done", "text"} /\ output' \in {output, Filtered(output, config)}
        /\ UNCHANGED <<original, config, base>>
    BY <1>1 DEF ApplyFilter, Stay
  <2>2. IsOutput(output')
    BY <2>1, FilteredTyped DEF BudgetInv
  <2> QED
    BY <2>1, <2>2 DEF BudgetInv, BudgetKeepsTheMost
<1>2. ASSUME ApplyTextFilter PROVE BudgetInv'
  <2>1. /\ phase = "text" /\ phase' \in {"done", "budget"} /\ output' = TextFiltered(output, config)
        /\ UNCHANGED <<original, config, base>>
    BY <1>2 DEF ApplyTextFilter, Stay
  <2>2. IsOutput(output')
    BY <2>1, TextFilteredTyped DEF BudgetInv
  <2> QED
    BY <2>1, <2>2 DEF BudgetInv, BudgetKeepsTheMost
<1>3. ASSUME ApplyBudget PROVE BudgetInv'
  <2>1. phase = "budget" /\ base' = output /\ UNCHANGED <<original, config, output>> /\ IsOutput(output)
    BY <1>3 DEF ApplyBudget, Stay, BudgetInv
  <2>2. SizeOf(output) \in Nat /\ Len(output.items) \in Nat
        /\ SizeOf(FirstItems(output, Len(output.items))) <= SizeOf(output)
        /\ SizeOf(FirstItems(output, Len(output.items))) \in Nat
    <3>1. Len(output.items) \in 0..Len(output.items)
      BY <2>1, AllItems
    <3> QED
      BY <2>1, <3>1, AllItems, SizeOfParts, FirstItemsTyped
  <2>3. CASE config.budget = 0 \/ SizeOf(output) <= config.budget
    <3>1. phase' = "compact"
      BY <1>3, <2>3 DEF ApplyBudget
    <3>2. config.budget = 0 \/ SizeOf(FirstItems(output, Len(output.items))) <= config.budget
      BY <1>0, <2>2, <2>3
    <3> QED
      BY <2>1, <2>2, <3>1, <3>2 DEF BudgetInv, BudgetKeepsTheMost
  <2>4. CASE ~(config.budget = 0 \/ SizeOf(output) <= config.budget) /\ output.kind = "list"
    <3>1. phase' = "search" /\ lo' = 0 /\ hi' = Len(output.items)
      BY <1>3, <2>4 DEF ApplyBudget
    <3>2. \A k \in hi' + 1..Len(base'.items) : FALSE
      BY <2>1, <2>2, <3>1
    <3> QED
      BY <2>1, <2>2, <2>4, <3>1, <3>2 DEF BudgetInv, BudgetKeepsTheMost
  <2>5. CASE ~(config.budget = 0 \/ SizeOf(output) <= config.budget) /\ output.kind # "list"
    <3>1. phase' = "cut" /\ StartCutting
      BY <1>3, <2>5 DEF ApplyBudget
    <3>2. threshold' \in Nat
      BY <3>1, CuttingStarts
    <3> QED
      BY <2>1, <2>2, <2>5, <3>1, <3>2 DEF BudgetInv, BudgetKeepsTheMost
  <2> QED
    BY <2>3, <2>4, <2>5
<1>4. ASSUME Search PROVE BudgetInv'
  <2> DEFINE mid == (lo + hi + 1) \div 2
  <2>1. /\ phase = "search" /\ phase' = phase /\ lo < hi
        /\ UNCHANGED <<original, config, output, base>>
        /\ IF Fits(mid) THEN lo' = mid /\ hi' = hi ELSE hi' = mid - 1 /\ lo' = lo
    BY <1>4 DEF Search, Stay, Fits
  <2>2. /\ output = base /\ base.kind = "list" /\ IsOutput(base)
        /\ lo \in Nat /\ hi \in Nat /\ lo <= hi /\ hi <= Len(base.items)
        /\ lo = 0 \/ Fits(lo)
        /\ \A k \in hi + 1..Len(base.items) : ~Fits(k)
    BY <2>1 DEF BudgetInv
  <2>3. PICK n \in Nat : n = Len(base.items)
    BY <2>2, AllItems
  <2>4. mid \in Nat /\ lo < mid /\ mid <= hi
    BY <2>1, <2>2
  <2> HIDE DEF mid
  <2>5. ASSUME ~Fits(mid), NEW k \in mid..n PROVE ~Fits(k)
    <3>1. mid \in 0..n /\ k \in 0..n /\ mid <= k
      BY <2>2, <2>3, <2>4
    <3>2. SizeOf(FirstItems(base, mid)) <= SizeOf(FirstItems(base, k))
      BY <2>2, <2>3, <3>1, FirstItemsGrow
    <3>3. SizeOf(FirstItems(base, mid)) \in Nat /\ SizeOf(FirstItems(base, k)) \in Nat
      BY <2>2, <2>3, <3>1, FirstItemsTyped, SizeOfParts
    <3> QED
      BY <1>0, <2>5, <3>2, <3>3 DEF Fits
  <2>6. \A k : Fits(k)' <=> Fits(k)
    BY <2>1 DEF Fits
  <2>7. CASE Fits(mid)
    <3>1. lo' = mid /\ hi' = hi
      BY <2>1, <2>7
    <3> QED
      BY <2>1, <2>2, <2>4, <2>6, <2>7, <3>1 DEF BudgetInv, BudgetKeepsTheMost
  <2>8. CASE ~Fits(mid)
    <3>1. hi' = mid - 1 /\ lo' = lo
      BY <2>1, <2>8
    <3>2. hi' \in Nat /\ lo <= hi' /\ hi' <= n
      BY <2>2, <2>3, <2>4, <3>1
    <3>3. \A k \in hi' + 1..n : ~Fits(k)
      BY <2>4, <2>5, <2>8, <3>1
    <3> QED
      BY <2>1, <2>2, <2>3, <2>6, <3>1, <3>2, <3>3 DEF BudgetInv, BudgetKeepsTheMost
  <2> QED
    BY <2>7, <2>8
<1>5. ASSUME Found PROVE BudgetInv'
  <2>1. /\ phase = "search" /\ lo >= hi /\ output' = FirstItems(base, lo)
        /\ UNCHANGED <<original, config, base>>
    BY <1>5 DEF Found, Stay
  <2>2. /\ base.kind = "list" /\ IsOutput(base)
        /\ lo \in Nat /\ hi \in Nat /\ lo <= hi /\ hi <= Len(base.items)
        /\ lo = 0 \/ Fits(lo)
        /\ \A k \in hi + 1..Len(base.items) : ~Fits(k)
    BY <2>1 DEF BudgetInv
  <2>3. PICK n \in Nat : n = Len(base.items)
    BY <2>2, AllItems
  <2>4. lo = hi /\ lo \in 0..n
    BY <2>1, <2>2, <2>3
  <2>5. /\ IsOutput(output') /\ Len(output'.items) = lo
        /\ SizeOf(output') <= SizeOf(FirstItems(base, n)) /\ SizeOf(FirstItems(base, n)) <= SizeOf(base)
    <3>1. n \in 0..n
      OBVIOUS
    <3> QED
      BY <2>1, <2>2, <2>3, <2>4, <3>1, FirstItemsTyped, FirstItemsGrow, AllItems
  <2>6. SizeOf(output') <= SizeOf(base)
    <3>1. SizeOf(output') \in Nat /\ SizeOf(base) \in Nat
      BY <2>2, <2>5, SizeOfParts
    <3>2. SizeOf(FirstItems(base, n)) \in Nat
      <4>1. n \in 0..n
        OBVIOUS
      <4> QED
        BY <2>2, <2>3, <4>1, FirstItemsTyped, SizeOfParts
    <3> QED
      BY <2>5, <3>1, <3>2
  <2>7. CASE Fits(lo)
    <3>1. phase' = "compact"
      BY <1>5, <2>1, <2>7 DEF Found, Fits
    <3> QED
      BY <2>1, <2>2, <2>3, <2>4, <2>5, <2>6, <2>7, <3>1 DEF BudgetInv, BudgetKeepsTheMost, Fits
  <2>8. CASE ~Fits(lo)
    <3>1. phase' = "cut" /\ StartCutting
      BY <1>5, <2>1, <2>8 DEF Found, Fits
    <3>2. threshold' \in Nat
      BY <3>1, CuttingStarts
    <3>3. lo = 0
      BY <2>2, <2>8
    <3> QED
      BY <2>1, <2>2, <2>5, <2>6, <2>8, <3>1, <3>2, <3>3 DEF BudgetInv, BudgetKeepsTheMost, Fits
  <2> QED
    BY <2>7, <2>8
<1>6. ASSUME Cut PROVE BudgetInv'
  <2>1. /\ phase = "cut" /\ phase' \in {"compact", "cut"} /\ output' = CutStrings(output, threshold)
        /\ threshold' \in {threshold, threshold \div 2}
        /\ UNCHANGED <<original, config, base>>
    BY <1>6 DEF Cut, Stay
  <2>2. /\ threshold \in Nat /\ IsOutput(output) /\ IsOutput(base) /\ SizeOf(output) <= SizeOf(base)
        /\ base.kind = "list" => Len(output.items) = 0 /\ ~Fits(0)
    BY <2>1 DEF BudgetInv
  <2>3. IsOutput(output') /\ SizeOf(output') <= SizeOf(output) /\ Len(output'.items) = Len(output.items)
    BY <2>1, <2>2, CutStringsTyped
  <2>4. SizeOf(output') <= SizeOf(base)
    <3>1. SizeOf(output') \in Nat /\ SizeOf(output) \in Nat /\ SizeOf(base) \in Nat
      BY <2>2, <2>3, SizeOfParts
    <3> QED
      BY <2>2, <2>3, <3>1
  <2>5. threshold' \in Nat
    BY <2>1, <2>2, HalfIsNumber
  <2> QED
    BY <2>1, <2>2, <2>3, <2>4, <2>5 DEF BudgetInv, BudgetKeepsTheMost, Fits
<1>7. ASSUME ApplyCompactTemplate PROVE BudgetInv'
  <2>1. phase' = "done" /\ UNCHANGED <<original, config>>
    BY <1>7 DEF ApplyCompactTemplate, Stay
  <2> QED
    BY <2>1 DEF BudgetInv, BudgetKeepsTheMost
<1>8. ASSUME UNCHANGED filterVars PROVE BudgetInv'
  BY <1>8 DEF filterVars, Searching, Cutting, BudgetInv, BudgetKeepsTheMost, Fits
<1> QED
  BY <1>1, <1>2, <1>3, <1>4, <1>5, <1>6, <1>7, <1>8 DEF FilterNext

\* Whatever an adapter returned, however it is filtered and whatever the budget:
\* the list that is kept is the longest beginning that fits, and cutting strings
\* never makes an output larger (ApplyBudget).
THEOREM BudgetAlwaysKeepsTheMost == FilterSpec => []BudgetKeepsTheMost
<1>1. BudgetInv => BudgetKeepsTheMost
  BY DEF BudgetInv
<1> QED
  BY <1>1, BudgetInvInit, BudgetInvStep, PTL DEF FilterSpec

-----------------------------------------------------------------------------
(***************************************************************************)
(* The import.  The actions are the operations wanted so far, each under a *)
(* key of its own.                                                         *)
(***************************************************************************)
WantedOf(n) == {i \in 1..n : Wanted(doc.ops[i])}

ImportInv ==
  /\ doc \in Documents
  /\ stage \in {"document", "operations", "validate", "convert", "done", "failed"}
  /\ taken \in 0..Len(doc.ops)
  /\ stage \in {"operations", "validate", "convert", "done"} => auth = RootAuth /\ RootAuth # "error"
  /\ IsFiniteSet(DOMAIN manifest) /\ Cardinality(DOMAIN manifest) = Cardinality(WantedOf(taken))
  /\ \A i \in WantedOf(taken) :
       /\ OperationAuth(doc.ops[i]) # "error"
       /\ \E k \in DOMAIN manifest : manifest[k] = BuildAction(doc.ops[i])
  /\ \A k \in DOMAIN manifest : \E i \in WantedOf(taken) : manifest[k] = BuildAction(doc.ops[i])
  /\ \A k, l \in DOMAIN manifest :
       manifest[k].path = manifest[l].path /\ manifest[k].method = manifest[l].method => k = l
  /\ stage \in {"validate", "convert", "done"} => taken = Len(doc.ops)
  /\ stage \in {"convert", "done"} => \A k \in DOMAIN manifest : Valid(manifest[k])
  /\ stage = "done" => defs = [k \in DOMAIN manifest |-> Definition(manifest[k])]

LEMMA SequenceOfAny ==
  ASSUME NEW T, NEW s \in Seq(T)
  PROVE  IsSequence(s)
<1> PICK n \in Nat : n = Len(s)
  OBVIOUS
<1>1. s = [i \in 1..n |-> s[i]]
  OBVIOUS
<1> QED
  BY <1>1, FunctionIsSequence

LEMMA AppendedElements ==
  ASSUME NEW T, NEW s \in Seq(T), NEW x \in T
  PROVE  Append(s, x) \in Seq(T) /\ Len(Append(s, x)) = Len(s) + 1 /\ Append(s, x)[Len(s) + 1] = x
  OBVIOUS

LEMMA AppendedSequence ==
  ASSUME NEW s, IsSequence(s), NEW x
  PROVE  /\ IsSequence(Append(s, x)) /\ Len(Append(s, x)) = Len(s) + 1
         /\ Append(s, x)[Len(s) + 1] = x
<1> PICK S : S = {s[i] : i \in DOMAIN s} \union {x}
  OBVIOUS
<1>1. s \in Seq(S) /\ x \in S
  BY DEF IsSequence
<1>2. /\ Append(s, x) \in Seq(S) /\ Len(Append(s, x)) = Len(s) + 1
      /\ Append(s, x)[Len(s) + 1] = x
  BY <1>1, AppendedElements
<1>3. IsSequence(Append(s, x))
  BY <1>2, SequenceOfAny
<1> QED
  BY <1>2, <1>3

LEMMA JoinedElements ==
  ASSUME NEW s, NEW t, IsSequence(s), IsSequence(t)
  PROVE  /\ DOMAIN (s \o t) = 1..Len(s) + Len(t)
         /\ \A i \in 1..Len(s) : (s \o t)[i] = s[i]
         /\ \A i \in 1..Len(t) : (s \o t)[Len(s) + i] = t[i]
<1> PICK m \in Nat : m = Len(s)
  BY SequenceFacts
<1> PICK n \in Nat : n = Len(t)
  BY SequenceFacts
<1> PICK c : c = s \o t
  OBVIOUS
<1>1. c = [i \in 1..m + n |-> IF i <= m THEN s[i] ELSE t[i - m]]
  BY JoinedSequences
<1> QED
  BY <1>1

LEMMA SameTwice ==
  ASSUME NEW I, IsFiniteSet(I), NEW S, IsFiniteSet(S), NEW c, \A i \in I : c[i] \in S,
         \A i, j \in I : c[i] = c[j] => i = j
  PROVE  ~(Cardinality(S) < Cardinality(I))
<1> SUFFICES ASSUME Cardinality(S) < Cardinality(I) PROVE FALSE
  OBVIOUS
<1> PICK f : f = [i \in I |-> c[i]]
  OBVIOUS
<1>1. f \in [I -> S]
  OBVIOUS
<1>2. \E i, j \in I : i # j /\ f[i] = f[j]
  BY <1>1, FS_PigeonHole
<1> QED
  BY <1>2

\* No two of the keys an operation may get are the same.
LEMMA KeysDiffer ==
  ASSUME doc \in Documents, NEW op, IsSequence(op.key)
  PROVE  /\ Len(doc.ops) \in Nat /\ DOMAIN KeysFor(op) = 1..Len(doc.ops) + 3
         /\ \A i, j \in DOMAIN KeysFor(op) : KeysFor(op)[i] = KeysFor(op)[j] => i = j
<1> PICK n \in Nat : n = Len(doc.ops)
  BY DocumentsAssumption, SequenceFacts
<1> PICK m \in Nat : m = Len(op.key)
  BY SequenceFacts
<1> PICK h : h = Append(op.key, Hash(op, 6))
  OBVIOUS
<1> PICK full : full = Append(op.key, Hash(op, 8))
  OBVIOUS
<1>1. Len(h) = m + 1 /\ h[m + 1].length = 6
  BY AppendedSequence DEF Hash
<1>2. IsSequence(full) /\ Len(full) = m + 1 /\ full[m + 1].length = 8
  BY AppendedSequence DEF Hash
<1>3. ASSUME NEW k \in 1..n
      PROVE  Len(Append(full, Number(k + 1))) = m + 2 /\ Append(full, Number(k + 1))[m + 2].length = k + 1
  <2>1. m + 1 + 1 = m + 2
    OBVIOUS
  <2>2. /\ Len(Append(full, Number(k + 1))) = m + 2
        /\ Append(full, Number(k + 1))[m + 2] = Number(k + 1)
    BY <1>2, <2>1, AppendedSequence
  <2> QED
    BY <2>2 DEF Number
<1> PICK few : few = <<op.key, h, full>>
  OBVIOUS
<1> PICK more : more = [k \in 1..n |-> Append(full, Number(k + 1))]
  OBVIOUS
<1>4. IsSequence(few) /\ Len(few) = 3 /\ few[1] = op.key /\ few[2] = h /\ few[3] = full
  <2>1. few = [i \in 1..3 |-> few[i]]
    OBVIOUS
  <2> QED
    BY <2>1, FunctionIsSequence
<1>5. IsSequence(more) /\ Len(more) = n
  <2>1. more = [i \in 1..n |-> more[i]]
    OBVIOUS
  <2> QED
    BY <2>1, FunctionIsSequence
<1> PICK c : c = KeysFor(op)
  OBVIOUS
<1>6. c = few \o more
  BY DEF KeysFor
<1>7. /\ DOMAIN c = 1..3 + n
      /\ \A i \in 1..3 : c[i] = few[i]
      /\ \A i \in 1..n : c[3 + i] = more[i]
  BY <1>4, <1>5, <1>6, JoinedElements
<1>8. DOMAIN c = 1..n + 3 /\ c[1] = op.key /\ c[2] = h /\ c[3] = full
  <2>1. 1 \in 1..3 /\ 2 \in 1..3 /\ 3 \in 1..3 /\ 3 + n = n + 3
    OBVIOUS
  <2> QED
    BY <1>4, <1>7, <2>1, Zenon
<1>9. \A i \in 4..n + 3 : c[i] = Append(full, Number(i - 3 + 1))
  <2>1. ASSUME NEW i \in 4..n + 3 PROVE c[i] = Append(full, Number(i - 3 + 1))
    <3>1. 3 + (i - 3) = i /\ i - 3 \in 1..n
      OBVIOUS
    <3>2. c[i] = more[i - 3]
      BY <1>7, <3>1, Zenon
    <3> QED
      BY <3>1, <3>2
  <2> QED
    BY <2>1
<1>10. \A i \in 4..n + 3 : Len(c[i]) = m + 2 /\ c[i][m + 2].length = i - 2
  <2>1. ASSUME NEW i \in 4..n + 3 PROVE Len(c[i]) = m + 2 /\ c[i][m + 2].length = i - 2
    <3>1. i - 3 \in 1..n /\ i - 3 + 1 = i - 2
      OBVIOUS
    <3> QED
      BY <1>3, <1>9, <3>1
  <2> QED
    BY <2>1
<1>11. ASSUME NEW i \in 1..n + 3, NEW j \in 1..n + 3, c[i] = c[j] PROVE i = j
  <2>1. \A k \in 1..n + 3 : k = 1 \/ k = 2 \/ k = 3 \/ k \in 4..n + 3
    OBVIOUS
  <2>2. \A k \in 1..n + 3 : /\ k = 1 => Len(c[k]) = m
                            /\ k = 2 => Len(c[k]) = m + 1 /\ c[k][m + 1].length = 6
                            /\ k = 3 => Len(c[k]) = m + 1 /\ c[k][m + 1].length = 8
    BY <1>1, <1>2, <1>8
  <2>3. m # m + 1 /\ m # m + 2 /\ m + 1 # m + 2 /\ m + 1 \in Nat /\ m + 2 \in Nat
    BY ONLY m \in Nat
  <2>4. CASE i \in 4..n + 3
    <3>1. Len(c[i]) = m + 2
      BY <1>10, <2>4
    <3>2. j \in 4..n + 3
      BY <1>11, <2>1, <2>2, <2>3, <3>1
    <3>3. i - 2 = j - 2
      BY <1>10, <1>11, <2>4, <3>2
    <3> QED
      BY <2>4, <3>2, <3>3
  <2>5. CASE j \in 4..n + 3
    <3>1. Len(c[j]) = m + 2
      BY <1>10, <2>5
    <3>2. i \in 4..n + 3
      BY <1>11, <2>1, <2>2, <2>3, <3>1
    <3> QED
      BY <2>4, <3>2
  <2>6. CASE i \in {1, 2, 3} /\ j \in {1, 2, 3}
    <3>1. i = 1 => j = 1
      BY <1>11, <2>2, <2>3, <2>6
    <3>2. j = 1 => i = 1
      BY <1>11, <2>2, <2>3, <2>6
    <3>3. ~(i = 2 /\ j = 3) /\ ~(i = 3 /\ j = 2)
      <4>1. c[i][m + 1].length = c[j][m + 1].length
        BY <1>11
      <4>2. i = 2 /\ j = 3 => 6 = 8
        BY <2>2, <4>1, Zenon
      <4>3. i = 3 /\ j = 2 => 8 = 6
        BY <2>2, <4>1, Zenon
      <4> QED
        BY <4>2, <4>3
    <3> QED
      BY <2>6, <3>1, <3>2, <3>3
  <2> QED
    BY <2>1, <2>4, <2>5, <2>6
<1> QED
  BY <1>8, <1>11

LEMMA WantedOfFinite ==
  ASSUME NEW n \in Nat
  PROVE  /\ IsFiniteSet(WantedOf(n)) /\ Cardinality(WantedOf(n)) \in Nat /\ Cardinality(WantedOf(n)) <= n
<1>1. WantedOf(n) \in SUBSET (1..n)
  BY DEF WantedOf
<1> QED
  BY <1>1, FirstNumbers, FS_Subset, FS_CardinalityType

LEMMA KeyIsFree ==
  ASSUME ImportInv, taken < Len(doc.ops)
  PROVE  UniqueKey(doc.ops[taken + 1]) \notin DOMAIN manifest
<1> PICK op : op = doc.ops[taken + 1]
  OBVIOUS
<1> PICK n \in Nat : n = Len(doc.ops) /\ DOMAIN doc.ops = 1..n
  BY DocumentsAssumption, SequenceFacts DEF ImportInv
<1>1. IsSequence(op.key) /\ taken \in Nat /\ taken < n
  <2>1. taken + 1 \in 1..n
    BY DEF ImportInv
  <2> QED
    BY <2>1, DocumentsAssumption DEF ImportInv
<1> PICK c : c = KeysFor(op)
  OBVIOUS
<1>2. DOMAIN c = 1..n + 3 /\ \A i, j \in 1..n + 3 : c[i] = c[j] => i = j
  BY <1>1, KeysDiffer DEF ImportInv
<1> DEFINE free == {i \in 1..n + 3 : c[i] \notin DOMAIN manifest}
<1>3. free # {}
  <2> SUFFICES ASSUME \A i \in 1..n + 3 : c[i] \in DOMAIN manifest PROVE FALSE
    OBVIOUS
  <2>1. IsFiniteSet(DOMAIN manifest) /\ Cardinality(DOMAIN manifest) < n + 3 /\ n + 3 \in Nat
    <3>1. Cardinality(DOMAIN manifest) \in Nat /\ Cardinality(DOMAIN manifest) <= taken
      BY <1>1, WantedOfFinite DEF ImportInv
    <3> QED
      BY <1>1, <3>1 DEF ImportInv
  <2> PICK I : I = 1..n + 3
    OBVIOUS
  <2>2. IsFiniteSet(I) /\ Cardinality(I) = n + 3
    BY <2>1, FirstNumbers
  <2>3. \A i \in I : c[i] \in DOMAIN manifest
    OBVIOUS
  <2>4. \A i, j \in I : c[i] = c[j] => i = j
    BY <1>2
  <2> PICK S : S = DOMAIN manifest
    OBVIOUS
  <2>5. IsFiniteSet(I) /\ IsFiniteSet(S) /\ \A i \in I : c[i] \in S
    BY <2>1, <2>2, <2>3
  <2>6. ~(Cardinality(S) < Cardinality(I))
    BY ONLY <2>4, <2>5, SameTwice
  <2> QED
    BY <2>1, <2>2, <2>6
<1>4. free \in SUBSET Nat
  OBVIOUS
<1>5. UniqueKey(op) = c[CHOOSE i \in free : \A j \in free : i <= j]
  BY <1>2 DEF UniqueKey
<1>6. (CHOOSE i \in free : \A j \in free : i <= j) \in free
  <2> HIDE DEF free
  <2> QED
    BY <1>3, <1>4, LeastNumber
<1>7. PICK x \in free : UniqueKey(op) = c[x]
  BY <1>5, <1>6
<1> QED
  BY <1>7

LEMMA Unmoved ==
  ASSUME doc' = doc
  PROVE  /\ RootAuth' = RootAuth
         /\ \A n : WantedOf(n)' = WantedOf(n)
         /\ \A op : OperationAuth(op)' = OperationAuth(op) /\ BuildAction(op)' = BuildAction(op)
<1>1. RootAuth' = RootAuth
  BY DEF RootAuth
<1>2. \A op : Wanted(op)' = Wanted(op)
  BY DEF Wanted
<1>3. \A op : OperationAuth(op)' = OperationAuth(op)
  BY DEF OperationAuth
<1>4. \A op : BuildAction(op)' = BuildAction(op)
  BY <1>3 DEF BuildAction
<1> QED
  BY <1>1, <1>2, <1>3, <1>4 DEF WantedOf

LEMMA ImportInvInit == ImportInit => ImportInv
<1> SUFFICES ASSUME ImportInit PROVE ImportInv
  OBVIOUS
<1> PICK n \in Nat : n = Len(doc.ops)
  BY DocumentsAssumption, SequenceFacts DEF ImportInit
<1>1. WantedOf(taken) = {} /\ DOMAIN manifest = {}
  BY DEF ImportInit, WantedOf
<1> QED
  <2>1. taken \in 0..Len(doc.ops)
    BY DEF ImportInit
  <2>2. /\ IsFiniteSet(DOMAIN manifest) /\ Cardinality(DOMAIN manifest) = Cardinality(WantedOf(taken))
    BY <1>1, FS_EmptySet
  <2> QED
    BY <1>1, <2>1, <2>2 DEF ImportInit, ImportInv

LEMMA ImportInvStep == ImportInv /\ [ImportNext]_importVars => ImportInv'
<1> SUFFICES ASSUME ImportInv, [ImportNext]_importVars PROVE ImportInv'
  OBVIOUS
<1> PICK n \in Nat : n = Len(doc.ops) /\ DOMAIN doc.ops = 1..n
  BY DocumentsAssumption, SequenceFacts DEF ImportInv
<1> DEFINE Kept == UNCHANGED <<doc, taken, manifest>>
<1>1. Kept => /\ WantedOf(taken)' = WantedOf(taken) /\ RootAuth' = RootAuth
              /\ \A op : OperationAuth(op)' = OperationAuth(op) /\ BuildAction(op)' = BuildAction(op)
  BY Unmoved
<1>2. CASE Fail /\ UNCHANGED doc
  BY <1>1, <1>2 DEF ImportInv, Fail
<1>3. CASE ReadHead
  BY <1>1, <1>2, <1>3 DEF ImportInv, ReadHead
<1>4. CASE TakeOperation
  <2> PICK op : op = doc.ops[taken + 1]
    OBVIOUS
  <2>1. taken \in Nat /\ taken + 1 \in 1..n /\ n = Len(doc.ops)
    BY <1>4 DEF ImportInv, TakeOperation
  <2> PICK t : t = taken + 1
    OBVIOUS
  <2>2. \A m : WantedOf(m)' = WantedOf(m)
    BY <1>4, Unmoved DEF TakeOperation
  <2>3. \A x : OperationAuth(x)' = OperationAuth(x) /\ BuildAction(x)' = BuildAction(x)
    BY <1>4, Unmoved DEF TakeOperation
  <2>4. RootAuth' = RootAuth
    BY <1>4, Unmoved DEF TakeOperation
  <2>5. CASE ~Fail /\ ~Wanted(op)
    <3>1. WantedOf(t) = WantedOf(taken)
      BY <2>1, <2>5 DEF WantedOf
    <3>2. taken' = t /\ UNCHANGED <<doc, stage, auth, manifest, defs>> /\ stage = "operations"
      BY <1>4, <2>5 DEF TakeOperation
    <3>3. WantedOf(taken)' = WantedOf(taken)
      BY <2>2, <3>1, <3>2
    <3> QED
      BY <2>1, <2>3, <2>4, <3>2, <3>3 DEF ImportInv
  <2>6. CASE ~Fail /\ Wanted(op)
    <3> PICK u : u = UniqueKey(op)
      OBVIOUS
    <3> PICK a : a = BuildAction(op)
      OBVIOUS
    <3>1. u \notin DOMAIN manifest
      BY <1>4, KeyIsFree DEF TakeOperation
    <3>2. /\ taken' = t /\ UNCHANGED <<doc, stage, auth, defs>> /\ stage = "operations"
          /\ OperationAuth(op) # "error"
          /\ manifest' = [k \in DOMAIN manifest \union {u} |-> IF k = u THEN a ELSE manifest[k]]
      BY <1>4, <2>6 DEF TakeOperation
    <3> PICK W : W = WantedOf(taken)
      OBVIOUS
    <3>3. WantedOf(t) = W \union {t} /\ t \notin W
      BY <2>1, <2>6 DEF WantedOf
    <3>4. WantedOf(taken)' = W \union {t}
      BY <2>2, <3>2, <3>3
    <3>5. DOMAIN manifest' = DOMAIN manifest \union {u} /\ manifest'[u] = a
          /\ \A k \in DOMAIN manifest : manifest'[k] = manifest[k]
      BY <3>1, <3>2
    <3>6. /\ IsFiniteSet(DOMAIN manifest)'
          /\ Cardinality(DOMAIN manifest)' = Cardinality(WantedOf(taken))'
      <4> PICK M : M = DOMAIN manifest
        OBVIOUS
      <4>1. IsFiniteSet(M) /\ IsFiniteSet(W) /\ Cardinality(M) = Cardinality(W)
        BY <2>1, WantedOfFinite DEF ImportInv
      <4>2. /\ IsFiniteSet(M \union {u}) /\ Cardinality(M \union {u}) = Cardinality(M) + 1
            /\ Cardinality(W \union {t}) = Cardinality(W) + 1
        BY <3>1, <3>3, <4>1, FS_AddElement
      <4> QED
        BY <3>4, <3>5, <4>1, <4>2
    <3>7. \A i \in W \union {t} :
            /\ OperationAuth(doc.ops[i]) # "error"
            /\ \E k \in DOMAIN manifest' : manifest'[k] = BuildAction(doc.ops[i])
      BY <3>2, <3>5 DEF ImportInv
    <3>8. \A k \in DOMAIN manifest' : \E i \in W \union {t} : manifest'[k] = BuildAction(doc.ops[i])
      BY <3>5 DEF ImportInv
    <3>9. ASSUME NEW k \in DOMAIN manifest
          PROVE  ~(manifest[k].path = a.path /\ manifest[k].method = a.method)
      <4>1. PICK i \in W : manifest[k] = BuildAction(doc.ops[i])
        BY <3>9 DEF ImportInv
      <4>2. i \in 1..n /\ t \in 1..n /\ i # t
        BY <2>1, <3>3, <4>1 DEF WantedOf
      <4>3. /\ manifest[k].path = doc.ops[i].path /\ manifest[k].method = doc.ops[i].method
            /\ a.path = doc.ops[t].path /\ a.method = doc.ops[t].method
        BY <4>1 DEF BuildAction
      <4>4. <<doc.ops[i].path, doc.ops[i].method>> # <<doc.ops[t].path, doc.ops[t].method>>
        <5>1. doc \in Documents /\ i \in DOMAIN doc.ops /\ t \in DOMAIN doc.ops
          BY <4>2 DEF ImportInv
        <5> QED
          BY <4>2, <5>1, DocumentsAssumption
      <4> QED
        BY <4>3, <4>4
    <3>10. \A k, l \in DOMAIN manifest' :
             manifest'[k].path = manifest'[l].path /\ manifest'[k].method = manifest'[l].method => k = l
      BY <3>5, <3>9 DEF ImportInv
    <3> PICK m : m = manifest'
      OBVIOUS
    <3>11. \A i \in WantedOf(taken)' :
             /\ OperationAuth(doc.ops[i])' # "error"
             /\ \E k \in DOMAIN manifest' : manifest'[k] = BuildAction(doc.ops[i])'
      BY <2>3, <3>2, <3>4, <3>7
    <3>12. \A k \in DOMAIN manifest' : \E i \in WantedOf(taken)' : manifest'[k] = BuildAction(doc.ops[i])'
      <4>1. \A k \in DOMAIN m : \E i \in W \union {t} : m[k] = BuildAction(doc.ops[i])
        BY <3>8
      <4>2. \A i : BuildAction(doc.ops[i])' = BuildAction(doc.ops[i])
        BY <2>3, <3>2
      <4> QED
        BY <3>4, <4>1, <4>2
    <3>13. doc' \in Documents /\ taken' \in 0..Len(doc'.ops) /\ auth' = RootAuth' /\ RootAuth' # "error"
      BY <2>1, <2>4, <3>2 DEF ImportInv
    <3> QED
      BY <3>2, <3>6, <3>10, <3>11, <3>12, <3>13 DEF ImportInv
  <2>7. CASE Fail
    BY <1>2, <1>4, <2>7 DEF TakeOperation
  <2> QED
    BY <2>5, <2>6, <2>7
<1>5. CASE EndOperations
  BY <1>1, <1>2, <1>5 DEF ImportInv, EndOperations
<1>6. CASE ValidateManifest
  <2>1. CASE stage' = "convert" /\ UNCHANGED <<taken, auth, manifest, defs, doc>>
    <3>1. \A k \in DOMAIN manifest : Valid(manifest[k])
      BY <1>6, <2>1 DEF ValidateManifest, Fail
    <3>2. stage = "validate"
      BY <1>6 DEF ValidateManifest
    <3>3. \A k \in DOMAIN manifest' : Valid(manifest[k])'
      BY <2>1, <3>1 DEF Valid, RequiredArgs
    <3> QED
      BY <1>1, <2>1, <3>2, <3>3 DEF ImportInv
  <2> QED
    BY <1>2, <1>6, <2>1 DEF ValidateManifest
<1>7. CASE Convert
  BY <1>1, <1>7 DEF ImportInv, Convert, Definition
<1>8. CASE UNCHANGED importVars
  BY <1>1, <1>8 DEF ImportInv, importVars, Definition
<1> QED
  BY <1>3, <1>4, <1>5, <1>6, <1>7, <1>8 DEF ImportNext

\* What BuildAction promises of the body.
LEMMA BodyIsAskedFor ==
  ASSUME NEW op, HasSchema(op.body)
  PROVE  LET a == BuildAction(op)
         IN /\ \/ a.body # {} \/ "body" \in DOMAIN a.args
               \/ Opaque(op.body) /\ (MergedParameters(op) = <<>> => a.args = <<>> /\ a.pathParams = {})
            /\ op.body.required =>
                 \A n \in RequiredOf(op.body) \intersect BodyNames(op.body) :
                   n \in DOMAIN a.args /\ a.args[n].required
<1> PICK a : a = BuildAction(op)
  OBVIOUS
<1>1. a.args = Args(op) /\ a.body = BodyNames(op.body) /\ a.pathParams = NamesIn(op, "path")
  BY DEF BuildAction
<1>2. CASE Whole(op.body)
  <2>1. BodyNames(op.body) = {}
    BY <1>2 DEF BodyNames
  <2>2. "body" \in DOMAIN Args(op)
    BY <1>2 DEF Args, With
  <2> QED
    BY <1>1, <2>1, <2>2
<1>3. CASE Spelled(op.body) /\ ~Whole(op.body)
  <2>1. BodyNames(op.body) = DOMAIN Properties(op.body)
    BY <1>3 DEF BodyNames
  <2>2. Properties(op.body) # <<>>
    BY <1>3 DEF Whole
  <2>3. DOMAIN Properties(op.body) # {}
    BY <2>2 DEF Properties
  <2>4. ASSUME op.body.required, NEW n \in RequiredOf(op.body) \intersect BodyNames(op.body)
        PROVE  n \in DOMAIN Args(op) /\ Args(op)[n].required
    BY <1>3, <2>4 DEF Args
  <2> QED
    BY <1>1, <2>1, <2>3, <2>4
<1>4. CASE ~Spelled(op.body)
  <2>1. Opaque(op.body) /\ BodyNames(op.body) = {} /\ ~Whole(op.body)
    BY <1>4 DEF Spelled, BodyNames, Whole
  <2>2. ASSUME MergedParameters(op) = <<>> PROVE Args(op) = <<>> /\ NamesIn(op, "path") = {}
    <3>1. ToSet(MergedParameters(op)) = {}
      BY <2>2 DEF ToSet
    <3>2. DOMAIN ParameterArgs(op) = {}
      BY <3>1 DEF ParameterArgs
    <3>3. DOMAIN Args(op) = {}
      BY <2>1, <3>2 DEF Args
    <3>4. Args(op) = [n \in {} |-> n]
      BY <2>1, <3>2 DEF Args
    <3> QED
      BY <3>1, <3>4 DEF NamesIn
  <2> QED
    BY <1>1, <2>1, <2>2
<1> QED
  BY <1>2, <1>3, <1>4 DEF Whole

\* An operation that needs a credential the document defines has that one, its own
\* or the document's.
LEMMA CredentialIsAsked ==
  ASSUME doc \in Documents, NEW op, OperationAuth(op) # "error", RootAuth # "error", Asked(op) # {}
  PROVE  (IF OperationAuth(op) = "inherit" THEN RootAuth ELSE OperationAuth(op)) \in Asked(op)
<1> PICK security : security = IF op.security.given THEN op.security ELSE doc.security
  OBVIOUS
<1> PICK some : some = Requirements(security.reqs)
  OBVIOUS
<1>1. security.array /\ some # <<>> /\ some[1] \subseteq doc.schemes /\ Asked(op) = some[1]
  BY DEF Asked
<1>2. Scheme(security.reqs) \in some[1]
  BY <1>1 DEF Scheme
<1>3. CASE op.security.given
  BY <1>1, <1>2, <1>3, DocumentsAssumption DEF OperationAuth
<1>4. CASE ~op.security.given
  BY <1>1, <1>2, <1>4 DEF OperationAuth, RootAuth
<1> QED
  BY <1>3, <1>4

\* What an import accepts it keeps whole, whatever document it reads: every
\* operation has an action of its own, asking for what the request needs.
THEOREM ImportAlwaysKeepsOperations == ImportSpec => []ImportKeepsOperations
<1>1. ImportInv => ImportKeepsOperations
  <2> SUFFICES ASSUME ImportInv, stage = "done" PROVE ImportKeepsOperations
    BY DEF ImportKeepsOperations
  <2> PICK n \in Nat : n = Len(doc.ops) /\ DOMAIN doc.ops = 1..n
    BY DocumentsAssumption, SequenceFacts DEF ImportInv
  <2>1. taken = n /\ doc \in Documents /\ auth = RootAuth /\ RootAuth # "error"
    BY DEF ImportInv
  <2>2. DOMAIN defs = DOMAIN manifest /\ \A k \in DOMAIN manifest : defs[k] = Definition(manifest[k])
    BY DEF ImportInv
  <2> DEFINE wanted == Imported
  <2>3. wanted = WantedOf(taken)
    BY <2>1 DEF WantedOf, Imported
  <2>4. Cardinality(DOMAIN defs) = Cardinality(wanted)
    BY <2>2, <2>3 DEF ImportInv
  <2>5. ASSUME NEW i \in wanted
        PROVE  /\ Cardinality(OwnActions(doc.ops[i])) = 1
               /\ \A k \in OwnActions(doc.ops[i]) : Serves(defs[k], doc.ops[i])
    <3> PICK op : op = doc.ops[i]
      OBVIOUS
    <3> PICK own : own = OwnActions(op)
      OBVIOUS
    <3> HIDE DEF wanted
    <3> PICK a : a = BuildAction(op)
      OBVIOUS
    <3>1. OperationAuth(op) # "error"
      BY <2>3, <2>5 DEF ImportInv
    <3>2. PICK k \in DOMAIN manifest : manifest[k] = a
      BY <2>3, <2>5 DEF ImportInv
    <3>3. a.path = op.path /\ a.method = op.method /\ a.auth = OperationAuth(op)
      BY DEF BuildAction
    <3>4. \A l \in DOMAIN manifest : defs[l].path = manifest[l].path /\ defs[l].method = manifest[l].method
      BY <2>2 DEF Definition
    <3>5. own = {k}
      BY <2>2, <3>2, <3>3, <3>4 DEF ImportInv, OwnActions
    <3>6. Valid(a)
      BY <3>2 DEF ImportInv
    <3> PICK d : d = defs[k]
      OBVIOUS
    <3>7. d = Definition(a)
      BY <2>2, <3>2
    <3>8. /\ d.input.required = RequiredArgs(a) \union a.pathParams
          /\ d.input.props = DOMAIN a.args \union a.pathParams
          /\ d.sent = a.query \union a.header \union a.body
          /\ d.template = a.body
          /\ d.auth = IF a.auth = "inherit" THEN auth ELSE a.auth
      <4>1. d.input = InputSchema(a) /\ d.sent = a.query \union a.header \union a.body
        BY <3>7 DEF Definition
      <4>2. d.template = a.body /\ d.auth = IF a.auth = "inherit" THEN auth ELSE a.auth
        BY <3>7 DEF Definition
      <4> QED
        BY <4>1, <4>2 DEF InputSchema
    <3>9. Placeholders[op.path] \subseteq d.input.required /\ d.sent \subseteq d.input.props
      BY <3>3, <3>6, <3>8 DEF Valid
    <3>10. HasBody(op) => CanSendBody(d) \/ (Opaque(op.body) /\ MergedParameters(op) # <<>>)
      <4>1. CASE HasSchema(op.body) /\ a.body # {}
        BY <3>8, <4>1 DEF CanSendBody
      <4>2. CASE HasSchema(op.body) /\ "body" \in DOMAIN a.args
        BY <3>8, <4>2 DEF CanSendBody
      <4>3. CASE a.args = <<>> /\ a.pathParams = {}
        <5>1. d.input = InputSchema(a)
          BY <3>7 DEF Definition
        <5>2. InputSchema(a).open = (a.args = <<>> /\ a.pathParams = {})
          BY Zenon DEF InputSchema
        <5>3. d.input.open
          BY <4>3, <5>1, <5>2
        <5> QED
          BY <5>3 DEF CanSendBody
      <4> QED
        BY <4>1, <4>2, <4>3, BodyIsAskedFor DEF HasBody
    <3>11. op.body.required /\ Spelled(op.body) =>
             RequiredOf(op.body) \intersect BodyNames(op.body) \subseteq d.input.required
      BY <3>8, BodyIsAskedFor DEF RequiredArgs, Spelled
    <3>12. Asked(op) # {} => d.auth \in Asked(op)
      BY <2>1, <3>1, <3>3, <3>8, CredentialIsAsked
    <3>13. Cardinality(own) = 1
      BY <3>5, FS_Singleton
    <3> QED
      BY <3>5, <3>9, <3>10, <3>11, <3>12, <3>13 DEF Serves
  <2> QED
    BY <2>4, <2>5 DEF ImportKeepsOperations
<1> QED
  BY <1>1, ImportInvInit, ImportInvStep, PTL DEF ImportSpec

(***************************************************************************)
(* The instruction file of an agent.  The induction is on FileInv: with    *)
(* what the user wrote found in the file, nothing but kimbap's text lies   *)
(* between an open marker and a later close one, however the markers came  *)
(* there, so that what a setup or a teardown cuts out holds no word.       *)
(***************************************************************************)
\* w is x and then y.
IsJoin(w, x, y) == w = x \o y

(***************************************************************************)
(* The instruction file.                                                   *)
(***************************************************************************)
LEMMA SelectionsSteps ==
  ASSUME NEW T, NEW s \in Seq(T), NEW S
  PROVE  /\ Selections(s, S)[0] = <<>>
         /\ \A i \in 1..Len(s) : Selections(s, S)[i] =
              IF s[i] \in S THEN Append(Selections(s, S)[i - 1], s[i]) ELSE Selections(s, S)[i - 1]
<1> PICK n \in Nat : n = Len(s)
  OBVIOUS
<1> PICK c : c = Selections(s, S)
  OBVIOUS
<1>1. c = [i \in 0..n |-> IF i = 0 THEN <<>>
                          ELSE IF s[i] \in S THEN Append(c[i - 1], s[i]) ELSE c[i - 1]]
  BY SelectionsUnfold DEF Chooses
<1>2. 0 \in 0..n /\ \A i \in 1..n : i \in 0..n /\ i # 0
  OBVIOUS
<1>3. c[0] = <<>> /\ \A i \in 1..n : c[i] = IF s[i] \in S THEN Append(c[i - 1], s[i]) ELSE c[i - 1]
  BY <1>1, <1>2
<1> QED
  BY <1>3

LEMMA Joined ==
  ASSUME NEW T, NEW s \in Seq(T), NEW t \in Seq(T)
  PROVE  /\ s \o t \in Seq(T) /\ Len(s \o t) = Len(s) + Len(t)
         /\ Len(s) \in Nat /\ Len(t) \in Nat
         /\ \A i \in 1..Len(s) : (s \o t)[i] = s[i]
         /\ \A i \in 1..Len(t) : (s \o t)[Len(s) + i] = t[i]
OBVIOUS

LEMMA Appended ==
  ASSUME NEW T, NEW s \in Seq(T), NEW t \in Seq(T), NEW e \in T
  PROVE  Append(s \o t, e) = s \o Append(t, e)
OBVIOUS

\* c holds what each prefix of s, of n elements, has in S.
Steps(c, n, s, S) ==
  /\ c[0] = <<>>
  /\ \A i \in 1..n : c[i] = IF s[i] \in S THEN Append(c[i - 1], s[i]) ELSE c[i - 1]

\* u is the first m elements of s and then the first n of t.
Follows(u, m, s, n, t, T) ==
  /\ \A i \in 1..m : u[i] = s[i]
  /\ \A i \in 1..n : t[i] \in T /\ u[m + i] = t[i]

\* The steps of s, of t and of the two together.
ThreeSteps(m, n, S, T, s, t, u, a, b, c) ==
  /\ m \in Nat /\ n \in Nat /\ Follows(u, m, s, n, t, T)
  /\ Steps(a, m, s, S) /\ Steps(b, n, t, S) /\ Steps(c, m + n, u, S)
  /\ a[m] \in Seq(T)

\* The steps of two selections, one after the other.
LEMMA StepsJoin ==
  ASSUME NEW T, NEW m, NEW n, NEW S, NEW s, NEW t, NEW u, NEW a, NEW b, NEW c,
         ThreeSteps(m, n, S, T, s, t, u, a, b, c)
  PROVE  IsJoin(c[m + n], a[m], b[n])
<1> USE DEF Steps, Follows, ThreeSteps
<1> DEFINE N == {i \in Nat : i <= m => c[i] = a[i]}
<1>1. Nat \subseteq N
  <2>1. 0 \in N
    OBVIOUS
  <2>2. ASSUME NEW i \in Nat, i \in N PROVE i + 1 \in N
    <3> SUFFICES ASSUME i + 1 <= m PROVE c[i + 1] = a[i + 1]
      OBVIOUS
    <3>1. i + 1 \in 1..m /\ i + 1 \in 1..m + n /\ (i + 1) - 1 = i
      OBVIOUS
    <3>2. c[i] = a[i]
      BY <2>2
    <3>3. c[i + 1] = IF u[i + 1] \in S THEN Append(c[i], u[i + 1]) ELSE c[i]
      BY <3>1
    <3>4. a[i + 1] = IF s[i + 1] \in S THEN Append(a[i], s[i + 1]) ELSE a[i]
      BY <3>1
    <3>5. u[i + 1] = s[i + 1]
      BY <3>1
    <3> QED
      BY ONLY <3>2, <3>3, <3>4, <3>5
  <2> HIDE DEF N
  <2> QED
    BY <2>1, <2>2, NumbersByInduction
<1>2. c[m] = a[m]
  BY <1>1
<1>3. \A x \in Seq(T) : x \o <<>> = x
  OBVIOUS
<1>4. \A x, y \in Seq(T), e \in T : Append(x \o y, e) = x \o Append(y, e) /\ Append(y, e) \in Seq(T)
  BY ONLY TRUE
<1> DEFINE Joins(i) == i <= n => b[i] \in Seq(T) /\ c[m + i] = a[m] \o b[i]
           M == {i \in Nat : Joins(i)}
<1>5. Joins(0)
  <2>1. a[m] \o <<>> = a[m] /\ <<>> \in Seq(T) /\ m + 0 = m
    BY <1>3
  <2> QED
    BY <1>2, <2>1
<1>6. ASSUME NEW i \in Nat, Joins(i), i + 1 <= n
      PROVE  b[i + 1] \in Seq(T) /\ c[m + (i + 1)] = a[m] \o b[i + 1]
  <2>1. /\ i + 1 \in 1..n /\ m + (i + 1) \in 1..m + n /\ (i + 1) - 1 = i
        /\ (m + (i + 1)) - 1 = m + i /\ i <= n
    BY <1>6
  <2>2. b[i] \in Seq(T) /\ c[m + i] = a[m] \o b[i]
    BY <1>6, <2>1
  <2>3. t[i + 1] \in T /\ u[m + (i + 1)] = t[i + 1]
    BY <2>1
  <2>4. b[i + 1] = IF t[i + 1] \in S THEN Append(b[i], t[i + 1]) ELSE b[i]
    BY <2>1
  <2>5. c[m + (i + 1)] = IF u[m + (i + 1)] \in S THEN Append(c[m + i], u[m + (i + 1)]) ELSE c[m + i]
    BY <2>1
  <2>6. /\ Append(a[m] \o b[i], t[i + 1]) = a[m] \o Append(b[i], t[i + 1])
        /\ Append(b[i], t[i + 1]) \in Seq(T)
    BY <1>4, <2>2, <2>3
  <2> QED
    BY ONLY <2>2, <2>3, <2>4, <2>5, <2>6
<1>7. \A i \in Nat : Joins(i) => Joins(i + 1)
  BY <1>6
<1>8. Nat \subseteq M
  <2> HIDE DEF Joins
  <2>1. 0 \in M /\ \A i \in Nat : i \in M => i + 1 \in M
    BY <1>5, <1>7
  <2> HIDE DEF M
  <2> QED
    BY <2>1, NumbersByInduction
<1>9. Joins(n)
  <2> HIDE DEF Joins
  <2> QED
    BY <1>8
<1>10. n <= n
  OBVIOUS
<1> QED
  BY <1>9, <1>10 DEF IsJoin

\* What is selected of two sequences, one after the other.
LEMMA SelectedJoins ==
  ASSUME NEW T, NEW s \in Seq(T), NEW t \in Seq(T), NEW S, NEW w, IsJoin(w, s, t)
  PROVE  IsJoin(Selected(w, S), Selected(s, S), Selected(t, S))
<1>1. /\ w \in Seq(T) /\ Len(w) = Len(s) + Len(t)
      /\ Len(s) \in Nat /\ Len(t) \in Nat
      /\ \A i \in 1..Len(s) : w[i] = s[i]
      /\ \A i \in 1..Len(t) : w[Len(s) + i] = t[i] /\ t[i] \in T
  <2>1. /\ s \o t \in Seq(T) /\ Len(s \o t) = Len(s) + Len(t)
        /\ Len(s) \in Nat /\ Len(t) \in Nat
        /\ \A i \in 1..Len(s) : (s \o t)[i] = s[i]
        /\ \A i \in 1..Len(t) : (s \o t)[Len(s) + i] = t[i] /\ t[i] \in T
    BY Joined
  <2>2. w = s \o t
    BY DEF IsJoin
  <2> QED
    BY ONLY <2>1, <2>2
<1>2. \A x \in Seq(T) : Steps(Selections(x, S), Len(x), x, S) /\ Selections(x, S)[Len(x)] \in Seq(T)
  BY SelectionsSteps, SelectedIsSet DEF Steps, Selected
<1> PICK m, n \in Nat : m = Len(s) /\ n = Len(t)
  BY <1>1
<1> PICK u : u = w
  OBVIOUS
<1>0. u \in Seq(T) /\ u = w /\ Len(u) = m + n
  BY <1>1
<1> PICK a, b, c : a = Selections(s, S) /\ b = Selections(t, S) /\ c = Selections(u, S)
  OBVIOUS
<1>3. Steps(a, m, s, S) /\ Steps(b, n, t, S) /\ Steps(c, m + n, u, S) /\ a[m] \in Seq(T)
  <2>1. s \in Seq(T) /\ t \in Seq(T)
    OBVIOUS
  <2> QED
    BY <1>0, <1>2, <2>1
<1>4. Follows(u, m, s, n, t, T)
  BY <1>0, <1>1 DEF Follows
<1>5. IsJoin(c[m + n], a[m], b[n])
  <2>1. ThreeSteps(m, n, S, T, s, t, u, a, b, c)
    BY <1>3, <1>4 DEF ThreeSteps
  <2> QED
    BY ONLY <2>1, StepsJoin
<1> QED
  BY <1>0, <1>5 DEF Selected

BlockTexts == {"S", "E", "b", "n"}
Pieces == BlockTexts \union ToSet(Words)

\* One element, kept or not.
LEMMA SelectedOne ==
  ASSUME NEW T, NEW e \in T, NEW S
  PROVE  Selected(<<e>>, S) = IF e \in S THEN <<e>> ELSE <<>>
<1>1. <<e>> \in Seq(T) /\ Len(<<e>>) = 1 /\ <<e>>[1] = e /\ Append(<<>>, e) = <<e>>
  OBVIOUS
<1>2. /\ Selections(<<e>>, S)[0] = <<>>
      /\ \A i \in 1..1 : Selections(<<e>>, S)[i] =
           IF <<e>>[i] \in S THEN Append(Selections(<<e>>, S)[i - 1], <<e>>[i])
           ELSE Selections(<<e>>, S)[i - 1]
  <2> PICK s \in Seq(T) : s = <<e>>
    BY <1>1
  <2>1. /\ Selections(s, S)[0] = <<>>
        /\ \A i \in 1..Len(s) : Selections(s, S)[i] =
             IF s[i] \in S THEN Append(Selections(s, S)[i - 1], s[i]) ELSE Selections(s, S)[i - 1]
    BY ONLY SelectionsSteps, s \in Seq(T)
  <2> QED
    BY <1>1, <2>1
<1>3. 1 \in 1..1 /\ 1 - 1 = 0
  OBVIOUS
<1>4. Selections(<<e>>, S)[1] = IF e \in S THEN <<e>> ELSE <<>>
  BY <1>1, <1>2, <1>3
<1> QED
  BY <1>1, <1>4 DEF Selected

\* kimbap's own text has no word in it.
LEMMA NoWords ==
  ASSUME NEW s \in Seq(Pieces), \A i \in 1..Len(s) : s[i] \notin ToSet(Words)
  PROVE  UserWords(s) = <<>>
<1> PICK r \in Seq(Pieces) : r = UserWords(s)
  BY SelectedIsSet DEF UserWords
<1>1. ToSet(r) = {}
  <2>1. ToSet(r) = ToSet(s) \intersect ToSet(Words)
    BY SelectedIsSet DEF UserWords
  <2>2. ToSet(s) = {s[i] : i \in 1..Len(s)}
    BY DEF ToSet
  <2> QED
    BY <2>1, <2>2
<1>2. Len(r) \in Nat /\ DOMAIN r = 1..Len(r)
  OBVIOUS
<1>3. \A i \in DOMAIN r : r[i] \in ToSet(r)
  BY DEF ToSet
<1>4. Len(r) = 0
  <2>1. 1 \notin 1..Len(r)
    BY <1>1, <1>2, <1>3
  <2> QED
    BY <1>2, <2>1
<1> QED
  BY <1>4

\* The greatest of some numbers no greater than n.
LEMMA GreatestUpTo ==
  ASSUME NEW n \in Nat, NEW S \in SUBSET (1..n), S # {}
  PROVE  \E m \in S : \A k \in S : k <= m
<1> DEFINE D == {d \in Nat : n - d \in S}
<1>1. D \in SUBSET Nat /\ \A k \in S : n - k \in D
  OBVIOUS
<1>2. PICK d \in D : \A e \in D : d <= e
  <2> HIDE DEF D
  <2>1. D # {}
    BY <1>1
  <2> QED
    BY <1>1, <2>1, LeastNumber
<1>3. n - d \in S /\ \A k \in S : k <= n - d
  BY <1>1, <1>2
<1> QED
  BY <1>3

LEMMA MaxMin ==
  ASSUME NEW n \in Nat, NEW S \in SUBSET (1..n), S # {}
  PROVE  /\ Max(S) \in S /\ \A k \in S : k <= Max(S)
         /\ Min(S) \in S /\ \A k \in S : Min(S) <= k
<1>1. \E m \in S : \A k \in S : m >= k
  BY GreatestUpTo
<1>2. S \in SUBSET Nat
  OBVIOUS
<1>3. \E m \in S : \A k \in S : m <= k
  BY <1>2, LeastNumber
<1> QED
  BY <1>1, <1>3 DEF Max, Min

\* The first place of a piece.
LEMMA PlaceIsFirst ==
  ASSUME NEW T, NEW f \in Seq(T), NEW p
  PROVE  /\ Place(f, p) \in 0..Len(f)
         /\ Place(f, p) = 0 => \A i \in 1..Len(f) : f[i] # p
         /\ Place(f, p) # 0 => f[Place(f, p)] = p /\ \A i \in 1..Len(f) : f[i] = p => Place(f, p) <= i
<1> DEFINE I == {i \in 1..Len(f) : f[i] = p}
<1>1. Place(f, p) = IF I # {} THEN Min(I) ELSE 0
  BY DEF Place, SelectInSeq
<1>2. Len(f) \in Nat /\ I \in SUBSET (1..Len(f))
  OBVIOUS
<1>3. ASSUME I # {} PROVE Min(I) \in I /\ \A k \in I : Min(I) <= k
  <2> HIDE DEF I
  <2> QED
    BY <1>2, <1>3, MaxMin
<1>4. CASE I = {}
  BY <1>1, <1>2, <1>4
<1>5. CASE I # {}
  BY <1>1, <1>2, <1>3, <1>5
<1> QED
  BY <1>4, <1>5

\* It is the only number that could be.
LEMMA PlaceIs ==
  ASSUME NEW T, NEW f \in Seq(T), NEW p, NEW i \in 1..Len(f), f[i] = p,
         \A j \in 1..Len(f) : j < i => f[j] # p
  PROVE  Place(f, p) = i
<1> PICK q : q = Place(f, p)
  OBVIOUS
<1>1. /\ q \in 0..Len(f)
      /\ q = 0 => \A j \in 1..Len(f) : f[j] # p
      /\ q # 0 => f[q] = p /\ \A j \in 1..Len(f) : f[j] = p => q <= j
  BY PlaceIsFirst
<1>2. q # 0
  BY <1>1
<1>3. q <= i /\ ~(q < i)
  BY <1>1, <1>2
<1> QED
  BY <1>1, <1>3

\* A stretch of a sequence.
LEMMA Stretch ==
  ASSUME NEW T, NEW f \in Seq(T), NEW a \in Nat, NEW b \in Nat, 1 <= a, a <= b + 1, b <= Len(f)
  PROVE  /\ SubSeq(f, a, b) \in Seq(T) /\ Len(SubSeq(f, a, b)) = b - a + 1
         /\ \A i \in 1..b - a + 1 : SubSeq(f, a, b)[i] = f[a + i - 1]
<1>1. \A i \in a..b : f[i] \in T
  OBVIOUS
<1>2. /\ SubSeq(f, a, b) \in Seq(T)
      /\ Len(SubSeq(f, a, b)) = IF a <= b THEN b - a + 1 ELSE 0
      /\ \A i \in 1..b - a + 1 : SubSeq(f, a, b)[i] = f[a + i - 1]
  BY <1>1, SubSeqProperties
<1> QED
  BY <1>2

LEMMA SameStretch ==
  ASSUME NEW T, NEW f \in Seq(T), NEW g \in Seq(T), NEW a \in Nat, NEW b \in Nat,
         1 <= a, a <= b + 1, b <= Len(f), b <= Len(g), \A i \in a..b : f[i] = g[i]
  PROVE  SubSeq(f, a, b) = SubSeq(g, a, b)
<1> PICK x, y : x = SubSeq(f, a, b) /\ y = SubSeq(g, a, b)
  OBVIOUS
<1>1. /\ x \in Seq(T) /\ Len(x) = b - a + 1 /\ \A i \in 1..b - a + 1 : x[i] = f[a + i - 1]
      /\ y \in Seq(T) /\ Len(y) = b - a + 1 /\ \A i \in 1..b - a + 1 : y[i] = g[a + i - 1]
  BY Stretch
<1>2. \A i \in 1..Len(x) : x[i] = y[i]
  BY <1>1
<1> QED
  BY <1>1, <1>2, SeqEqual

\* A sequence is its first a elements, and the rest.
LEMMA CutInTwo ==
  ASSUME NEW T, NEW f \in Seq(T), NEW a \in 0..Len(f)
  PROVE  /\ SubSeq(f, 1, a) \in Seq(T) /\ SubSeq(f, a + 1, Len(f)) \in Seq(T)
         /\ f = SubSeq(f, 1, a) \o SubSeq(f, a + 1, Len(f))
<1> PICK x, y, n : x = SubSeq(f, 1, a) /\ y = SubSeq(f, a + 1, Len(f)) /\ n = Len(f)
  OBVIOUS
<1>1. n \in Nat /\ a \in Nat /\ a <= n /\ 1 <= a + 1 /\ a + 1 \in Nat /\ a + 1 <= n + 1
  OBVIOUS
<1>2. x \in Seq(T) /\ Len(x) = a /\ \A i \in 1..a : x[i] = f[i]
  <2>1. /\ x \in Seq(T) /\ Len(x) = a - 1 + 1 /\ \A i \in 1..a - 1 + 1 : x[i] = f[1 + i - 1]
    BY <1>1, Stretch
  <2>2. a - 1 + 1 = a /\ \A i \in 1..a : 1 + i - 1 = i
    BY ONLY <1>1
  <2> QED
    BY ONLY <2>1, <2>2
<1>3. y \in Seq(T) /\ Len(y) = n - a /\ \A i \in 1..n - a : y[i] = f[a + i]
  <2>1. /\ y \in Seq(T) /\ Len(y) = n - (a + 1) + 1
        /\ \A i \in 1..n - (a + 1) + 1 : y[i] = f[(a + 1) + i - 1]
    BY <1>1, Stretch
  <2>2. n - (a + 1) + 1 = n - a /\ \A i \in 1..n - a : (a + 1) + i - 1 = a + i
    BY ONLY <1>1
  <2> QED
    BY ONLY <2>1, <2>2
<1>4. /\ x \o y \in Seq(T) /\ Len(x \o y) = n
      /\ \A i \in 1..n : f[i] = (x \o y)[i]
  <2>1. /\ x \o y \in Seq(T) /\ Len(x \o y) = a + (n - a)
        /\ \A i \in 1..a : (x \o y)[i] = x[i]
        /\ \A i \in 1..n - a : (x \o y)[a + i] = y[i]
    <3>1. /\ x \o y \in Seq(T) /\ Len(x \o y) = Len(x) + Len(y)
          /\ \A i \in 1..Len(x) : (x \o y)[i] = x[i]
          /\ \A i \in 1..Len(y) : (x \o y)[Len(x) + i] = y[i]
      <4>1. x \in Seq(T) /\ y \in Seq(T)
        BY <1>2, <1>3
      <4> QED
        BY ONLY <4>1, Joined
    <3> QED
      BY <1>2, <1>3, <3>1
  <2>2. ASSUME NEW i \in 1..n, i > a PROVE f[i] = (x \o y)[i]
    <3>1. i - a \in 1..n - a /\ a + (i - a) = i
      BY ONLY <1>1, <2>2, i \in 1..n
    <3>2. y[i - a] = f[a + (i - a)] /\ (x \o y)[a + (i - a)] = y[i - a]
      BY ONLY <1>3, <2>1, <3>1
    <3> QED
      BY ONLY <3>1, <3>2
  <2>3. \A i \in 1..n : i > a \/ i \in 1..a
    BY <1>1
  <2>4. a + (n - a) = n
    BY <1>1
  <2> QED
    BY <1>2, <2>1, <2>2, <2>3, <2>4
<1>5. f = x \o y
  BY <1>4, SeqEqual
<1> QED
  BY <1>2, <1>3, <1>5

Free(s, p) == \A i \in 1..Len(s) : s[i] # p

\* The sequences these lemmas are about, by name; z is the n elements of f after a.
IsCut(z, f, a, b) == z = SubSeq(f, a, b)
IsBlocked(g, x, y) == g = x \o Block \o y
IsTaken(z, f, a, n) == z \in Seq(Pieces) /\ n \in Nat /\ Len(z) = n /\ \A i \in 1..n : z[i] = f[a + i]
Sized(w, n) == w \in Seq(Pieces) /\ n \in Nat /\ Len(w) = n

LEMMA SamePieces ==
  ASSUME NEW x, NEW y, NEW f, NEW a, NEW n, IsTaken(x, f, a, n), IsTaken(y, f, a, n)
  PROVE  x = y
<1>1. x \in Seq(Pieces) /\ y \in Seq(Pieces) /\ Len(x) = Len(y) /\ \A i \in 1..Len(x) : x[i] = y[i]
  BY DEF IsTaken
<1> QED
  BY <1>1, SeqEqual

\* A sequence cut at a.
LEMMA CutJoins ==
  ASSUME NEW f \in Seq(Pieces), NEW a \in Nat, a <= Len(f), NEW x, NEW y,
         IsCut(x, f, 1, a), IsCut(y, f, a + 1, Len(f))
  PROVE  IsTaken(x, f, 0, a) /\ IsTaken(y, f, a, Len(f) - a) /\ IsJoin(f, x, y)
<1> PICK T : T = Pieces
  OBVIOUS
<1>1. x = SubSeq(f, 1, a) /\ y = SubSeq(f, a + 1, Len(f))
  BY DEF IsCut
<1>2. a \in 0..Len(f) /\ f \in Seq(T)
  OBVIOUS
<1>3. x \in Seq(T) /\ y \in Seq(T) /\ f = x \o y
  BY <1>1, <1>2, CutInTwo
<1>4. Len(x) = a /\ \A i \in 1..a : x[i] = f[0 + i]
  <2>1. /\ Len(SubSeq(f, 1, a)) = a - 1 + 1
        /\ \A i \in 1..a - 1 + 1 : SubSeq(f, 1, a)[i] = f[1 + i - 1]
    BY Stretch
  <2> QED
    BY <1>1, <2>1
<1>5. Len(y) = Len(f) - a /\ \A i \in 1..Len(f) - a : y[i] = f[a + i]
  <2> PICK p, n : p = a + 1 /\ n = Len(f)
    OBVIOUS
  <2>1. p \in Nat /\ n \in Nat /\ 1 <= p /\ p <= n + 1 /\ n <= Len(f)
    OBVIOUS
  <2>2. Len(SubSeq(f, p, n)) = n - p + 1 /\ \A i \in 1..n - p + 1 : SubSeq(f, p, n)[i] = f[p + i - 1]
    BY <2>1, Stretch
  <2>3. y = SubSeq(f, p, n)
    BY <1>1
  <2>4. Len(y) = n - p + 1 /\ \A i \in 1..n - p + 1 : y[i] = f[p + i - 1]
    BY ONLY <2>2, <2>3
  <2> QED
    BY <2>1, <2>4
<1>6. a \in Nat /\ Len(f) - a \in Nat
  OBVIOUS
<1> QED
  BY ONLY <1>3, <1>4, <1>5, <1>6, T = Pieces DEF IsJoin, IsTaken

\* The first elements alone.
LEMMA CutFirst ==
  ASSUME NEW f \in Seq(Pieces), NEW a \in Nat, a <= Len(f), NEW x, IsCut(x, f, 1, a)
  PROVE  IsTaken(x, f, 0, a)
<1> PICK y : IsCut(y, f, a + 1, Len(f))
  BY DEF IsCut
<1> QED
  BY CutJoins

LEMMA JoinIs ==
  ASSUME NEW x \in Seq(Pieces), NEW y \in Seq(Pieces), NEW w, IsJoin(w, x, y)
  PROVE  /\ Sized(w, Len(x) + Len(y)) /\ IsTaken(x, w, 0, Len(x)) /\ IsTaken(y, w, Len(x), Len(y))
<1> PICK T : T = Pieces
  OBVIOUS
<1>1. w = x \o y
  BY DEF IsJoin
<1>2. /\ x \o y \in Seq(T) /\ Len(x \o y) = Len(x) + Len(y)
      /\ Len(x) \in Nat /\ Len(y) \in Nat
      /\ \A i \in 1..Len(x) : (x \o y)[i] = x[i]
      /\ \A i \in 1..Len(y) : (x \o y)[Len(x) + i] = y[i]
  BY Joined
<1>3. /\ w \in Seq(T) /\ Len(w) = Len(x) + Len(y)
      /\ \A i \in 1..Len(x) : w[i] = x[i]
      /\ \A i \in 1..Len(y) : w[Len(x) + i] = y[i]
  BY ONLY <1>1, <1>2
<1>4. Len(x) \in Nat /\ Len(y) \in Nat /\ \A i \in 1..Len(x) : 0 + i = i
  OBVIOUS
<1> QED
  BY <1>3, <1>4 DEF Sized, IsTaken

LEMMA TextsAreNoWords == \A x \in BlockTexts : x \notin ToSet(Words)
  BY WordsAssumption DEF BlockTexts

LEMMA WordsJoin ==
  ASSUME NEW s \in Seq(Pieces), NEW t \in Seq(Pieces), NEW w, IsJoin(w, s, t)
  PROVE  /\ IsJoin(UserWords(w), UserWords(s), UserWords(t))
         /\ UserWords(s) \in Seq(Pieces) /\ UserWords(t) \in Seq(Pieces)
<1> PICK v : v = ToSet(Words)
  OBVIOUS
<1> PICK T : T = Pieces
  OBVIOUS
<1>1. s \in Seq(T) /\ t \in Seq(T)
  OBVIOUS
<1>2. IsJoin(Selected(w, v), Selected(s, v), Selected(t, v))
  BY <1>1, SelectedJoins
<1>3. Selected(s, v) \in Seq(T) /\ Selected(t, v) \in Seq(T)
  BY <1>1, SelectedIsSet
<1> QED
  BY <1>2, <1>3 DEF UserWords

LEMMA EmptyJoins ==
  ASSUME NEW s \in Seq(Pieces), NEW w
  PROVE  /\ <<>> \in Seq(Pieces) /\ Len(<<>>) = 0
         /\ IsJoin(w, s, <<>>) => w = s
         /\ IsJoin(w, <<>>, s) => w = s
  BY DEF IsJoin

\* Pieces without words, anywhere, are no words.
LEMMA WordsAround ==
  ASSUME NEW f \in Seq(Pieces), NEW a \in Nat, NEW b \in Nat, a <= b, b <= Len(f),
         \A i \in a + 1..b : f[i] \notin ToSet(Words),
         NEW x, NEW y, IsCut(x, f, 1, a), IsCut(y, f, b + 1, Len(f))
  PROVE  /\ IsJoin(UserWords(f), UserWords(x), UserWords(y))
         /\ IsTaken(x, f, 0, a) /\ IsTaken(y, f, b, Len(f) - b)
<1> PICK g : IsCut(g, f, 1, b)
  BY DEF IsCut
<1>1. IsTaken(g, f, 0, b) /\ IsTaken(y, f, b, Len(f) - b) /\ IsJoin(f, g, y)
  BY CutJoins
<1>2. g \in Seq(Pieces) /\ Len(g) = b /\ a <= Len(g) /\ y \in Seq(Pieces)
  BY <1>1 DEF IsTaken
<1> PICK l, m : IsCut(l, g, 1, a) /\ IsCut(m, g, a + 1, Len(g))
  BY DEF IsCut
<1>3. IsTaken(l, g, 0, a) /\ IsTaken(m, g, a, Len(g) - a) /\ IsJoin(g, l, m)
  BY <1>2, CutJoins
<1>4. IsTaken(x, f, 0, a)
  <2>1. a <= Len(f)
    OBVIOUS
  <2> QED
    BY <2>1, CutFirst
<1>5. l = x
  <2>1. IsTaken(l, f, 0, a)
    BY <1>1, <1>3 DEF IsTaken
  <2> QED
    BY <1>4, <2>1, SamePieces
<1>6. UserWords(m) = <<>>
  <2>1. m \in Seq(Pieces) /\ Len(m) = b - a /\ \A i \in 1..b - a : m[i] = g[a + i]
    BY <1>2, <1>3 DEF IsTaken
  <2>2. \A i \in 1..b : g[i] = f[i]
    BY <1>1 DEF IsTaken
  <2>3. ASSUME NEW i \in 1..Len(m) PROVE m[i] \notin ToSet(Words)
    <3>1. m[i] = g[a + i] /\ a + i \in a + 1..b /\ a + i \in 1..b
      BY <2>1
    <3> QED
      BY <2>2, <3>1
  <2> QED
    BY <2>1, <2>3, NoWords
<1>7. l \in Seq(Pieces) /\ m \in Seq(Pieces)
  BY <1>3 DEF IsTaken
<1>8. IsJoin(UserWords(f), UserWords(g), UserWords(y))
  BY <1>1, <1>2, WordsJoin
<1>9. IsJoin(UserWords(g), UserWords(l), UserWords(m)) /\ UserWords(l) \in Seq(Pieces)
  BY <1>3, <1>7, WordsJoin
<1>10. UserWords(g) = UserWords(l)
  BY <1>6, <1>9, EmptyJoins
<1> QED
  BY <1>1, <1>4, <1>5, <1>8, <1>10

BlockAfter(g, m) ==
  g[m + 1] = "S" /\ g[m + 2] = "n" /\ g[m + 3] = "b" /\ g[m + 4] = "E" /\ g[m + 5] = "n"

\* The elements of a block between others.
LEMMA BlockBetween ==
  ASSUME NEW x \in Seq(Pieces), NEW y \in Seq(Pieces), NEW g, IsBlocked(g, x, y)
  PROVE  /\ Sized(g, Len(x) + 5 + Len(y)) /\ IsTaken(x, g, 0, Len(x)) /\ IsTaken(y, g, Len(x) + 5, Len(y))
         /\ BlockAfter(g, Len(x))
         /\ IsJoin(UserWords(g), UserWords(x), UserWords(y))
<1> PICK k : k = Block
  OBVIOUS
<1> PICK w : IsJoin(w, x, k)
  BY DEF IsJoin
<1>1. IsJoin(g, w, y)
  BY DEF IsBlocked, IsJoin
<1>2. /\ k \in Seq(Pieces) /\ Len(k) = 5 /\ UserWords(k) = <<>>
      /\ k[1] = "S" /\ k[2] = "n" /\ k[3] = "b" /\ k[4] = "E" /\ k[5] = "n"
  <2>1. /\ k \in Seq(Pieces) /\ Len(k) = 5
        /\ k[1] = "S" /\ k[2] = "n" /\ k[3] = "b" /\ k[4] = "E" /\ k[5] = "n"
    BY DEF Block, Pieces, BlockTexts
  <2>2. \A i \in 1..Len(k) : k[i] \in BlockTexts
    BY DEF Block, BlockTexts
  <2>3. UserWords(k) = <<>>
    BY <2>1, <2>2, NoWords, TextsAreNoWords
  <2> QED
    BY <2>1, <2>3
<1>3. Sized(w, Len(x) + Len(k)) /\ IsTaken(x, w, 0, Len(x)) /\ IsTaken(k, w, Len(x), Len(k))
  BY <1>2, JoinIs
<1>4. w \in Seq(Pieces)
  BY <1>3 DEF Sized
<1>5. Sized(g, Len(w) + Len(y)) /\ IsTaken(w, g, 0, Len(w)) /\ IsTaken(y, g, Len(w), Len(y))
  BY <1>1, <1>4, JoinIs
<1> PICK m, n : m = Len(x) /\ n = Len(y)
  OBVIOUS
<1>6. m \in Nat /\ n \in Nat /\ Len(w) = m + 5 /\ g \in Seq(Pieces) /\ Len(g) = m + 5 + n
  BY <1>2, <1>3, <1>5 DEF Sized, IsTaken
<1>7. (\A i \in 1..m : x[i] = w[i]) /\ (\A i \in 1..5 : k[i] = w[m + i]) /\ \A i \in 1..m + 5 : w[i] = g[i]
  BY <1>2, <1>3, <1>5, <1>6 DEF IsTaken
<1>8. \A i \in 1..5 : g[m + i] = k[i]
  <2>1. \A i \in 1..5 : m + i \in 1..m + 5
    BY <1>6
  <2> QED
    BY ONLY <1>7, <2>1
<1>9. BlockAfter(g, m)
  <2>1. 1 \in 1..5 /\ 2 \in 1..5 /\ 3 \in 1..5 /\ 4 \in 1..5 /\ 5 \in 1..5
    OBVIOUS
  <2> QED
    BY <1>2, <1>8, <2>1 DEF BlockAfter
<1>10. IsTaken(x, g, 0, m)
  BY <1>6, <1>7 DEF IsTaken
<1>11. IsJoin(UserWords(g), UserWords(x), UserWords(y))
  <2>1. IsJoin(UserWords(w), UserWords(x), UserWords(k)) /\ UserWords(x) \in Seq(Pieces)
    BY <1>2, WordsJoin
  <2>2. UserWords(w) = UserWords(x)
    BY <1>2, <2>1, EmptyJoins
  <2>3. IsJoin(UserWords(g), UserWords(w), UserWords(y))
    BY <1>1, <1>4, WordsJoin
  <2> QED
    BY <2>2, <2>3
<1>12. Sized(g, m + 5 + n)
  BY <1>6 DEF Sized
<1> QED
  BY <1>5, <1>6, <1>9, <1>10, <1>11, <1>12

\* A block after pieces with no marker among them is found again.
LEMMA BlockFound ==
  ASSUME NEW x \in Seq(Pieces), NEW y \in Seq(Pieces), NEW g, IsBlocked(g, x, y),
         Free(x, "S"), Free(x, "E")
  PROVE  WellMarked(g) /\ Before(g) = x /\ After(g) = y /\ Inject(g) = g
<1> PICK m, n : m = Len(x) /\ n = Len(y)
  OBVIOUS
<1>1. /\ Sized(g, m + 5 + n) /\ IsTaken(x, g, 0, m) /\ IsTaken(y, g, m + 5, n) /\ BlockAfter(g, m)
  BY BlockBetween
<1>2. /\ m \in Nat /\ n \in Nat /\ g \in Seq(Pieces) /\ Len(g) = m + 5 + n
      /\ \A i \in 1..m : g[i] = x[i]
  BY <1>1 DEF IsTaken, Sized
<1>3. Place(g, "S") = m + 1
  <2> PICK p, q : p = m + 1 /\ q = "S"
    OBVIOUS
  <2>1. p \in 1..Len(g) /\ g[p] = q
    BY <1>1, <1>2 DEF BlockAfter
  <2>2. \A j \in 1..Len(g) : j < p => g[j] # q
    BY <1>2 DEF Free
  <2>3. Place(g, q) = p
    BY <1>2, <2>1, <2>2, PlaceIs
  <2> QED
    BY <2>3
<1>4. Place(g, "E") = m + 4
  <2> PICK p, q : p = m + 4 /\ q = "E"
    OBVIOUS
  <2>1. \A j \in 1..Len(g) : j < p => j \in 1..m \/ j = m + 1 \/ j = m + 2 \/ j = m + 3
    BY <1>2
  <2>2. \A j \in 1..Len(g) : j < p => g[j] # q
    BY <1>1, <1>2, <2>1 DEF Free, BlockAfter
  <2>3. p \in 1..Len(g) /\ g[p] = q
    BY <1>1, <1>2 DEF BlockAfter
  <2>4. Place(g, q) = p
    BY <1>2, <2>2, <2>3, PlaceIs
  <2> QED
    BY <2>4
<1>5. WellMarked(g)
  BY <1>2, <1>3, <1>4 DEF WellMarked
<1>6. BlockEnd(g) = m + 5
  BY <1>1, <1>2, <1>4 DEF BlockEnd, BlockAfter
<1> PICK a : IsCut(a, g, 1, m)
  BY DEF IsCut
<1> PICK c, d, p : p = m + 5 /\ IsCut(c, g, 1, p) /\ IsCut(d, g, p + 1, Len(g))
  BY DEF IsCut
<1>7. a = x
  <2>1. m <= Len(g)
    BY <1>2
  <2>2. IsTaken(a, g, 0, m)
    BY <1>2, <2>1, CutFirst
  <2> QED
    BY <1>1, <2>2, SamePieces
<1>8. d = y
  <2>1. p \in Nat /\ p <= Len(g) /\ Len(g) - p = n
    BY <1>2
  <2>2. IsTaken(d, g, p, Len(g) - p)
    BY <1>2, <2>1, CutJoins
  <2>3. IsTaken(d, g, p, n) /\ IsTaken(y, g, p, n)
    BY <1>1, <2>1, <2>2
  <2> QED
    BY <2>3, SamePieces
<1>9. Before(g) = x
  <2>1. (m + 1) - 1 = m
    BY <1>2
  <2> QED
    BY <1>3, <1>7, <2>1 DEF Before, IsCut
<1>10. After(g) = y
  BY <1>6, <1>8 DEF After, IsCut
<1> QED
  BY <1>5, <1>9, <1>10 DEF Inject, IsBlocked

(***************************************************************************)
(* What the commands do to the file.                                       *)
(***************************************************************************)
\* Nothing but kimbap's text lies between an open marker and a later close.
Inside(f) ==
  \A i, j, k \in 1..Len(f) : i < j /\ j < k /\ f[i] = "S" /\ f[k] = "E" => f[j] \in BlockTexts

\* x is f with newlines after it.
Lengthens(x, f) ==
  /\ x \in Seq(Pieces) /\ f \in Seq(Pieces) /\ Len(f) <= Len(x)
  /\ \A i \in 1..Len(f) : x[i] = f[i]
  /\ \A i \in Len(f) + 1..Len(x) : x[i] = "n"

LEMMA NoWordsInNothing == UserWords(<<>>) = <<>> /\ <<>> \in Seq(Pieces) /\ Len(<<>>) = 0
<1>1. <<>> \in Seq(Pieces) /\ Len(<<>>) = 0
  OBVIOUS
<1>2. \A i \in 1..Len(<<>>) : <<>>[i] \notin ToSet(Words)
  BY <1>1
<1> QED
  BY <1>1, <1>2, NoWords

LEMMA NewlineIsPiece == "n" \in Pieces /\ "n" \notin ToSet(Words) /\ "n" # "S" /\ "n" # "E" /\ "n" \in BlockTexts
  BY TextsAreNoWords DEF Pieces, BlockTexts

LEMMA LengthensKeepsWords ==
  ASSUME NEW x, NEW f, Lengthens(x, f)
  PROVE  UserWords(x) = UserWords(f)
<1> PICK a, b : a = Len(f) /\ b = Len(x)
  OBVIOUS
<1> PICK u, v : IsCut(u, x, 1, a) /\ IsCut(v, x, b + 1, Len(x))
  BY DEF IsCut
<1>1. /\ x \in Seq(Pieces) /\ f \in Seq(Pieces) /\ a \in Nat /\ b \in Nat /\ a <= b /\ b <= Len(x)
      /\ \A i \in 1..a : x[i] = f[i]
      /\ \A i \in a + 1..b : x[i] \notin ToSet(Words)
  BY NewlineIsPiece DEF Lengthens
<1>2. IsJoin(UserWords(x), UserWords(u), UserWords(v)) /\ IsTaken(u, x, 0, a) /\ IsTaken(v, x, b, Len(x) - b)
  BY <1>1, WordsAround
<1>3. u = f
  <2>1. IsTaken(f, x, 0, a)
    BY <1>1 DEF IsTaken
  <2> QED
    BY <1>2, <2>1, SamePieces
<1>4. v = <<>>
  BY <1>2 DEF IsTaken
<1>5. UserWords(f) \in Seq(Pieces)
  <2>1. IsJoin(f \o f, f, f)
    BY DEF IsJoin
  <2> QED
    BY <1>1, <2>1, WordsJoin
<1>6. IsJoin(UserWords(x), UserWords(f), <<>>)
  BY <1>2, <1>3, <1>4, NoWordsInNothing
<1> QED
  BY <1>5, <1>6, EmptyJoins

LEMMA NewlinedLengthens ==
  ASSUME NEW f \in Seq(Pieces)
  PROVE  Lengthens(Newlined(f), f) /\ Lengthens(Append(f, "n"), f) /\ Lengthens(f, f)
<1>1. Lengthens(Append(f, "n"), f)
  BY NewlineIsPiece DEF Lengthens
<1>2. Lengthens(f, f)
  BY DEF Lengthens
<1> QED
  BY <1>1, <1>2 DEF Newlined

LEMMA LengthensOnceMore ==
  ASSUME NEW x, NEW y, NEW f, Lengthens(x, y), Lengthens(y, f)
  PROVE  Lengthens(x, f)
<1>1. Len(f) \in Nat /\ Len(y) \in Nat /\ Len(x) \in Nat /\ Len(f) <= Len(y) /\ Len(y) <= Len(x)
  BY DEF Lengthens
<1>2. ASSUME NEW i \in Len(f) + 1..Len(x) PROVE x[i] = "n"
  <2>1. CASE i <= Len(y)
    BY <1>1, <2>1 DEF Lengthens
  <2>2. CASE i > Len(y)
    BY <1>1, <2>2 DEF Lengthens
  <2> QED
    BY <1>1, <2>1, <2>2
<1>3. \A i \in 1..Len(f) : i \in 1..Len(y)
  BY <1>1
<1>4. \A i \in 1..Len(f) : x[i] = f[i]
  BY <1>3 DEF Lengthens
<1> QED
  BY <1>1, <1>2, <1>4 DEF Lengthens

\* TrimRight keeps the first m pieces.
RightTrims(z, f, m) ==
  /\ m \in 0..Len(f) /\ IsTaken(z, f, 0, m)
  /\ \A i \in m + 1..Len(f) : f[i] = "n"
  /\ m > 0 => f[m] # "n"

LEMMA TrimRightIs ==
  ASSUME NEW f \in Seq(Pieces)
  PROVE  \E m \in 0..Len(f) : RightTrims(TrimRight(f), f, m)
<1> PICK keep : keep = {i \in DOMAIN f : f[i] # "n"}
  OBVIOUS
<1> PICK m : m = IF keep = {} THEN 0 ELSE Max(keep)
  OBVIOUS
<1>1. Len(f) \in Nat /\ keep \in SUBSET (1..Len(f)) /\ \A i \in 1..Len(f) : i \in keep <=> f[i] # "n"
  OBVIOUS
<1>2. keep # {} => Max(keep) \in keep /\ \A k \in keep : k <= Max(keep)
  BY <1>1, MaxMin
<1>3. /\ m \in 0..Len(f) /\ (m > 0 => f[m] # "n")
      /\ \A i \in m + 1..Len(f) : f[i] = "n"
  <2>1. CASE keep = {}
    <3>1. m = 0
      BY <2>1
    <3> QED
      BY ONLY <1>1, <2>1, <3>1
  <2>2. CASE keep # {}
    <3>1. m \in keep /\ \A k \in keep : k <= m
      BY <1>2, <2>2
    <3> QED
      BY ONLY <1>1, <3>1
  <2> QED
    BY <2>1, <2>2
<1> PICK z : IsCut(z, f, 1, m)
  BY DEF IsCut
<1>4. IsTaken(z, f, 0, m)
  <2>1. m \in Nat /\ m <= Len(f)
    BY ONLY <1>1, <1>3
  <2> QED
    BY <2>1, CutFirst
<1>5. z = TrimRight(f)
  BY DEF TrimRight, IsCut
<1>6. RightTrims(z, f, m)
  BY ONLY <1>3, <1>4 DEF RightTrims
<1> QED
  BY <1>3, <1>5, <1>6

\* TrimLeft drops the first m pieces.
LeftTrims(z, f, m) ==
  /\ m \in 0..Len(f) /\ IsTaken(z, f, m, Len(f) - m)
  /\ \A i \in 1..m : f[i] = "n"
  /\ m < Len(f) => f[m + 1] # "n"

LEMMA TrimLeftIs ==
  ASSUME NEW f \in Seq(Pieces)
  PROVE  \E m \in 0..Len(f) : LeftTrims(TrimLeft(f), f, m)
<1> PICK keep : keep = {i \in DOMAIN f : f[i] # "n"}
  OBVIOUS
<1>1. Len(f) \in Nat /\ keep \in SUBSET (1..Len(f)) /\ \A i \in 1..Len(f) : i \in keep <=> f[i] # "n"
  OBVIOUS
<1>2. CASE keep = {}
  <2>1. TrimLeft(f) = <<>>
    BY <1>2 DEF TrimLeft
  <2>2. IsTaken(<<>>, f, Len(f), Len(f) - Len(f))
    BY <1>1 DEF IsTaken
  <2>3. LeftTrims(<<>>, f, Len(f))
    BY <1>1, <1>2, <2>2 DEF LeftTrims
  <2>4. Len(f) \in 0..Len(f)
    BY <1>1
  <2> QED
    BY <2>1, <2>3, <2>4
<1>3. CASE keep # {}
  <2> PICK k : k = Min(keep)
    OBVIOUS
  <2> PICK m : m = k - 1
    OBVIOUS
  <2>1. k \in keep /\ \A i \in keep : k <= i
    BY <1>1, <1>3, MaxMin
  <2>2. m \in Nat /\ m < Len(f) /\ m + 1 = k /\ f[m + 1] # "n" /\ \A i \in 1..m : f[i] = "n"
    BY ONLY <1>1, <2>1, m = k - 1
  <2> PICK x, z : IsCut(x, f, 1, m) /\ IsCut(z, f, m + 1, Len(f))
    BY DEF IsCut
  <2>3. IsTaken(z, f, m, Len(f) - m)
    <3>1. m \in Nat /\ m <= Len(f)
      BY <1>1, <2>2
    <3> QED
      BY <3>1, CutJoins
  <2>4. z = TrimLeft(f)
    BY <1>3, <2>2 DEF TrimLeft, IsCut
  <2>5. LeftTrims(z, f, m) /\ m \in 0..Len(f)
    BY ONLY <1>1, <2>2, <2>3 DEF LeftTrims
  <2> QED
    BY <2>4, <2>5
<1> QED
  BY <1>2, <1>3

LEMMA TrimsKeepWords ==
  ASSUME NEW f \in Seq(Pieces), NEW z, NEW m, RightTrims(z, f, m) \/ LeftTrims(z, f, m)
  PROVE  UserWords(z) = UserWords(f) /\ z \in Seq(Pieces)
<1>1. CASE RightTrims(z, f, m)
  <2>1. Lengthens(f, z)
    BY <1>1 DEF RightTrims, Lengthens, IsTaken
  <2>2. z \in Seq(Pieces)
    BY <1>1 DEF RightTrims, IsTaken
  <2> QED
    BY <2>1, <2>2, LengthensKeepsWords
<1>2. CASE LeftTrims(z, f, m)
  <2> PICK a, u, v : a = 0 /\ IsCut(u, f, 1, a) /\ IsCut(v, f, m + 1, Len(f))
    BY DEF IsCut
  <2>1. /\ m \in Nat /\ a \in Nat /\ a <= m /\ m <= Len(f)
        /\ \A i \in a + 1..m : f[i] \notin ToSet(Words)
    BY <1>2, NewlineIsPiece DEF LeftTrims
  <2>2. IsJoin(UserWords(f), UserWords(u), UserWords(v)) /\ IsTaken(u, f, 0, a) /\ IsTaken(v, f, m, Len(f) - m)
    BY <2>1, WordsAround
  <2>3. v = z
    <3>1. IsTaken(z, f, m, Len(f) - m)
      BY <1>2 DEF LeftTrims
    <3> QED
      BY <2>2, <3>1, SamePieces
  <2>4. u = <<>> /\ z \in Seq(Pieces)
    BY <2>2, <2>3 DEF IsTaken
  <2>5. UserWords(z) \in Seq(Pieces)
    <3>1. IsJoin(z \o z, z, z)
      BY DEF IsJoin
    <3> QED
      BY <2>4, <3>1, WordsJoin
  <2>6. IsJoin(UserWords(f), <<>>, UserWords(z))
    BY <2>2, <2>3, <2>4, NoWordsInNothing
  <2> QED
    BY <2>4, <2>5, <2>6, EmptyJoins
<1> QED
  BY <1>1, <1>2

\* Where the first markers are.
LEMMA MarkersOf ==
  ASSUME NEW f \in Seq(Pieces)
  PROVE  /\ Unmarked(f) => Free(f, "S") /\ Free(f, "E")
         /\ WellMarked(f) => /\ ~Unmarked(f)
                             /\ \E s, e \in 1..Len(f) :
                                  /\ s = Place(f, "S") /\ e = Place(f, "E") /\ s < e
                                  /\ f[s] = "S" /\ f[e] = "E"
                                  /\ \A i \in 1..Len(f) : i < s => f[i] # "S" /\ f[i] # "E"
                                  /\ BlockEnd(f) \in e..Len(f)
                                  /\ \A i \in e + 1..BlockEnd(f) : f[i] = "n"
<1> PICK s, e : s = Place(f, "S") /\ e = Place(f, "E")
  OBVIOUS
<1>1. /\ s \in 0..Len(f)
      /\ s = 0 => \A i \in 1..Len(f) : f[i] # "S"
      /\ s # 0 => f[s] = "S" /\ \A i \in 1..Len(f) : f[i] = "S" => s <= i
  BY PlaceIsFirst
<1>2. /\ e \in 0..Len(f)
      /\ e = 0 => \A i \in 1..Len(f) : f[i] # "E"
      /\ e # 0 => f[e] = "E" /\ \A i \in 1..Len(f) : f[i] = "E" => e <= i
  BY PlaceIsFirst
<1>3. Unmarked(f) => Free(f, "S") /\ Free(f, "E")
  BY <1>1, <1>2 DEF Unmarked, Free
<1>4. ASSUME WellMarked(f)
      PROVE  /\ s \in 1..Len(f) /\ e \in 1..Len(f) /\ s < e /\ f[s] = "S" /\ f[e] = "E" /\ ~Unmarked(f)
             /\ \A i \in 1..Len(f) : i < s => f[i] # "S" /\ f[i] # "E"
  BY <1>1, <1>2, <1>4 DEF WellMarked, Unmarked
<1>5. ASSUME WellMarked(f)
      PROVE  BlockEnd(f) \in e..Len(f) /\ \A i \in e + 1..BlockEnd(f) : f[i] = "n"
  <2>1. BlockEnd(f) = IF e < Len(f) /\ f[e + 1] = "n" THEN e + 1 ELSE e
    BY DEF BlockEnd
  <2>2. e \in 1..Len(f) /\ Len(f) \in Nat
    BY <1>4, <1>5
  <2> QED
    BY ONLY <2>1, <2>2
<1>6. WellMarked(f) =>
        /\ s \in 1..Len(f) /\ e \in 1..Len(f)
        /\ s = Place(f, "S") /\ e = Place(f, "E") /\ s < e /\ f[s] = "S" /\ f[e] = "E"
        /\ \A i \in 1..Len(f) : i < s => f[i] # "S" /\ f[i] # "E"
        /\ BlockEnd(f) \in e..Len(f)
        /\ \A i \in e + 1..BlockEnd(f) : f[i] = "n"
  BY <1>4, <1>5
<1> QED
  BY <1>3, <1>4, <1>6

\* No word comes before a close marker in y.
Closed(y) == \A j, k \in 1..Len(y) : j < k /\ y[k] = "E" => y[j] \in BlockTexts

\* What is around the block of a file.
LEMMA AroundBlock ==
  ASSUME NEW f \in Seq(Pieces), WellMarked(f), Inside(f), NEW x, NEW y, x = Before(f), y = After(f)
  PROVE  /\ Free(x, "S") /\ Free(x, "E") /\ Closed(y)
         /\ IsJoin(UserWords(f), UserWords(x), UserWords(y))
         /\ x \in Seq(Pieces) /\ y \in Seq(Pieces)
         /\ \E a, b \in 0..Len(f) : IsTaken(x, f, 0, a) /\ IsTaken(y, f, b, Len(f) - b)
<1> PICK s, e \in 1..Len(f) :
      /\ s = Place(f, "S") /\ e = Place(f, "E") /\ s < e /\ f[s] = "S" /\ f[e] = "E"
      /\ \A i \in 1..Len(f) : i < s => f[i] # "S" /\ f[i] # "E"
      /\ BlockEnd(f) \in e..Len(f)
      /\ \A i \in e + 1..BlockEnd(f) : f[i] = "n"
  BY MarkersOf
<1> PICK a, b : a = s - 1 /\ b = BlockEnd(f)
  OBVIOUS
<1>1. Len(f) \in Nat /\ a \in Nat /\ b \in Nat /\ a + 1 = s /\ s < e /\ e <= b /\ b <= Len(f) /\ s \in Nat /\ e \in Nat
  OBVIOUS
<1>2. IsCut(x, f, 1, a) /\ IsCut(y, f, b + 1, Len(f))
  BY DEF Before, After, IsCut
<1>3. ASSUME NEW i \in a + 1..b PROVE f[i] \in BlockTexts
  <2>1. CASE i = s \/ i = e
    BY <2>1 DEF BlockTexts
  <2>2. CASE i > e
    <3>1. i \in e + 1..b
      BY ONLY <1>1, <2>2, i \in a + 1..b
    <3>2. f[i] = "n"
      BY <3>1
    <3> QED
      BY <3>2, NewlineIsPiece
  <2>3. CASE s < i /\ i < e
    BY <1>1, <2>3 DEF Inside
  <2> QED
    BY <1>1, <2>1, <2>2, <2>3
<1>4. \A i \in a + 1..b : f[i] \notin ToSet(Words)
  BY <1>3, TextsAreNoWords
<1>5. /\ IsJoin(UserWords(f), UserWords(x), UserWords(y))
      /\ IsTaken(x, f, 0, a) /\ IsTaken(y, f, b, Len(f) - b)
  <2>1. a <= b
    BY <1>1
  <2> QED
    BY <1>1, <1>2, <1>4, <2>1, WordsAround
<1>6. Free(x, "S") /\ Free(x, "E")
  <2>1. \A i \in 1..Len(x) : i \in 1..Len(f) /\ i < s /\ x[i] = f[i]
    <3>1. Len(x) = a /\ \A i \in 1..a : x[i] = f[0 + i]
      BY <1>5 DEF IsTaken
    <3>2. \A i \in 1..a : 0 + i = i /\ i \in 1..Len(f) /\ i < s
      BY ONLY <1>1
    <3> QED
      BY ONLY <3>1, <3>2
  <2> QED
    BY <2>1 DEF Free
<1>7. Closed(y)
  <2> SUFFICES ASSUME NEW j \in 1..Len(y), NEW k \in 1..Len(y), j < k, y[k] = "E"
               PROVE  y[j] \in BlockTexts
    BY DEF Closed
  <2>1. Len(y) = Len(f) - b /\ y[j] = f[b + j] /\ y[k] = f[b + k]
    BY <1>5 DEF IsTaken
  <2>2. b + j \in 1..Len(f) /\ b + k \in 1..Len(f) /\ s < b + j /\ b + j < b + k
    BY ONLY <1>1, <2>1, j \in 1..Len(y), k \in 1..Len(y), j < k
  <2> QED
    BY <2>1, <2>2 DEF Inside
<1>8. x \in Seq(Pieces) /\ y \in Seq(Pieces) /\ a \in 0..Len(f) /\ b \in 0..Len(f)
  BY <1>1, <1>5 DEF IsTaken
<1> QED
  BY <1>5, <1>6, <1>7, <1>8

\* A setup leaves a block, after no other marker, and the user's words.
LEMMA InjectIs ==
  ASSUME NEW f \in Seq(Pieces), WellMarked(f) \/ Unmarked(f), Inside(f), NEW g, g = Inject(f)
  PROVE  \E x, y \in Seq(Pieces) :
           /\ IsBlocked(g, x, y) /\ Free(x, "S") /\ Free(x, "E") /\ Closed(y)
           /\ IsJoin(UserWords(f), UserWords(x), UserWords(y))
           /\ Unmarked(f) => y = <<>> /\ Lengthens(x, f)
<1>1. CASE WellMarked(f)
  <2> PICK x, y : x = Before(f) /\ y = After(f)
    OBVIOUS
  <2>1. /\ Free(x, "S") /\ Free(x, "E") /\ Closed(y)
        /\ IsJoin(UserWords(f), UserWords(x), UserWords(y))
        /\ x \in Seq(Pieces) /\ y \in Seq(Pieces)
    BY <1>1, AroundBlock
  <2>2. IsBlocked(g, x, y)
    BY <1>1 DEF Inject, IsBlocked
  <2>3. ~Unmarked(f)
    BY <1>1, MarkersOf
  <2> QED
    BY <2>1, <2>2, <2>3
<1>2. CASE Unmarked(f) /\ ~WellMarked(f)
  <2> PICK x, y : x = (IF f = <<>> THEN <<>> ELSE Append(Newlined(f), "n")) /\ y = <<>>
    OBVIOUS
  <2>1. Lengthens(x, f)
    <3>1. CASE f = <<>>
      BY <3>1, NewlinedLengthens
    <3>2. CASE f # <<>>
      <4>1. Lengthens(Newlined(f), f) /\ Newlined(f) \in Seq(Pieces)
        BY NewlinedLengthens DEF Lengthens
      <4>2. Lengthens(Append(Newlined(f), "n"), Newlined(f))
        BY <4>1, NewlinedLengthens
      <4> QED
        BY <3>2, <4>1, <4>2, LengthensOnceMore
    <3> QED
      BY <3>1, <3>2
  <2>2. IsBlocked(g, x, y)
    <3>1. Block \in Seq(Pieces)
      BY DEF Block, Pieces, BlockTexts
    <3>2. g = x \o Block
      BY <1>2, <3>1, EmptyJoins DEF Inject, IsJoin
    <3>3. x \o Block \in Seq(Pieces)
      BY <2>1, <3>1 DEF Lengthens
    <3>4. IsJoin(g \o y, g, <<>>)
      BY DEF IsJoin
    <3>5. g \o y = g
      BY <3>2, <3>3, <3>4, EmptyJoins
    <3> QED
      BY <3>2, <3>5 DEF IsBlocked
  <2>3. Free(f, "S") /\ Free(f, "E")
    BY <1>2, MarkersOf
  <2>4. Free(x, "S") /\ Free(x, "E")
    <3>1. /\ \A i \in 1..Len(f) : x[i] = f[i]
          /\ \A i \in Len(f) + 1..Len(x) : x[i] = "n"
          /\ Len(f) \in Nat /\ Len(x) \in Nat
      BY <2>1 DEF Lengthens
    <3>2. \A i \in 1..Len(x) : i \in 1..Len(f) \/ i \in Len(f) + 1..Len(x)
      BY <3>1
    <3> QED
      BY <2>3, <3>1, <3>2 DEF Free
  <2>5. Closed(y) /\ x \in Seq(Pieces) /\ y \in Seq(Pieces)
    BY <2>1 DEF Closed, Lengthens
  <2>6. UserWords(x) = UserWords(f)
    BY <2>1, LengthensKeepsWords
  <2>7. IsJoin(UserWords(f), UserWords(x), UserWords(y))
    <3>1. UserWords(x) \in Seq(Pieces)
      <4>1. IsJoin(x \o x, x, x)
        BY DEF IsJoin
      <4> QED
        BY <2>5, <4>1, WordsJoin
    <3>2. UserWords(x) \o <<>> = UserWords(x)
      <4>1. IsJoin(UserWords(x) \o <<>>, UserWords(x), <<>>)
        BY DEF IsJoin
      <4> QED
        BY <3>1, <4>1, EmptyJoins
    <3> QED
      BY <2>6, <3>2, NoWordsInNothing DEF IsJoin
  <2> QED
    BY <2>1, <2>2, <2>4, <2>5, <2>7
<1> QED
  BY <1>1, <1>2

\* A block after no other marker keeps what it had inside.
LEMMA BlockedInside ==
  ASSUME NEW x \in Seq(Pieces), NEW y \in Seq(Pieces), NEW g, IsBlocked(g, x, y), Free(x, "S"), Closed(y)
  PROVE  Inside(g) /\ g \in Seq(Pieces)
<1> PICK m, n : m = Len(x) /\ n = Len(y)
  OBVIOUS
<1>1. /\ Sized(g, m + 5 + n) /\ IsTaken(x, g, 0, m) /\ IsTaken(y, g, m + 5, n) /\ BlockAfter(g, m)
  BY BlockBetween
<1>2. /\ m \in Nat /\ n \in Nat /\ g \in Seq(Pieces) /\ Len(g) = m + 5 + n
      /\ \A i \in 1..m : g[i] = x[i]
  BY <1>1 DEF IsTaken, Sized
<1>3. ASSUME NEW i \in 1..Len(g), NEW j \in 1..Len(g), NEW k \in 1..Len(g),
             i < j, j < k, g[i] = "S", g[k] = "E"
      PROVE  g[j] \in BlockTexts
  <2>1. i > m
    BY <1>2, <1>3 DEF Free
  <2>2. CASE j <= m + 5
    <3>1. j = m + 2 \/ j = m + 3 \/ j = m + 4 \/ j = m + 5
      BY <1>2, <1>3, <2>1, <2>2
    <3> QED
      BY <1>1, <3>1 DEF BlockAfter, BlockTexts
  <2>3. CASE j > m + 5
    <3> PICK p, q : p = j - (m + 5) /\ q = k - (m + 5)
      OBVIOUS
    <3>1. p \in 1..n /\ q \in 1..n /\ p < q /\ j = m + 5 + p /\ k = m + 5 + q
      BY <1>2, <1>3, <2>3
    <3>2. y[p] = g[j] /\ y[q] = g[k]
      BY <1>1, <3>1 DEF IsTaken
    <3> QED
      BY <1>3, <3>1, <3>2 DEF Closed
  <2> QED
    BY <1>2, <2>2, <2>3
<1> QED
  BY <1>2, <1>3 DEF Inside

\* What is shifted keeps what it had inside: at most the first c pieces are
\* new, without an open marker, and those after e, without a close one.
LEMMA ShiftedInside ==
  ASSUME NEW f \in Seq(Pieces), Inside(f), NEW g \in Seq(Pieces), NEW c \in Nat, NEW e \in Nat, NEW d \in Int,
         \A i \in 1..Len(g) : /\ i <= c => g[i] # "S"
                              /\ i > e => g[i] # "E"
                              /\ c < i /\ i <= e => i + d \in 1..Len(f) /\ g[i] = f[i + d]
  PROVE  Inside(g)
<1> SUFFICES ASSUME NEW i \in 1..Len(g), NEW j \in 1..Len(g), NEW k \in 1..Len(g),
                    i < j, j < k, g[i] = "S", g[k] = "E"
             PROVE  g[j] \in BlockTexts
  BY DEF Inside
<1>1. c < i /\ k <= e /\ c < j /\ c < k /\ i <= e /\ j <= e
  OBVIOUS
<1>2. /\ i + d \in 1..Len(f) /\ j + d \in 1..Len(f) /\ k + d \in 1..Len(f)
      /\ g[i] = f[i + d] /\ g[j] = f[j + d] /\ g[k] = f[k + d]
      /\ i + d < j + d /\ j + d < k + d
  BY <1>1
<1> QED
  BY <1>2 DEF Inside

\* Newlines after it change nothing of that.
LEMMA LengthensInside ==
  ASSUME NEW x, NEW f, Lengthens(x, f), Inside(f)
  PROVE  Inside(x)
<1>1. /\ x \in Seq(Pieces) /\ f \in Seq(Pieces) /\ Len(f) \in Nat /\ 0 \in Nat /\ 0 \in Int
      /\ \A i \in 1..Len(x) : /\ i <= 0 => x[i] # "S"
                              /\ i > Len(f) => x[i] # "E"
                              /\ 0 < i /\ i <= Len(f) => i + 0 \in 1..Len(f) /\ x[i] = f[i + 0]
  BY DEF Lengthens
<1> QED
  BY <1>1, ShiftedInside

\* A teardown leaves what was before and after the block, trimmed.
LEMMA WithoutIs ==
  ASSUME NEW f \in Seq(Pieces), WellMarked(f), Inside(f), NEW g, g = Without(f)
  PROVE  g \in Seq(Pieces) /\ UserWords(g) = UserWords(f) /\ Inside(g)
<1> PICK x, y : x = Before(f) /\ y = After(f)
  OBVIOUS
<1>1. /\ Free(x, "S") /\ x \in Seq(Pieces) /\ y \in Seq(Pieces)
      /\ IsJoin(UserWords(f), UserWords(x), UserWords(y))
  BY AroundBlock
<1> PICK a, b \in 0..Len(f) : IsTaken(x, f, 0, a) /\ IsTaken(y, f, b, Len(f) - b)
  BY AroundBlock
<1> PICK before, after : before = TrimRight(x) /\ after = TrimLeft(y)
  OBVIOUS
<1> PICK m \in 0..Len(x) : RightTrims(before, x, m)
  BY <1>1, TrimRightIs
<1> PICK n \in 0..Len(y) : LeftTrims(after, y, n)
  BY <1>1, TrimLeftIs
<1>2. /\ before \in Seq(Pieces) /\ UserWords(before) = UserWords(x)
      /\ after \in Seq(Pieces) /\ UserWords(after) = UserWords(y)
  BY <1>1, TrimsKeepWords
<1> PICK apart : apart = (Len(x) >= Len(before) + 2)
  OBVIOUS
<1> PICK sep : sep = (IF before = <<>> \/ after = <<>> THEN <<>> ELSE IF apart THEN <<"n", "n">> ELSE <<"n">>)
  OBVIOUS
<1>3. sep \in Seq(Pieces) /\ \A i \in 1..Len(sep) : sep[i] = "n"
  <2>1. CASE sep = <<>>
    BY <2>1
  <2>2. CASE sep = <<"n">>
    BY <2>2, NewlineIsPiece
  <2>3. CASE sep = <<"n", "n">>
    BY <2>3, NewlineIsPiece
  <2> QED
    BY <2>1, <2>2, <2>3
<1> PICK v, w : IsJoin(v, before, sep) /\ IsJoin(w, v, after)
  BY DEF IsJoin
<1>4. Sized(v, Len(before) + Len(sep)) /\ IsTaken(before, v, 0, Len(before)) /\ IsTaken(sep, v, Len(before), Len(sep))
  BY <1>2, <1>3, JoinIs
<1>5. v \in Seq(Pieces)
  BY <1>4 DEF Sized
<1>6. Sized(w, Len(v) + Len(after)) /\ IsTaken(v, w, 0, Len(v)) /\ IsTaken(after, w, Len(v), Len(after))
  BY <1>2, <1>5, JoinIs
<1>7. w \in Seq(Pieces)
  BY <1>6 DEF Sized
<1>8. Lengthens(g, w)
  <2>1. g = IF before = <<>> /\ after = <<>> THEN <<>>
            ELSE IF before = <<>> THEN Newlined(after)
            ELSE IF after = <<>> THEN Append(before, "n")
            ELSE Newlined(before \o (IF apart THEN <<"n", "n">> ELSE <<"n">>) \o after)
    BY DEF Without
  <2>2. CASE before = <<>>
    <3>1. sep = <<>> /\ v = <<>> /\ w = after
      <4>1. sep = <<>>
        BY <2>2
      <4>2. v = <<>>
        BY <2>2, <4>1, EmptyJoins, NoWordsInNothing
      <4> QED
        BY <1>2, <4>1, <4>2, EmptyJoins
    <3>2. (g = <<>> /\ w = <<>>) \/ g = Newlined(w)
      BY <2>1, <2>2, <3>1
    <3> QED
      BY <1>7, <3>2, NewlinedLengthens
  <2>3. CASE before # <<>> /\ after = <<>>
    <3>1. sep = <<>> /\ v = before /\ w = before
      <4>1. sep = <<>>
        BY <2>3
      <4>2. v = before
        BY <1>2, <4>1, EmptyJoins
      <4> QED
        BY <1>2, <2>3, <4>1, <4>2, EmptyJoins
    <3>2. g = Append(w, "n")
      BY <2>1, <2>3, <3>1
    <3> QED
      BY <1>7, <3>2, NewlinedLengthens
  <2>4. CASE before # <<>> /\ after # <<>>
    <3>1. w = before \o sep \o after
      BY DEF IsJoin
    <3>2. sep = IF apart THEN <<"n", "n">> ELSE <<"n">>
      BY <2>4
    <3>3. g = Newlined(w)
      BY <2>1, <2>4, <3>1, <3>2
    <3> QED
      BY <1>7, <3>3, NewlinedLengthens
  <2> QED
    BY <2>2, <2>3, <2>4
<1>9. UserWords(w) = UserWords(f)
  <2>1. Lengthens(v, before)
    <3>1. /\ Len(before) \in Nat /\ Len(sep) \in Nat /\ Len(v) = Len(before) + Len(sep)
          /\ \A i \in 1..Len(before) : before[i] = v[i]
          /\ \A i \in 1..Len(sep) : sep[i] = v[Len(before) + i]
      BY <1>4 DEF Sized, IsTaken
    <3>2. \A i \in Len(before) + 1..Len(v) : i - Len(before) \in 1..Len(sep) /\ Len(before) + (i - Len(before)) = i
      BY <3>1
    <3>3. \A i \in Len(before) + 1..Len(v) : v[i] = "n"
      BY <1>3, <3>1, <3>2
    <3> QED
      BY <1>2, <1>5, <3>1, <3>3 DEF Lengthens
  <2>2. UserWords(v) = UserWords(x)
    BY <1>2, <2>1, LengthensKeepsWords
  <2>3. IsJoin(UserWords(w), UserWords(v), UserWords(after))
    BY <1>2, <1>5, WordsJoin
  <2> QED
    BY <1>1, <1>2, <2>2, <2>3 DEF IsJoin
<1>10. Inside(w)
  <2> PICK c, e, d : c = Len(v) /\ e = Len(w) /\ d = b + n - c
    OBVIOUS
  <2>1. /\ c \in Nat /\ e \in Nat /\ d \in Int /\ e = c + Len(after) /\ Len(after) = Len(y) - n
        /\ Len(y) = Len(f) - b /\ n \in Nat /\ b \in Nat /\ c + d = b + n /\ Len(f) \in Nat
    <3>1. /\ Len(v) \in Nat /\ Len(w) = Len(v) + Len(after) /\ Len(after) \in Nat
      BY <1>6 DEF Sized, IsTaken
    <3>2. Len(after) = Len(y) - n /\ Len(y) = Len(f) - b
      BY DEF LeftTrims, IsTaken
    <3>3. n \in Nat /\ b \in Nat /\ Len(f) \in Nat
      BY <1>1
    <3>4. c \in Nat /\ d = (b + n) - c
      BY <3>1
    <3>5. d \in Int /\ c + d = b + n
      BY ONLY <3>3, <3>4
    <3> QED
      BY <3>1, <3>2, <3>3, <3>4, <3>5
  <2>2. ASSUME NEW i \in 1..Len(w), i <= c PROVE w[i] # "S"
    <3>1. /\ Len(v) = Len(before) + Len(sep) /\ Len(before) \in Nat /\ Len(sep) \in Nat
          /\ \A j \in 1..Len(v) : v[j] = w[j]
          /\ \A j \in 1..Len(before) : before[j] = v[j]
          /\ \A j \in 1..Len(sep) : sep[j] = v[Len(before) + j]
      <4>1. Len(v) = Len(before) + Len(sep) /\ Len(before) \in Nat /\ Len(sep) \in Nat
        BY <1>4 DEF Sized, IsTaken
      <4>2. \A j \in 1..Len(v) : v[j] = w[j]
        BY <1>6 DEF IsTaken
      <4>3. \A j \in 1..Len(before) : before[j] = v[j]
        BY <1>4 DEF IsTaken
      <4>4. \A j \in 1..Len(sep) : sep[j] = v[Len(before) + j]
        BY <1>4 DEF IsTaken
      <4> QED
        BY ONLY <4>1, <4>2, <4>3, <4>4
    <3>2. i \in 1..Len(v) /\ w[i] = v[i]
      BY <2>2, <3>1
    <3>3. CASE i <= Len(before)
      <4>1. Len(before) = m /\ Len(x) \in Nat /\ m <= Len(x) /\ \A j \in 1..m : before[j] = x[j]
        BY <1>1 DEF RightTrims, IsTaken
      <4>2. v[i] = x[i] /\ i \in 1..Len(x)
        BY <3>1, <3>3, <4>1
      <4> QED
        BY <1>1, <3>2, <4>2 DEF Free
    <3>4. CASE i > Len(before)
      <4>1. i - Len(before) \in 1..Len(sep) /\ Len(before) + (i - Len(before)) = i
        BY <3>1, <3>2, <3>4
      <4>2. v[i] = "n"
        BY ONLY <1>3, <3>1, <4>1
      <4> QED
        BY <3>2, <4>2
    <3> QED
      BY <3>1, <3>3, <3>4
  <2>3. ASSUME NEW i \in 1..Len(w), c < i, i <= e PROVE i + d \in 1..Len(f) /\ w[i] = f[i + d]
    <3> PICK p : p = i - c
      OBVIOUS
    <3>1. p \in 1..Len(after) /\ c + p = i /\ n + p \in 1..Len(y) /\ b + (n + p) \in 1..Len(f) /\ b + (n + p) = i + d
      BY ONLY <2>1, <2>3, p = i - c, i \in 1..Len(w)
    <3>2. w[i] = after[p]
      BY <1>6, <3>1 DEF IsTaken
    <3>3. after[p] = y[n + p]
      BY <2>1, <3>1 DEF LeftTrims, IsTaken
    <3>4. y[n + p] = f[b + (n + p)]
      BY <2>1, <3>1 DEF IsTaken
    <3> QED
      BY ONLY <3>1, <3>2, <3>3, <3>4
  <2>4. \A i \in 1..Len(w) : /\ i <= c => w[i] # "S"
                             /\ i > e => w[i] # "E"
                             /\ c < i /\ i <= e => i + d \in 1..Len(f) /\ w[i] = f[i + d]
    <3>1. \A i \in 1..Len(w) : ~(i > e)
      BY ONLY <1>7, e = Len(w)
    <3> QED
      BY ONLY <2>2, <2>3, <3>1
  <2> QED
    BY ONLY <1>7, <2>1, <2>4, ShiftedInside, Inside(f), f \in Seq(Pieces)
<1>11. Inside(g) /\ UserWords(g) = UserWords(w) /\ g \in Seq(Pieces)
  BY <1>8, <1>10, LengthensInside, LengthensKeepsWords DEF Lengthens
<1> QED
  BY <1>9, <1>11

\* What is left of a file between the newlines around it.
LEMMA TrimBothIs ==
  ASSUME NEW f \in Seq(Pieces), NEW p \in Nat, NEW q \in Nat, p < q, q <= Len(f),
         \A i \in 1..Len(f) : i <= p \/ i > q => f[i] = "n",
         f[p + 1] # "n", f[q] # "n"
  PROVE  IsTaken(TrimRight(TrimLeft(f)), f, p, q - p)
<1> PICK y : y = TrimLeft(f)
  OBVIOUS
<1> PICK m \in 0..Len(f) : LeftTrims(y, f, m)
  BY TrimLeftIs
<1>1. /\ Len(f) \in Nat /\ m \in Nat /\ m <= Len(f) /\ IsTaken(y, f, m, Len(f) - m)
      /\ \A i \in 1..m : f[i] = "n"
      /\ m < Len(f) => f[m + 1] # "n"
  BY DEF LeftTrims
<1>2. m = p
  <2>1. p + 1 \in 1..Len(f) /\ ~(p + 1 \in 1..m)
    BY <1>1
  <2>2. m <= p
    BY <1>1, <2>1
  <2>3. ~(m < p)
    <3>1. m < p => m + 1 \in 1..Len(f) /\ m + 1 <= p
      BY <1>1
    <3> QED
      BY <1>1, <3>1
  <2> QED
    BY <1>1, <2>2, <2>3
<1>3. y \in Seq(Pieces) /\ Len(y) = Len(f) - p /\ \A i \in 1..Len(y) : y[i] = f[p + i]
  BY <1>1, <1>2 DEF IsTaken
<1> PICK z : z = TrimRight(y)
  OBVIOUS
<1> PICK n \in 0..Len(y) : RightTrims(z, y, n)
  BY <1>3, TrimRightIs
<1>4. /\ n \in Nat /\ n <= Len(y) /\ IsTaken(z, y, 0, n) /\ Len(y) \in Nat
      /\ \A i \in n + 1..Len(y) : y[i] = "n"
      /\ n > 0 => y[n] # "n"
  BY <1>3 DEF RightTrims
<1> PICK d : d = q - p
  OBVIOUS
<1>5. d \in 1..Len(y) /\ p + d = q /\ y[d] # "n"
  <2>1. d \in 1..Len(y) /\ p + d = q
    BY <1>1, <1>3
  <2> QED
    BY <1>3, <2>1
<1>6. n = d
  <2>1. ~(d \in n + 1..Len(y))
    BY <1>4, <1>5
  <2>2. n >= d
    BY <1>4, <1>5, <2>1
  <2>3. ~(n > d)
    <3>1. n > d => n \in 1..Len(y) /\ p + n \in 1..Len(f) /\ p + n > q
      BY <1>1, <1>3, <1>4, <1>5
    <3>2. n > d => y[n] = "n"
      BY <1>3, <3>1
    <3> QED
      BY <1>4, <1>5, <3>2
  <2> QED
    BY <1>4, <1>5, <2>2, <2>3
<1>7. IsTaken(z, f, p, d)
  <2>1. z \in Seq(Pieces) /\ d \in Nat /\ Len(z) = d /\ \A i \in 1..d : z[i] = y[i] /\ i \in 1..Len(y)
    BY <1>4, <1>5, <1>6 DEF IsTaken
  <2> QED
    BY <1>3, <2>1 DEF IsTaken
<1> QED
  BY <1>7

LEMMA TrimBothOfNewlines ==
  ASSUME NEW f \in Seq(Pieces), \A i \in 1..Len(f) : f[i] = "n"
  PROVE  TrimRight(TrimLeft(f)) = <<>>
<1> PICK y : y = TrimLeft(f)
  OBVIOUS
<1> PICK m \in 0..Len(f) : LeftTrims(y, f, m)
  BY TrimLeftIs
<1>1. y \in Seq(Pieces) /\ Len(y) = 0
  <2>1. m = Len(f)
    BY DEF LeftTrims
  <2> QED
    BY <2>1 DEF LeftTrims, IsTaken
<1> PICK z : z = TrimRight(y)
  OBVIOUS
<1> PICK n \in 0..Len(y) : RightTrims(z, y, n)
  BY <1>1, TrimRightIs
<1>2. IsTaken(z, y, 0, 0)
  BY <1>1 DEF RightTrims
<1> QED
  BY <1>2 DEF IsTaken

\* A setup of an unmarked file, undone, but for newlines.
LEMMA TeardownUndoesSetup ==
  ASSUME NEW f \in Seq(Pieces), Unmarked(f), Inside(f)
  PROVE  TrimRight(TrimLeft(Without(Inject(f)))) = TrimRight(TrimLeft(f))
<1> PICK g : g = Inject(f)
  OBVIOUS
<1> PICK x, y \in Seq(Pieces) :
      IsBlocked(g, x, y) /\ Free(x, "S") /\ Free(x, "E") /\ y = <<>> /\ Lengthens(x, f)
  BY InjectIs
<1>1. Before(g) = x /\ After(g) = <<>>
  BY BlockFound
<1> PICK z : z = TrimRight(x)
  OBVIOUS
<1> PICK m \in 0..Len(x) : RightTrims(z, x, m)
  BY TrimRightIs
<1>2. TrimLeft(<<>>) = <<>>
  BY DEF TrimLeft
<1>3. Without(g) = IF z = <<>> THEN <<>> ELSE Append(z, "n")
  BY <1>1, <1>2 DEF Without
<1>4. /\ Len(f) \in Nat /\ Len(x) \in Nat /\ m \in Nat /\ m <= Len(x) /\ Len(f) <= Len(x)
      /\ z \in Seq(Pieces) /\ Len(z) = m
      /\ \A i \in 1..m : z[i] = x[i]
      /\ \A i \in m + 1..Len(x) : x[i] = "n"
      /\ m > 0 => x[m] # "n"
      /\ \A i \in 1..Len(f) : x[i] = f[i]
      /\ \A i \in Len(f) + 1..Len(x) : x[i] = "n"
  BY DEF RightTrims, IsTaken, Lengthens
<1>5. CASE m = 0
  <2>1. z = <<>>
    BY <1>4, <1>5
  <2>2. \A i \in 1..Len(f) : f[i] = "n"
    BY <1>4, <1>5
  <2>3. TrimRight(TrimLeft(f)) = <<>>
    BY <2>2, TrimBothOfNewlines
  <2>4. <<>> \in Seq(Pieces) /\ \A i \in 1..Len(<<>>) : <<>>[i] = "n"
    BY NoWordsInNothing
  <2>5. TrimRight(TrimLeft(<<>>)) = <<>>
    BY <2>4, TrimBothOfNewlines
  <2> QED
    BY <1>3, <2>1, <2>3, <2>5
<1>6. CASE m > 0
  <2> PICK w : w = Append(z, "n")
    OBVIOUS
  <2>1. w \in Seq(Pieces) /\ Len(w) = m + 1 /\ (\A i \in 1..m : w[i] = z[i]) /\ w[m + 1] = "n"
    BY <1>4, NewlineIsPiece
  <2>2. Without(g) = w
    <3>1. z # <<>>
      BY <1>4, <1>6
    <3> QED
      BY <1>3, <3>1
  <2>3. m <= Len(f)
    BY <1>4, <1>6
  <2>4. \A i \in 1..m : w[i] = f[i] /\ i \in 1..Len(f)
    BY <1>4, <2>1, <2>3
  <2>5. f[m] # "n" /\ \A i \in 1..Len(f) : i > m => f[i] = "n"
    BY <1>4, <1>6, <2>3
  <2> PICK p \in 0..Len(f) : LeftTrims(TrimLeft(f), f, p)
    BY TrimLeftIs
  <2>6. p \in Nat /\ (\A i \in 1..p : f[i] = "n") /\ (p < Len(f) => f[p + 1] # "n")
    BY <1>4 DEF LeftTrims
  <2>7. p < m /\ f[p + 1] # "n"
    <3>1. ~(m \in 1..p)
      BY <2>5, <2>6
    <3> QED
      BY <1>4, <1>6, <2>3, <2>6, <3>1
  <2>8. IsTaken(TrimRight(TrimLeft(f)), f, p, m - p)
    <3>1. \A i \in 1..Len(f) : i <= p \/ i > m => f[i] = "n"
      BY <2>5, <2>6
    <3> QED
      BY <1>4, <2>3, <2>5, <2>6, <2>7, <3>1, TrimBothIs
  <2>9. IsTaken(TrimRight(TrimLeft(w)), w, p, m - p)
    <3>1. \A i \in 1..Len(w) : i <= p \/ i > m => w[i] = "n"
      <4>1. \A i \in 1..Len(w) : i \in 1..m \/ i = m + 1
        BY <1>4, <2>1
      <4> QED
        BY <1>4, <2>1, <2>4, <2>6, <2>7, <4>1
    <3>2. w[p + 1] # "n" /\ w[m] # "n" /\ m <= Len(w)
      <4>1. p + 1 \in 1..m /\ m \in 1..m
        BY <1>4, <1>6, <2>6, <2>7
      <4> QED
        BY <1>4, <2>1, <2>4, <2>5, <2>7, <4>1
    <3> QED
      BY <1>4, <2>1, <2>6, <2>7, <3>1, <3>2, TrimBothIs
  <2>10. IsTaken(TrimRight(TrimLeft(w)), f, p, m - p)
    <3>1. \A i \in 1..m - p : p + i \in 1..m
      BY <1>4, <2>6, <2>7
    <3>2. \A i \in 1..m - p : w[p + i] = f[p + i]
      BY <2>4, <3>1
    <3> QED
      BY <2>9, <3>2 DEF IsTaken
  <2> QED
    BY <2>2, <2>8, <2>10, SamePieces
<1> QED
  BY <1>4, <1>5, <1>6

LEMMA AddedInFront ==
  ASSUME NEW f \in Seq(Pieces), Inside(f), NEW l \in Seq(Pieces), NEW g, IsJoin(g, l, f),
         Free(l, "S") \/ (Free(f, "E") /\ Free(l, "E"))
  PROVE  g \in Seq(Pieces) /\ Inside(g) /\ IsJoin(UserWords(g), UserWords(l), UserWords(f))
<1> PICK m, n, k : m = Len(l) /\ n = Len(f) /\ k = 0 - m
  OBVIOUS
<1>1. Sized(g, m + n) /\ IsTaken(l, g, 0, m) /\ IsTaken(f, g, m, n)
  BY JoinIs
<1>2. /\ m \in Nat /\ n \in Nat /\ g \in Seq(Pieces) /\ Len(g) = m + n
      /\ (\A i \in 1..m : l[i] = g[i]) /\ (\A i \in 1..n : f[i] = g[m + i])
  BY <1>1 DEF Sized, IsTaken
<1>3. \A i \in 1..Len(g) : i > m => i + k \in 1..n /\ g[i] = f[i + k]
  <2>1. ASSUME NEW i \in 1..Len(g), i > m PROVE i + k \in 1..n /\ m + (i + k) = i
    <3>1. i \in Nat /\ i > m /\ i <= m + n
      BY <1>2, <2>1
    <3> QED
      BY ONLY <3>1, <1>2, k = 0 - m
  <2> QED
    BY ONLY <1>2, <2>1
<1>4. CASE Free(l, "S")
  <2>1. k \in Int /\ Len(g) \in Nat
    BY <1>2
  <2>2. \A i \in 1..Len(g) : /\ i <= m => g[i] # "S"
                             /\ i > Len(g) => g[i] # "E"
                             /\ m < i /\ i <= Len(g) => i + k \in 1..Len(f) /\ g[i] = f[i + k]
    BY <1>2, <1>3, <1>4 DEF Free
  <2>3. Inside(g)
    BY ONLY <1>2, <2>1, <2>2, ShiftedInside, Inside(f), f \in Seq(Pieces)
  <2> QED
    BY <1>2, <2>3, WordsJoin
<1>5. CASE Free(f, "E") /\ Free(l, "E")
  <2>1. \A i \in 1..Len(g) : g[i] # "E"
    <3>1. \A i \in 1..Len(g) : i \in 1..m \/ i > m
      BY <1>2
    <3>2. (\A i \in 1..m : g[i] # "E") /\ \A i \in 1..n : f[i] # "E"
      BY <1>2, <1>5 DEF Free
    <3> QED
      BY ONLY <1>3, <3>1, <3>2
  <2>2. Inside(g)
    BY <2>1 DEF Inside
  <2> QED
    BY <1>2, <2>2, WordsJoin
<1> QED
  BY <1>4, <1>5

LEMMA AddedBehind ==
  ASSUME NEW f \in Seq(Pieces), Inside(f), NEW l \in Seq(Pieces), NEW g, IsJoin(g, f, l),
         Free(l, "E") \/ (Free(f, "S") /\ Free(l, "S"))
  PROVE  g \in Seq(Pieces) /\ Inside(g) /\ IsJoin(UserWords(g), UserWords(f), UserWords(l))
<1> PICK m, n, k : m = Len(f) /\ n = Len(l) /\ k = 0
  OBVIOUS
<1>1. Sized(g, m + n) /\ IsTaken(f, g, 0, m) /\ IsTaken(l, g, m, n)
  BY JoinIs
<1>2. /\ m \in Nat /\ n \in Nat /\ g \in Seq(Pieces) /\ Len(g) = m + n /\ k \in Nat /\ k \in Int
      /\ (\A i \in 1..m : f[i] = g[i]) /\ (\A i \in 1..n : l[i] = g[m + i])
  BY <1>1 DEF Sized, IsTaken
<1>3. \A i \in 1..Len(g) : i > m => i - m \in 1..n /\ g[i] = l[i - m]
  <2>1. \A i \in 1..Len(g) : i > m => i - m \in 1..n /\ m + (i - m) = i
    BY ONLY <1>2
  <2> QED
    BY ONLY <1>2, <2>1
<1>4. CASE Free(l, "E")
  <2>1. \A i \in 1..Len(g) : /\ i <= k => g[i] # "S"
                             /\ i > m => g[i] # "E"
                             /\ k < i /\ i <= m => i + k \in 1..Len(f) /\ g[i] = f[i + k]
    BY <1>2, <1>3, <1>4 DEF Free
  <2>2. Inside(g)
    BY ONLY <1>2, <2>1, m \in Nat, ShiftedInside, Inside(f), f \in Seq(Pieces)
  <2> QED
    BY <1>2, <2>2, WordsJoin
<1>5. CASE Free(f, "S") /\ Free(l, "S")
  <2>1. \A i \in 1..Len(g) : g[i] # "S"
    <3>1. \A i \in 1..Len(g) : i \in 1..m \/ i > m
      BY <1>2
    <3>2. (\A i \in 1..m : g[i] # "S") /\ \A i \in 1..n : l[i] # "S"
      BY <1>2, <1>5 DEF Free
    <3> QED
      BY ONLY <1>3, <3>1, <3>2
  <2>2. Inside(g)
    BY <2>1 DEF Inside
  <2> QED
    BY <1>2, <2>2, WordsJoin
<1> QED
  BY <1>4, <1>5

\* A piece of kimbap's text deleted.
LEMMA DeletedPiece ==
  ASSUME NEW f \in Seq(Pieces), Inside(f), NEW i \in 1..Len(f), f[i] \in BlockTexts, NEW g, g = RemoveAt(f, i)
  PROVE  g \in Seq(Pieces) /\ Inside(g) /\ UserWords(g) = UserWords(f)
<1> PICK a, n : a = i - 1 /\ n = Len(f)
  OBVIOUS
<1>1. a \in Nat /\ i \in Nat /\ n \in Nat /\ a + 1 = i /\ i <= n /\ a <= i
  OBVIOUS
<1> PICK x, y : IsCut(x, f, 1, a) /\ IsCut(y, f, i + 1, Len(f))
  BY DEF IsCut
<1>2. IsJoin(g, x, y)
  BY DEF IsJoin, IsCut, RemoveAt
<1>3. IsJoin(UserWords(f), UserWords(x), UserWords(y)) /\ IsTaken(x, f, 0, a) /\ IsTaken(y, f, i, Len(f) - i)
  <2>1. \A j \in a + 1..i : f[j] \notin ToSet(Words)
    BY <1>1, TextsAreNoWords
  <2>2. i <= Len(f)
    OBVIOUS
  <2> QED
    BY <1>1, <2>1, <2>2, WordsAround
<1>4. x \in Seq(Pieces) /\ y \in Seq(Pieces) /\ Len(x) = a /\ Len(y) = n - i
  BY <1>3 DEF IsTaken
<1>5. Sized(g, Len(x) + Len(y)) /\ IsTaken(x, g, 0, Len(x)) /\ IsTaken(y, g, Len(x), Len(y))
  BY <1>2, <1>4, JoinIs
<1>6. g \in Seq(Pieces) /\ Len(g) = n - 1
  BY <1>1, <1>4, <1>5 DEF Sized
<1>7. UserWords(g) = UserWords(f)
  <2>1. IsJoin(UserWords(g), UserWords(x), UserWords(y))
    BY <1>2, <1>4, WordsJoin
  <2> QED
    BY <1>3, <2>1 DEF IsJoin
<1>8. /\ \A j \in 1..Len(g) : j < i => g[j] = f[j] /\ j \in 1..n
      /\ \A j \in 1..Len(g) : j >= i => g[j] = f[j + 1] /\ j + 1 \in 1..n
  <2>1. /\ \A j \in 1..a : x[j] = g[j] /\ x[j] = f[j]
        /\ \A j \in 1..n - i : y[j] = g[a + j] /\ y[j] = f[i + j]
    BY <1>3, <1>4, <1>5 DEF IsTaken
  <2>2. ASSUME NEW j \in 1..Len(g), j >= i PROVE g[j] = f[j + 1] /\ j + 1 \in 1..n
    <3> PICK k : k = j - a
      OBVIOUS
    <3>1. k \in 1..n - i /\ a + k = j /\ i + k = j + 1 /\ j + 1 \in 1..n
      BY ONLY <1>1, <1>6, <2>2, k = j - a, j \in 1..Len(g)
    <3>2. y[k] = g[a + k] /\ y[k] = f[i + k]
      BY ONLY <2>1, <3>1
    <3> QED
      BY ONLY <3>1, <3>2
  <2> QED
    BY <1>1, <1>6, <2>1, <2>2
<1>9. Inside(g)
  <2> SUFFICES ASSUME NEW p \in 1..Len(g), NEW q \in 1..Len(g), NEW r \in 1..Len(g),
                      p < q, q < r, g[p] = "S", g[r] = "E"
               PROVE  g[q] \in BlockTexts
    BY DEF Inside
  <2> PICK u, v, w : /\ u = IF p < i THEN p ELSE p + 1
                     /\ v = IF q < i THEN q ELSE q + 1
                     /\ w = IF r < i THEN r ELSE r + 1
    OBVIOUS
  <2>1. p \in Nat /\ q \in Nat /\ r \in Nat
    BY <1>6
  <2>2. u \in 1..n /\ g[p] = f[u]
    BY <1>1, <1>8, <2>1
  <2>3. v \in 1..n /\ g[q] = f[v]
    BY <1>1, <1>8, <2>1
  <2>4. w \in 1..n /\ g[r] = f[w]
    BY <1>1, <1>8, <2>1
  <2>5. u < v /\ v < w
    BY <1>1, <2>1
  <2> QED
    BY <2>2, <2>3, <2>4, <2>5 DEF Inside
<1> QED
  BY <1>6, <1>7, <1>9

\* A piece the user writes: a word of theirs, or one of kimbap's.
LEMMA OnePiece ==
  ASSUME NEW e \in Pieces
  PROVE  /\ <<e>> \in Seq(Pieces) /\ Len(<<e>>) = 1 /\ <<e>>[1] = e
         /\ e \in BlockTexts => UserWords(<<e>>) = <<>>
         /\ e \in ToSet(Words) => UserWords(<<e>>) = <<e>>
<1> PICK T, v : T = Pieces /\ v = ToSet(Words)
  OBVIOUS
<1>1. Selected(<<e>>, v) = IF e \in v THEN <<e>> ELSE <<>>
  <2>1. e \in T
    OBVIOUS
  <2> QED
    BY <2>1, SelectedOne
<1> QED
  BY <1>1, TextsAreNoWords DEF UserWords

FileInv ==
  /\ file \in Seq(Pieces)
  /\ Inside(file)
  /\ UserWords(file) = words

LEMMA SetupKeepsFile == ASSUME FileInv, NEW wanted, Setup(wanted) PROVE FileInv'
<1>1. words' = words
  BY DEF Setup, UserSame
<1>2. CASE file' = file
  BY <1>1, <1>2 DEF FileInv
<1>3. CASE (WellMarked(file) \/ Unmarked(file)) /\ file' = Inject(file)
  <2> PICK g : g = Inject(file)
    OBVIOUS
  <2>1. file \in Seq(Pieces) /\ Inside(file) /\ UserWords(file) = words
    BY DEF FileInv
  <2> PICK x, y \in Seq(Pieces) :
        /\ IsBlocked(g, x, y) /\ Free(x, "S") /\ Closed(y)
        /\ IsJoin(UserWords(file), UserWords(x), UserWords(y))
    BY <1>3, <2>1, InjectIs
  <2>2. Inside(g) /\ g \in Seq(Pieces)
    BY BlockedInside
  <2>3. IsJoin(UserWords(g), UserWords(x), UserWords(y))
    BY BlockBetween
  <2>4. UserWords(g) = UserWords(file)
    BY <2>3 DEF IsJoin
  <2>5. file' = g
    BY <1>3
  <2> QED
    BY <1>1, <2>1, <2>2, <2>4, <2>5 DEF FileInv
<1>4. file' = file \/ ((WellMarked(file) \/ Unmarked(file)) /\ file' = Inject(file))
  BY DEF Setup
<1> QED
  BY <1>2, <1>3, <1>4

LEMMA TeardownKeepsFile == ASSUME FileInv, NEW wanted, Teardown(wanted) PROVE FileInv'
<1>1. words' = words
  BY DEF Teardown, UserSame
<1>2. CASE file' = file
  BY <1>1, <1>2 DEF FileInv
<1>3. CASE WellMarked(file) /\ file' = Without(file)
  <2> PICK g : g = Without(file)
    OBVIOUS
  <2>1. file \in Seq(Pieces) /\ Inside(file) /\ UserWords(file) = words
    BY DEF FileInv
  <2>2. g \in Seq(Pieces) /\ UserWords(g) = UserWords(file) /\ Inside(g)
    BY <1>3, <2>1, WithoutIs
  <2>3. file' = g
    BY <1>3
  <2> QED
    BY <1>1, <2>1, <2>2, <2>3 DEF FileInv
<1>4. file' = file \/ (WellMarked(file) /\ file' = Without(file))
  BY DEF Teardown
<1> QED
  BY <1>2, <1>3, <1>4

LEMMA AddWordKeepsFile ==
  ASSUME FileInv, NEW front \in BOOLEAN, NEW newline \in BOOLEAN, AddWord(front, newline)
  PROVE  FileInv'
<1> PICK word : word = Words[Len(words) + 1]
  OBVIOUS
<1> PICK one, line : one = <<word>> /\ line = (IF newline THEN <<word, "n">> ELSE <<word>>)
  OBVIOUS
<1>1. /\ Len(words) < Len(Words)
      /\ file' = IF front THEN line \o file ELSE file \o line
      /\ words' = IF front THEN one \o words ELSE Append(words, word)
  BY DEF AddWord
<1>2. file \in Seq(Pieces) /\ Inside(file) /\ UserWords(file) = words
  BY DEF FileInv
<1>3. words \in Seq(Pieces)
  <2>1. IsJoin(file \o file, file, file)
    BY DEF IsJoin
  <2> QED
    BY <1>2, <2>1, WordsJoin
<1>4. word \in ToSet(Words) /\ word \in Pieces /\ word \notin BlockTexts
  <2>1. Words \in Seq(ToSet(Words))
    BY WordsAssumption DEF IsSequence, ToSet
  <2>2. Len(words) + 1 \in 1..Len(Words)
    BY <1>1, <1>3, <2>1
  <2>3. word \in ToSet(Words)
    BY <2>1, <2>2
  <2> QED
    BY <2>3, TextsAreNoWords DEF Pieces
<1>5. one \in Seq(Pieces) /\ Len(one) = 1 /\ one[1] = word /\ UserWords(one) = one
  BY <1>4, OnePiece
<1>6. Lengthens(line, one)
  <2>1. CASE newline
    <3>1. line = Append(one, "n")
      BY <2>1
    <3> QED
      BY <1>5, <3>1, NewlinedLengthens
  <2>2. CASE ~newline
    BY <1>5, <2>2, NewlinedLengthens
  <2> QED
    BY <2>1, <2>2
<1>7. line \in Seq(Pieces) /\ UserWords(line) = one
  BY <1>5, <1>6, LengthensKeepsWords DEF Lengthens
<1>8. Free(line, "S") /\ Free(line, "E")
  <2>1. \A i \in 1..Len(line) : line[i] = word \/ line[i] = "n"
    BY <1>5, <1>6 DEF Lengthens
  <2>2. word # "S" /\ word # "E" /\ "n" # "S" /\ "n" # "E"
    BY <1>4 DEF BlockTexts
  <2> QED
    BY <2>1, <2>2 DEF Free
<1>9. CASE front
  <2>1. IsJoin(file', line, file)
    BY <1>1, <1>9 DEF IsJoin
  <2>2. file' \in Seq(Pieces) /\ Inside(file') /\ IsJoin(UserWords(file'), one, words)
    BY <1>2, <1>7, <1>8, <2>1, AddedInFront
  <2>3. UserWords(file') = words'
    BY <1>1, <1>9, <2>2 DEF IsJoin
  <2> QED
    BY <2>2, <2>3 DEF FileInv
<1>10. CASE ~front
  <2>1. IsJoin(file', file, line)
    BY <1>1, <1>10 DEF IsJoin
  <2>2. file' \in Seq(Pieces) /\ Inside(file') /\ IsJoin(UserWords(file'), words, one)
    BY <1>2, <1>7, <1>8, <2>1, AddedBehind
  <2>3. Append(words, word) = words \o one
    BY <1>3, <1>4
  <2>4. UserWords(file') = words'
    BY <1>1, <1>10, <2>2, <2>3 DEF IsJoin
  <2> QED
    BY <2>2, <2>4 DEF FileInv
<1> QED
  BY <1>9, <1>10

LEMMA DeletePieceKeepsFile == ASSUME FileInv, NEW i \in DOMAIN file, DeletePiece(i) PROVE FileInv'
<1> PICK g : g = RemoveAt(file, i)
  OBVIOUS
<1>1. file \in Seq(Pieces) /\ Inside(file) /\ UserWords(file) = words
  BY DEF FileInv
<1>2. i \in 1..Len(file) /\ file[i] \in BlockTexts
  BY <1>1 DEF DeletePiece, BlockTexts
<1>3. g \in Seq(Pieces) /\ Inside(g) /\ UserWords(g) = UserWords(file)
  BY <1>1, <1>2, DeletedPiece
<1>4. file' = g /\ words' = words
  BY DEF DeletePiece
<1> QED
  BY <1>1, <1>3, <1>4 DEF FileInv

LEMMA AddMarkerKeepsFile ==
  ASSUME FileInv, NEW piece \in {"S", "E"}, NEW front \in BOOLEAN, AddMarker(piece, front)
  PROVE  FileInv'
<1> PICK one : one = <<piece>>
  OBVIOUS
<1>1. /\ Unmarked(file) \/ front = (piece = "E")
      /\ file' = IF front THEN one \o file ELSE Append(file, piece)
      /\ words' = words
  BY DEF AddMarker
<1>2. file \in Seq(Pieces) /\ Inside(file) /\ UserWords(file) = words
  BY DEF FileInv
<1>3. piece \in BlockTexts /\ piece \in Pieces
  BY DEF BlockTexts, Pieces
<1>4. one \in Seq(Pieces) /\ Len(one) = 1 /\ one[1] = piece /\ UserWords(one) = <<>>
  BY <1>3, OnePiece
<1>5. words \in Seq(Pieces)
  <2>1. IsJoin(file \o file, file, file)
    BY DEF IsJoin
  <2> QED
    BY <1>2, <2>1, WordsJoin
<1>6. Unmarked(file) => Free(file, "S") /\ Free(file, "E")
  BY <1>2, MarkersOf
<1>7. (piece = "S" => Free(one, "E")) /\ (piece = "E" => Free(one, "S"))
  BY <1>4 DEF Free
<1>8. CASE front
  <2>1. IsJoin(file', one, file)
    BY <1>1, <1>8 DEF IsJoin
  <2>2. Free(one, "S") \/ (Free(file, "E") /\ Free(one, "E"))
    BY <1>1, <1>6, <1>7, <1>8
  <2>3. file' \in Seq(Pieces) /\ Inside(file') /\ IsJoin(UserWords(file'), <<>>, words)
    BY <1>2, <1>4, <2>1, <2>2, AddedInFront
  <2>4. UserWords(file') = words'
    BY <1>1, <1>5, <2>3, EmptyJoins
  <2> QED
    BY <2>3, <2>4 DEF FileInv
<1>9. CASE ~front
  <2>1. IsJoin(file', file, one)
    <3>1. Append(file, piece) = file \o one
      BY <1>2, <1>3
    <3> QED
      BY <1>1, <1>9, <3>1 DEF IsJoin
  <2>2. Free(one, "E") \/ (Free(file, "S") /\ Free(one, "S"))
    BY <1>1, <1>6, <1>7, <1>9
  <2>3. file' \in Seq(Pieces) /\ Inside(file') /\ IsJoin(UserWords(file'), words, <<>>)
    BY <1>2, <1>4, <2>1, <2>2, AddedBehind
  <2>4. UserWords(file') = words'
    BY <1>1, <1>5, <2>3, EmptyJoins
  <2> QED
    BY <2>3, <2>4 DEF FileInv
<1> QED
  BY <1>8, <1>9

LEMMA FileInvGives == FileInv => BlockComesAndGoes
<1> SUFFICES ASSUME FileInv PROVE BlockComesAndGoes
  OBVIOUS
<1>1. file \in Seq(Pieces) /\ Inside(file) /\ UserWords(file) = words
  BY DEF FileInv
<1>2. ASSUME WellMarked(file) \/ Unmarked(file)
      PROVE  WellMarked(Inject(file)) /\ Inject(Inject(file)) = Inject(file)
  <2> PICK g : g = Inject(file)
    OBVIOUS
  <2> PICK x, y \in Seq(Pieces) : IsBlocked(g, x, y) /\ Free(x, "S") /\ Free(x, "E")
    BY <1>1, <1>2, InjectIs
  <2>1. WellMarked(g) /\ Inject(g) = g
    BY BlockFound
  <2> QED
    BY <2>1
<1>3. Unmarked(file) => TrimRight(TrimLeft(Without(Inject(file)))) = TrimRight(TrimLeft(file))
  BY <1>1, TeardownUndoesSetup
<1> QED
  BY <1>1, <1>2, <1>3 DEF BlockComesAndGoes

LEMMA FileInvInit == InstructionInit => FileInv
<1> SUFFICES ASSUME InstructionInit PROVE FileInv
  OBVIOUS
<1>1. file = <<>> /\ words = <<>>
  BY DEF InstructionInit
<1> QED
  BY <1>1, NoWordsInNothing DEF FileInv, Inside

LEMMA FileInvStep == ASSUME FileInv, [InstructionNext]_fileVars PROVE FileInv'
<1>1. ASSUME NEW wanted \in BOOLEAN, Setup(wanted) PROVE FileInv'
  BY <1>1, SetupKeepsFile
<1>2. ASSUME NEW wanted \in BOOLEAN, Teardown(wanted) PROVE FileInv'
  BY <1>2, TeardownKeepsFile
<1>3. ASSUME NEW front \in BOOLEAN, NEW newline \in BOOLEAN, AddWord(front, newline) PROVE FileInv'
  BY <1>3, AddWordKeepsFile
<1>4. ASSUME NEW i \in DOMAIN file, DeletePiece(i) PROVE FileInv'
  BY <1>4, DeletePieceKeepsFile
<1>5. ASSUME NEW piece \in {"S", "E"}, NEW front \in BOOLEAN, AddMarker(piece, front) PROVE FileInv'
  BY <1>5, AddMarkerKeepsFile
<1>6. CASE UNCHANGED fileVars
  BY <1>6 DEF fileVars, FileInv
<1> QED
  BY <1>1, <1>2, <1>3, <1>4, <1>5, <1>6 DEF InstructionNext

(***************************************************************************)
(* The user's words survive every setup and teardown of the instruction    *)
(* file, in their order, whatever markers an edit has damaged; a second    *)
(* setup changes nothing, and a teardown undoes a setup but for empty      *)
(* lines (injectMarkerBlock, removeMarkerBlock).                           *)
(***************************************************************************)
THEOREM WordsSurviveBlocks == InstructionSpec => []BlockComesAndGoes
  BY FileInvInit, FileInvStep, FileInvGives, PTL DEF InstructionSpec

-----------------------------------------------------------------------------
(***************************************************************************)
(* Sequences joined, and a set as a sequence.                              *)
(***************************************************************************)
\* f joins, for each number up to n, the sequences ss[1] to that one.
Flattens(f, n, ss) ==
  f = [i \in 1..n |-> IF i = 1 THEN ss[i] ELSE f[i - 1] \o ss[i]]

LEMMA FlattensExist ==
  ASSUME NEW ss PROVE \A n \in Nat : \E f : Flattens(f, n, ss)
<1> DEFINE N == {n \in Nat : \E f : Flattens(f, n, ss)}
<1>1. 0 \in N
  <2> DEFINE f == [i \in 1..0 |-> <<>>]
  <2>1. Flattens(f, 0, ss)
    BY DEF Flattens
  <2> QED
    BY <2>1
<1>2. ASSUME NEW n \in Nat, n \in N PROVE n + 1 \in N
  <2>1. PICK f : Flattens(f, n, ss)
    BY <1>2
  <2> DEFINE last == IF n = 0 THEN ss[1] ELSE f[n] \o ss[n + 1]
             g == [i \in 1..(n + 1) |-> IF i = n + 1 THEN last ELSE f[i]]
  <2>2. \A i \in 1..n : f[i] = IF i = 1 THEN ss[i] ELSE f[i - 1] \o ss[i]
    BY <2>1 DEF Flattens
  <2>3. \A i \in 1..(n + 1) : g[i] = IF i = 1 THEN ss[i] ELSE g[i - 1] \o ss[i]
    BY <2>2
  <2>4. Flattens(g, n + 1, ss)
    BY <2>3 DEF Flattens
  <2> HIDE DEF g
  <2>5. \E h : Flattens(h, n + 1, ss)
    BY <2>4
  <2> QED
    BY <2>5
<1> HIDE DEF N
<1>3. Nat \subseteq N
  BY <1>1, <1>2, NumbersByInduction
<1> QED
  BY <1>3 DEF N

LEMMA FlattenUnfolds ==
  ASSUME NEW T, NEW ss \in Seq(T), Len(ss) # 0
  PROVE  \E f : Flattens(f, Len(ss), ss) /\ FlattenSeq(ss) = f[Len(ss)]
<1>1. \E f : Flattens(f, Len(ss), ss)
  <2>1. Len(ss) \in Nat
    OBVIOUS
  <2> QED
    BY <2>1, FlattensExist
<1>2. FlattenSeq(ss) = (CHOOSE f : Flattens(f, Len(ss), ss))[Len(ss)]
  BY Zenon DEF FlattenSeq, Flattens
<1> QED
  BY <1>1, <1>2

\* Sequences joined hold what each of them holds.
LEMMA FlattenedIsSet ==
  ASSUME NEW T, NEW ss \in Seq(Seq(T))
  PROVE  /\ FlattenSeq(ss) \in Seq(T)
         /\ ToSet(FlattenSeq(ss)) = UNION {ToSet(ss[i]) : i \in DOMAIN ss}
<1>1. Len(ss) \in Nat /\ DOMAIN ss = 1..Len(ss) /\ \A i \in 1..Len(ss) : ss[i] \in Seq(T)
  OBVIOUS
<1>2. CASE Len(ss) = 0
  <2>1. FlattenSeq(ss) = ss
    BY <1>2 DEF FlattenSeq
  <2>2. DOMAIN ss = {} /\ ss = <<>>
    BY <1>1, <1>2
  <2>3. ToSet(<<>>) = {} /\ <<>> \in Seq(T)
    BY DEF ToSet
  <2> QED
    BY <2>1, <2>2, <2>3
<1>3. CASE Len(ss) # 0
  <2>1. PICK f : Flattens(f, Len(ss), ss) /\ FlattenSeq(ss) = f[Len(ss)]
    BY <1>3, FlattenUnfolds
  <2>2. \A i \in 1..Len(ss) : f[i] = IF i = 1 THEN ss[i] ELSE f[i - 1] \o ss[i]
    BY <2>1 DEF Flattens
  <2> DEFINE Upto(n) == UNION {ToSet(ss[i]) : i \in 1..n}
             N == {n \in Nat : n = 0 \/ n > Len(ss) \/ (f[n] \in Seq(T) /\ ToSet(f[n]) = Upto(n))}
  <2>3. 0 \in N
    OBVIOUS
  <2>4. ASSUME NEW n \in Nat, n \in N PROVE n + 1 \in N
    <3>1. SUFFICES ASSUME n + 1 <= Len(ss)
                   PROVE f[n + 1] \in Seq(T) /\ ToSet(f[n + 1]) = Upto(n + 1)
      OBVIOUS
    <3>2. n + 1 \in 1..Len(ss) /\ ss[n + 1] \in Seq(T)
      BY <1>1, <3>1
    <3>3. Upto(n + 1) = Upto(n) \union ToSet(ss[n + 1])
      <4>1. 1..n + 1 = 1..n \union {n + 1}
        OBVIOUS
      <4> QED
        BY <4>1
    <3>4. CASE n = 0
      <4>1. Upto(0) = {}
        OBVIOUS
      <4>2. f[n + 1] = ss[n + 1]
        BY <2>2, <3>2, <3>4
      <4> QED
        BY <3>2, <3>3, <3>4, <4>1, <4>2
    <3>5. CASE n # 0
      <4>1. f[n] \in Seq(T) /\ ToSet(f[n]) = Upto(n)
        BY <1>1, <2>4, <3>1, <3>5
      <4>2. f[n + 1] = f[n] \o ss[n + 1]
        <5> PICK m : m = n + 1
          OBVIOUS
        <5>1. m # 1 /\ m - 1 = n
          BY <3>5
        <5>2. f[m] = IF m = 1 THEN ss[m] ELSE f[m - 1] \o ss[m]
          BY <2>2, <3>2
        <5> QED
          BY <5>1, <5>2
      <4>3. f[n] \o ss[n + 1] \in Seq(T)
            /\ ToSet(f[n] \o ss[n + 1]) = ToSet(f[n]) \union ToSet(ss[n + 1])
        BY <3>2, <4>1, JoinedIsSet
      <4> HIDE DEF Upto
      <4> QED
        BY <3>3, <4>1, <4>2, <4>3
    <3> QED
      BY <3>4, <3>5
  <2> HIDE DEF N
  <2>5. Nat \subseteq N
    BY <2>3, <2>4, NumbersByInduction
  <2>6. Len(ss) \in N
    BY <1>1, <2>5
  <2> QED
    BY <1>1, <1>3, <2>1, <2>6 DEF N
<1> QED
  BY <1>2, <1>3

\* A finite set as a sequence.
LEMMA SetToSeqIs ==
  ASSUME NEW S, IsFiniteSet(S)
  PROVE  /\ SetToSeq(S) \in Seq(S) /\ ToSet(SetToSeq(S)) = S
         /\ SetToSeq(S) = <<>> <=> S = {}
<1> DEFINE n == Cardinality(S)
           D == 1..n
           q == SetToSeq(S)
<1>1. n \in Nat /\ ExistsBijection(D, S)
  BY FS_CardinalityType
<1>2. IsFiniteSet(D) /\ Cardinality(D) = n
  BY <1>1, FirstNumbers
<1>3. \E f \in [D -> S] : IsInjective(f)
  BY <1>1 DEF ExistsBijection, Bijection, Injection, IsInjective
<1>4. q \in [D -> S] /\ IsInjective(q)
  BY <1>3, Zenon DEF SetToSeq
<1> HIDE DEF q
<1>5. q \in Surjection(D, S)
  BY <1>2, <1>4, FS_Injection DEF Injection
<1>6. ToSet(q) = S
  BY <1>4, <1>5 DEF ToSet, Surjection
<1>7. q \in Seq(S) /\ Len(q) = n
  BY <1>1, <1>4
<1>8. q = <<>> <=> S = {}
  BY <1>1, <1>6, <1>7, FS_EmptySet DEF ToSet
<1> QED
  BY <1>6, <1>7, <1>8 DEF q

-----------------------------------------------------------------------------
(***************************************************************************)
(* The short names of services and actions.  What their parts hold.        *)
(***************************************************************************)
Maps(X) == UNION {[D -> X] : D \in FiniteSubsetsOf(ShortNames)}
Edits ==
  [what : {"alias", "unalias"}, name : ShortNames, to : DOMAIN Catalog]
  \union [what : {"command", "uncommand", "link", "unlink", "shortcut"}, name : ShortNames, to : Targets]
  \union [what : {"service"}, name : DOMAIN Catalog, to : {"absent", "disabled", "enabled"}]
  \union [what : {"settle"}, name : DOMAIN Catalog, to : DOMAIN Catalog]
LinkStates == [ShortNames -> {"none", "stale", "kimbap", "other"}]

IsJob(j) ==
  /\ j = [kind |-> j.kind, service |-> j.service, todo |-> j.todo, inverse |-> j.inverse,
          failed |-> j.failed, issues |-> j.issues, before |-> j.before]
  /\ j.todo \in Seq(Edits) /\ j.inverse \in Seq(Edits)

NamesTyped ==
  /\ aliases \in Maps(DOMAIN Catalog) /\ commandAliases \in Maps(Targets)
  /\ links \in LinkStates
  /\ activation \in [DOMAIN Catalog -> {"absent", "disabled", "enabled"}]
  /\ IsJob(job)

\* What withdrawing s may have to put back, of what was before it.
Backs(s, b) ==
  {Edit("alias", n, s) : n \in {m \in DOMAIN b.aliases : b.aliases[m] = s}}
  \union {Edit(w, n, b.commands[n]) :
            w \in {"command", "link"}, n \in {m \in DOMAIN b.commands : b.commands[m][1] = s}}

\* The map m is what it was, but for entries that are gone and whose return is in
\* `back`.
MapKept(m, was, what, back) ==
  /\ DOMAIN m \subseteq DOMAIN was
  /\ \A n \in DOMAIN was :
       IF n \in DOMAIN m THEN m[n] = was[n] ELSE Edit(what, n, was[n]) \in back

\* Every name that was run through a link is, or its link's return is in `back`.
LinksKept(b, back) ==
  \A n \in DOMAIN b.commands :
    b.links[n] \in {"kimbap", "stale"} =>
      links[n] \in {"kimbap", "stale"} \/ Edit("link", n, b.commands[n]) \in back

AllKept(b, back) ==
  /\ MapKept(aliases, b.aliases, "alias", back)
  /\ MapKept(commandAliases, b.commands, "command", back)
  /\ LinksKept(b, back)

\* What is to be taken away, the service last.
InOrder(todo, s, b) ==
  \A i \in DOMAIN todo :
    LET o == todo[i] IN
    /\ o.what \in {"unalias", "uncommand", "unlink", "service"}
    /\ o.what = "service" <=> i = Len(todo)
    /\ o.what = "unalias" => Edit("alias", o.name, o.to) \in Backs(s, b)
    /\ o.what \in {"uncommand", "unlink"} => Edit("link", o.name, o.to) \in Backs(s, b)

\* No name of s is left that is not in `todo`.
ToGo(todo, s) ==
  /\ \A n \in DOMAIN aliases : aliases[n] = s => Edit("unalias", n, s) \in todo
  /\ \A n \in DOMAIN commandAliases :
       commandAliases[n][1] = s => Edit("uncommand", n, commandAliases[n]) \in todo

\* While names are taken away, what is gone can be put back, and what is to go is
\* still to come.
Withdrawing(s, b) ==
  /\ InOrder(job.todo, s, b) /\ ToGo(ToSet(job.todo), s)
  /\ ToSet(job.inverse) \subseteq Backs(s, b)
  /\ AllKept(b, ToSet(job.inverse))
  /\ job.todo # <<>> => activation = b.state

\* While they are put back, what is still gone is to come.
Restoring(s, b) ==
  /\ ToSet(job.todo) \subseteq Backs(s, b)
  /\ AllKept(b, ToSet(job.todo))
  /\ activation = b.state

Withdrawn ==
  job.kind = "withdraw" =>
    LET s == job.service
        b == job.before
    IN /\ s \in DOMAIN Catalog
       /\ b.aliases \in Maps(DOMAIN Catalog) /\ b.commands \in Maps(Targets) /\ b.links \in LinkStates
       /\ IF job.failed = "none" THEN Withdrawing(s, b) ELSE ~job.issues => Restoring(s, b)

NamesInv == NamesTyped /\ Withdrawn

\* The finite maps from short names.
LEMMA MapIs ==
  ASSUME NEW X, NEW m \in Maps(X)
  PROVE  /\ m \in [DOMAIN m -> X] /\ DOMAIN m \subseteq ShortNames /\ IsFiniteSet(DOMAIN m)
         /\ m = [n \in DOMAIN m |-> m[n]] /\ \A n \in DOMAIN m : m[n] \in X
<1>1. PICK D \in FiniteSubsetsOf(ShortNames) : m \in [D -> X]
  BY DEF Maps
<1>2. D \subseteq ShortNames /\ IsFiniteSet(D)
  BY DEF FiniteSubsetsOf
<1> QED
  BY <1>1, <1>2

LEMMA IsMap ==
  ASSUME NEW X, NEW D, D \subseteq ShortNames, IsFiniteSet(D), NEW m \in [D -> X]
  PROVE  m \in Maps(X)
<1>1. D \in FiniteSubsetsOf(ShortNames)
  BY DEF FiniteSubsetsOf
<1> QED
  BY <1>1 DEF Maps

LEMMA MapUpserted ==
  ASSUME NEW X, NEW m \in Maps(X), NEW o, o.name \in ShortNames, o.to \in X
  PROVE  /\ Upserted(m, o) \in Maps(X) /\ DOMAIN Upserted(m, o) = DOMAIN m \union {o.name}
         /\ \A k \in DOMAIN Upserted(m, o) : Upserted(m, o)[k] = IF k = o.name THEN o.to ELSE m[k]
<1>1. m \in [DOMAIN m -> X] /\ DOMAIN m \subseteq ShortNames /\ IsFiniteSet(DOMAIN m)
  BY MapIs
<1>2. IsFiniteSet(DOMAIN m \union {o.name})
  BY <1>1, FS_AddElement
<1>3. Upserted(m, o) \in [DOMAIN m \union {o.name} -> X]
  BY <1>1 DEF Upserted
<1>4. Upserted(m, o) \in Maps(X)
  BY <1>1, <1>2, <1>3, IsMap
<1> QED
  BY <1>4 DEF Upserted

LEMMA MapDropped ==
  ASSUME NEW X, NEW m \in Maps(X), NEW o
  PROVE  /\ Dropped(m, o) \in Maps(X) /\ DOMAIN Dropped(m, o) = DOMAIN m \ {o.name}
         /\ \A k \in DOMAIN Dropped(m, o) : Dropped(m, o)[k] = m[k]
<1>1. m \in [DOMAIN m -> X] /\ DOMAIN m \subseteq ShortNames /\ IsFiniteSet(DOMAIN m)
  BY MapIs
<1>2. IsFiniteSet(DOMAIN m \ {o.name})
  BY <1>1, FS_RemoveElement
<1>3. Dropped(m, o) \in [DOMAIN m \ {o.name} -> X]
  BY <1>1 DEF Dropped
<1>4. Dropped(m, o) \in Maps(X)
  BY <1>1, <1>2, <1>3, IsMap
<1> QED
  BY <1>4 DEF Dropped

LEMMA NoMap == ASSUME NEW X PROVE << >> \in Maps(X)
<1>1. << >> \in [{} -> X]
  OBVIOUS
<1>2. IsFiniteSet({})
  BY FS_EmptySet
<1> QED
  BY <1>1, <1>2, IsMap

\* What the operations are.
LEMMA EditFields ==
  ASSUME NEW w, NEW n, NEW x
  PROVE  /\ Edit(w, n, x).what = w /\ Edit(w, n, x).name = n /\ Edit(w, n, x).to = x
         /\ \A v, k, y : Edit(w, n, x) = Edit(v, k, y) <=> w = v /\ n = k /\ x = y
  BY DEF Edit

LEMMA EditTyped ==
  /\ \A w \in {"alias", "unalias"}, n \in ShortNames, s \in DOMAIN Catalog : Edit(w, n, s) \in Edits
  /\ \A w \in {"command", "uncommand", "link", "unlink", "shortcut"}, n \in ShortNames, t \in Targets :
       Edit(w, n, t) \in Edits
  /\ \A s \in DOMAIN Catalog, x \in {"absent", "disabled", "enabled"} : Edit("service", s, x) \in Edits
  /\ \A s \in DOMAIN Catalog : Edit("settle", s, s) \in Edits
  BY DEF Edit, Edits

LEMMA EditsAre ==
  ASSUME NEW o \in Edits
  PROVE  /\ o = Edit(o.what, o.name, o.to)
         /\ o.what \in {"alias", "unalias"} => o.name \in ShortNames /\ o.to \in DOMAIN Catalog
         /\ o.what \in {"command", "uncommand", "link", "unlink", "shortcut"} =>
              o.name \in ShortNames /\ o.to \in Targets
         /\ o.what = "service" => o.name \in DOMAIN Catalog /\ o.to \in {"absent", "disabled", "enabled"}
         /\ o.what \in {"alias", "unalias", "command", "uncommand", "link", "unlink", "shortcut", "service",
                        "settle"}
  BY DEF Edit, Edits

LEMMA BacksAre ==
  ASSUME NEW s, NEW b
  PROVE  /\ \A n, x : Edit("alias", n, x) \in Backs(s, b) <=>
               n \in DOMAIN b.aliases /\ b.aliases[n] = s /\ x = s
         /\ \A w \in {"command", "link"} : \A n, x : Edit(w, n, x) \in Backs(s, b) <=>
               n \in DOMAIN b.commands /\ b.commands[n][1] = s /\ x = b.commands[n]
         /\ \A o \in Backs(s, b) : o = Edit(o.what, o.name, o.to) /\ o.what \in {"alias", "command", "link"}
<1> PICK A : A = {m \in DOMAIN b.aliases : b.aliases[m] = s}
  OBVIOUS
<1> PICK C : C = {m \in DOMAIN b.commands : b.commands[m][1] = s}
  OBVIOUS
<1> PICK B : B = Backs(s, b)
  OBVIOUS
<1>1. \A o : o \in B <=> \/ \E n \in A : o = Edit("alias", n, s)
                         \/ \E w \in {"command", "link"}, n \in C : o = Edit(w, n, b.commands[n])
  BY DEF Backs
<1>2. \A o \in B : o = Edit(o.what, o.name, o.to) /\ o.what \in {"alias", "command", "link"}
  BY <1>1, EditFields
<1>3. \A n, x : Edit("alias", n, x) \in B <=> n \in A /\ x = s
  BY <1>1, EditFields
<1>4. ASSUME NEW w \in {"command", "link"}, NEW n, NEW x
      PROVE  Edit(w, n, x) \in B <=> n \in C /\ x = b.commands[n]
  BY <1>1, EditFields
<1> QED
  BY <1>2, <1>3, <1>4

LEMMA TargetsAre ==
  ASSUME NEW t \in Targets PROVE t = <<t[1], t[2]>> /\ t[1] \in DOMAIN Catalog
  BY DEF Targets

\* The operations for each short name of a service.
LEMMA ForAliasesAre ==
  ASSUME NEW s, NEW f, f.aliases \in Maps(DOMAIN Catalog), NEW w
  PROVE  /\ ToSet(ForAliases(s, f, w)) = {Edit(w, n, s) : n \in {m \in DOMAIN f.aliases : f.aliases[m] = s}}
         /\ s \in DOMAIN Catalog /\ w \in {"alias", "unalias"} => ForAliases(s, f, w) \in Seq(Edits)
<1> DEFINE S == {m \in DOMAIN f.aliases : f.aliases[m] = s}
<1> PICK q : q = AliasesOf(s, f)
  OBVIOUS
<1>1. IsFiniteSet(S) /\ S \subseteq ShortNames
  BY MapIs, FS_Subset
<1>2. q \in Seq(S) /\ ToSet(q) = S
  BY <1>1, SetToSeqIs DEF AliasesOf
<1> HIDE DEF S
<1> PICK m \in Nat : m = Len(q)
  BY <1>2
<1>3. DOMAIN q = 1..m /\ \A i \in 1..m : q[i] \in S
  BY <1>2
<1> PICK r : r = ForAliases(s, f, w)
  OBVIOUS
<1>4. r = [i \in 1..m |-> Edit(w, q[i], s)]
  BY <1>3 DEF ForAliases
<1>5. ToSet(r) = {Edit(w, n, s) : n \in S}
  BY <1>2, <1>3, <1>4 DEF ToSet
<1>6. ASSUME s \in DOMAIN Catalog, w \in {"alias", "unalias"} PROVE r \in Seq(Edits)
  <2>1. \A i \in 1..m : Edit(w, q[i], s) \in Edits
    BY <1>1, <1>3, <1>6, EditTyped
  <2> QED
    BY <1>4, <2>1
<1> QED
  BY <1>5, <1>6 DEF S

LEMMA ForCommandsAre ==
  ASSUME NEW s, NEW f, f.commands \in Maps(Targets),
         NEW v \in {"command", "uncommand", "link", "unlink"},
         NEW w \in {"command", "uncommand", "link", "unlink"}
  PROVE  /\ ForCommands(s, f, <<v, w>>) \in Seq(Edits)
         /\ \A o : o \in ToSet(ForCommands(s, f, <<v, w>>)) <=>
              \E n \in DOMAIN f.commands : /\ f.commands[n][1] = s
                                           /\ o \in {Edit(v, n, f.commands[n]), Edit(w, n, f.commands[n])}
<1> PICK c : c = f.commands
  OBVIOUS
<1> DEFINE S == {m \in DOMAIN c : c[m][1] = s}
<1> PICK q : q = CommandsOf(s, f)
  OBVIOUS
<1>1. IsFiniteSet(S) /\ S \subseteq ShortNames /\ \A n \in S : c[n] \in Targets
  BY MapIs, FS_Subset
<1>2. \A n : n \in S <=> n \in DOMAIN c /\ c[n][1] = s
  OBVIOUS
<1>3. q = SetToSeq(S)
  BY Zenon DEF CommandsOf
<1> HIDE DEF S
<1>4. q \in Seq(S) /\ ToSet(q) = S
  BY ONLY <1>1, <1>3, SetToSeqIs
<1> PICK m \in Nat : m = Len(q)
  BY <1>4
<1>5. DOMAIN q = 1..m /\ \A i \in 1..m : q[i] \in S
  BY <1>4
<1> DEFINE p(n) == <<Edit(v, n, c[n]), Edit(w, n, c[n])>>
<1> PICK ss : ss = [i \in 1..m |-> p(q[i])]
  OBVIOUS
<1>6. ForCommands(s, f, <<v, w>>) = FlattenSeq(ss)
  <2>1. DOMAIN <<v, w>> = 1..2
    OBVIOUS
  <2>2. ASSUME NEW n PROVE [j \in 1..2 |-> Edit(<<v, w>>[j], n, c[n])] = p(n)
    OBVIOUS
  <2> HIDE DEF p
  <2>3. [i \in DOMAIN q |-> [j \in DOMAIN <<v, w>> |-> Edit(<<v, w>>[j], q[i], c[q[i]])]] = ss
    BY <1>5, <2>1, <2>2
  <2> QED
    BY <2>3 DEF ForCommands
<1>7. \A n \in S : p(n) \in Seq(Edits)
  BY <1>1, EditTyped
<1>8. \A n : ToSet(p(n)) = {Edit(v, n, c[n]), Edit(w, n, c[n])}
  BY DEF ToSet
<1> HIDE DEF p
<1>9. /\ ss \in Seq(Seq(Edits)) /\ DOMAIN ss = 1..m
      /\ \A i \in 1..m : ss[i] = p(q[i])
  BY <1>5, <1>7
<1> PICK F : F = FlattenSeq(ss)
  OBVIOUS
<1>10. F \in Seq(Edits) /\ ToSet(F) = UNION {ToSet(ss[i]) : i \in DOMAIN ss}
  BY ONLY <1>9, FlattenedIsSet, F = FlattenSeq(ss), Zenon
<1> PICK E : E = ToSet(F)
  OBVIOUS
<1>11. \A o : o \in E <=> \E i \in 1..m : o \in ToSet(ss[i])
  BY <1>9, <1>10
<1>12. ASSUME NEW o \in E PROVE \E n \in S : o \in {Edit(v, n, c[n]), Edit(w, n, c[n])}
  <2>1. PICK i \in 1..m : o \in ToSet(ss[i])
    BY <1>11
  <2>2. q[i] \in S /\ o \in {Edit(v, q[i], c[q[i]]), Edit(w, q[i], c[q[i]])}
    BY <1>5, <1>8, <1>9, <2>1
  <2> QED
    BY <2>2
<1>13. ASSUME NEW n \in S, NEW o \in {Edit(v, n, c[n]), Edit(w, n, c[n])} PROVE o \in E
  <2>1. PICK i \in 1..m : q[i] = n
    BY <1>4, <1>5 DEF ToSet
  <2>2. o \in ToSet(ss[i])
    BY <1>8, <1>9, <2>1
  <2> QED
    BY <1>11, <2>2
<1>14. \A o : o \in E <=> \E n \in S : o \in {Edit(v, n, c[n]), Edit(w, n, c[n])}
  BY <1>12, <1>13, Zenon
<1>15. \A o : o \in E <=> \E n \in DOMAIN c : c[n][1] = s /\ o \in {Edit(v, n, c[n]), Edit(w, n, c[n])}
  BY <1>2, <1>14, Zenon
<1> QED
  BY <1>6, <1>10, <1>15, Zenon

LEMMA AutoAliasTyped ==
  ASSUME NEW s \in DOMAIN Catalog, NamesTyped
  PROVE  AutoAlias(s) \in Seq(Edits)
<1> DEFINE free == {n \in ShortNames : n # s /\ ~Installed(n) /\ n \notin DOMAIN aliases}
<1> PICK u : u = Selected(Catalog[s].suggested, free)
  OBVIOUS
<1>1. u \in Seq(ShortNames)
  BY CatalogAssumption, SelectedIsSet
<1>2. u # <<>> => u[1] \in ShortNames
  BY <1>1
<1>3. u # <<>> => <<Edit("alias", u[1], s)>> \in Seq(Edits)
  BY <1>2, EditTyped
<1>4. AutoAlias(s) = IF AliasesOf(s, Files) # <<>> \/ u = <<>> THEN <<>> ELSE <<Edit("alias", u[1], s)>>
  BY Zenon DEF AutoAlias
<1> QED
  BY <1>3, <1>4

LEMMA CandidatesTyped ==
  ASSUME NEW s \in DOMAIN Catalog
  PROVE  Candidates(s) \in Seq(Edits)
<1> PICK as : as = Catalog[s].actions
  OBVIOUS
<1> PICK m \in Nat : m = Len(as) /\ DOMAIN as = 1..m
  BY CatalogAssumption, SequenceFacts
<1> DEFINE p(a) == [i \in DOMAIN as[a].names |-> Edit("shortcut", as[a].names[i], <<s, a>>)]
<1> PICK ss : ss = [a \in 1..m |-> p(a)]
  OBVIOUS
<1>1. ASSUME NEW a \in 1..m PROVE p(a) \in Seq(Edits)
  <2> PICK ns \in Seq(ShortNames) : ns = as[a].names
    BY CatalogAssumption
  <2> PICK k \in Nat : k = Len(ns) /\ DOMAIN ns = 1..k
    OBVIOUS
  <2>1. <<s, a>> \in Targets
    BY DEF Targets
  <2>2. \A i \in 1..k : Edit("shortcut", ns[i], <<s, a>>) \in Edits
    BY <2>1, EditTyped
  <2>3. [i \in 1..k |-> Edit("shortcut", ns[i], <<s, a>>)] \in Seq(Edits)
    BY <2>2
  <2> QED
    BY <2>3
<1> HIDE DEF p
<1>2. ss \in Seq(Seq(Edits))
  BY <1>1
<1>3. Candidates(s) = FlattenSeq(ss)
  BY DEF Candidates, p
<1> QED
  BY <1>2, <1>3, FlattenedIsSet

LEMMA RestoreIs ==
  ASSUME NEW b, b = job.before, b.aliases \in Maps(DOMAIN Catalog), b.commands \in Maps(Targets),
         job.service \in DOMAIN Catalog
  PROVE  Restore \in Seq(Edits) /\ ToSet(Restore) = Backs(job.service, b)
<1> PICK s : s = job.service
  OBVIOUS
<1> PICK B : B = Backs(s, b)
  OBVIOUS
<1>0. s \in DOMAIN Catalog
  OBVIOUS
<1> PICK A : A = ForAliases(s, b, "alias")
  OBVIOUS
<1> PICK C : C = ForCommands(s, b, <<"command", "link">>)
  OBVIOUS
<1>1. /\ A \in Seq(Edits)
      /\ ToSet(A) = {Edit("alias", n, s) : n \in {m \in DOMAIN b.aliases : b.aliases[m] = s}}
  <2>1. ToSet(ForAliases(s, b, "alias"))
          = {Edit("alias", n, s) : n \in {m \in DOMAIN b.aliases : b.aliases[m] = s}}
    BY ONLY b.aliases \in Maps(DOMAIN Catalog), ForAliasesAre
  <2>2. ForAliases(s, b, "alias") \in Seq(Edits)
    BY ONLY b.aliases \in Maps(DOMAIN Catalog), <1>0, ForAliasesAre
  <2> QED
    BY <2>1, <2>2
<1>2. /\ C \in Seq(Edits)
      /\ \A o : o \in ToSet(C) <=>
            \E n \in DOMAIN b.commands :
              /\ b.commands[n][1] = s
              /\ o \in {Edit("command", n, b.commands[n]), Edit("link", n, b.commands[n])}
  <2>1. /\ "command" \in {"command", "uncommand", "link", "unlink"}
        /\ "link" \in {"command", "uncommand", "link", "unlink"}
    OBVIOUS
  <2> QED
    BY ONLY b.commands \in Maps(Targets), <2>1, ForCommandsAre, C = ForCommands(s, b, <<"command", "link">>)
<1>3. A \o C \in Seq(Edits) /\ ToSet(A \o C) = ToSet(A) \union ToSet(C)
  BY <1>1, <1>2, JoinedIsSet
<1>4. \A o \in ToSet(A) \union ToSet(C) : o \in B
  BY <1>1, <1>2, BacksAre
<1>5. \A o \in B : o \in ToSet(A) \union ToSet(C)
  <2> TAKE o \in B
  <2>1. o = Edit(o.what, o.name, o.to) /\ o.what \in {"alias", "command", "link"}
    BY BacksAre
  <2>2. CASE o.what = "alias"
    <3>1. o.name \in DOMAIN b.aliases /\ b.aliases[o.name] = s /\ o.to = s
      BY <2>1, <2>2, BacksAre
    <3> QED
      BY <1>1, <2>1, <2>2, <3>1
  <2>3. CASE o.what \in {"command", "link"}
    <3>1. o.name \in DOMAIN b.commands /\ b.commands[o.name][1] = s /\ o.to = b.commands[o.name]
      BY <2>1, <2>3, BacksAre
    <3>2. o \in ToSet(C)
      BY <1>2, <2>1, <2>3, <3>1
    <3> QED
      BY <3>2
  <2> QED
    BY <2>1, <2>2, <2>3
<1>6. Restore = A \o C
  BY Zenon DEF Restore
<1> QED
  BY <1>3, <1>4, <1>5, <1>6

LEMMA HeadTail ==
  ASSUME NEW T, NEW s \in Seq(T), s # <<>>
  PROVE  /\ Head(s) \in T /\ Tail(s) \in Seq(T) /\ Head(s) = s[1]
         /\ Len(s) \in Nat \ {0} /\ Len(Tail(s)) = Len(s) - 1
         /\ DOMAIN s = 1..Len(s) /\ DOMAIN Tail(s) = 1..(Len(s) - 1)
         /\ \A i \in 1..(Len(s) - 1) : Tail(s)[i] = s[i + 1]
         /\ ToSet(s) = {Head(s)} \union ToSet(Tail(s))
<1> PICK t : t = Tail(s)
  OBVIOUS
<1> PICK m \in Nat \ {0} : m = Len(s)
  OBVIOUS
<1>1. /\ Head(s) \in T /\ t \in Seq(T) /\ Head(s) = s[1] /\ Len(t) = m - 1
      /\ DOMAIN s = 1..m /\ DOMAIN t = 1..(m - 1) /\ \A i \in 1..(m - 1) : t[i] = s[i + 1]
  OBVIOUS
<1>2. \A i \in 1..m : i = 1 \/ (i - 1 \in 1..(m - 1) /\ t[i - 1] = s[i])
  BY <1>1
<1>3. \A i \in 1..(m - 1) : i + 1 \in 1..m
  OBVIOUS
<1>4. ToSet(s) = {s[1]} \union ToSet(t)
  <2>1. \A x : x \in ToSet(s) <=> \E i \in 1..m : s[i] = x
    BY <1>1 DEF ToSet
  <2>2. \A x : x \in ToSet(t) <=> \E i \in 1..(m - 1) : t[i] = x
    BY <1>1 DEF ToSet
  <2>3. \A i \in 1..m : s[i] \in {s[1]} \union ToSet(t)
    BY <1>2, <2>2
  <2>4. \A i \in 1..(m - 1) : t[i] \in ToSet(s)
    BY <1>1, <1>3, <2>1
  <2>5. s[1] \in ToSet(s)
    BY <2>1
  <2> QED
    BY <2>1, <2>2, <2>3, <2>4, <2>5
<1> QED
  BY <1>1, <1>4

LEMMA RemainingIs ==
  ASSUME NamesTyped, job.todo # <<>>
  PROVE  Remaining \in Seq(Edits) /\ (job.kind = "withdraw" => Remaining = later)
<1>1. later \in Seq(Edits)
  BY HeadTail DEF NamesTyped, IsJob, later
<1>2. Selected(later, {o \in ToSet(later) : ~(o.what = "shortcut" /\ o.to = change.to)}) \in Seq(Edits)
  BY <1>1, SelectedIsSet
<1> QED
  BY <1>1, <1>2 DEF Remaining

\* After a change was made.
LEMMA MadeIs ==
  ASSUME NamesTyped, job.todo # <<>>, NEW inverse \in Seq(Edits), Made(inverse)
  PROVE  /\ IsJob(job') /\ job'.kind = job.kind /\ job'.service = job.service /\ job'.failed = job.failed
         /\ job'.issues = job.issues /\ job'.before = job.before
         /\ job.kind = "withdraw" => job'.todo = later
         /\ job.failed = "none" => ToSet(job'.inverse) = ToSet(job.inverse) \union ToSet(inverse)
<1> PICK j : j = job
  OBVIOUS
<1> PICK v : v = j.inverse
  OBVIOUS
<1>1. v \in Seq(Edits) /\ v \o inverse \in Seq(Edits)
      /\ ToSet(v \o inverse) = ToSet(v) \union ToSet(inverse)
  BY JoinedIsSet DEF NamesTyped, IsJob
<1> PICK w : w = IF j.failed # "none" \/ \E i \in DOMAIN v : <<v[i]>> = inverse THEN v ELSE v \o inverse
  OBVIOUS
<1>2. w \in Seq(Edits)
  BY <1>1
<1>3. j.failed = "none" => ToSet(w) = ToSet(v) \union ToSet(inverse)
  <2>1. ASSUME NEW i \in DOMAIN v, <<v[i]>> = inverse PROVE ToSet(inverse) \subseteq ToSet(v)
    BY <2>1 DEF ToSet
  <2> QED
    BY <1>1, <2>1
<1>4. job' = [j EXCEPT !.todo = Remaining, !.inverse = w]
  BY DEF Made
<1>5. Remaining \in Seq(Edits) /\ (j.kind = "withdraw" => Remaining = later)
  BY RemainingIs
<1>6. IsJob(j)
  BY DEF NamesTyped
<1>7. IsJob(job') /\ job'.kind = j.kind /\ job'.service = j.service /\ job'.failed = j.failed
      /\ job'.issues = j.issues /\ job'.before = j.before /\ job'.todo = Remaining /\ job'.inverse = w
  BY <1>2, <1>4, <1>5, <1>6 DEF IsJob
<1> QED
  BY <1>3, <1>5, <1>7

\* What a map keeps.
LEMMA KeptMore ==
  ASSUME NEW m, NEW was, NEW what, NEW back, MapKept(m, was, what, back), NEW more, back \subseteq more
  PROVE  MapKept(m, was, what, more)
  BY DEF MapKept

LEMMA KeptByPut ==
  ASSUME NEW m, NEW was, NEW what, NEW back, MapKept(m, was, what, back), NEW o,
         o.name \in DOMAIN was, o.to = was[o.name], NEW rest, back \subseteq {o} \union rest
  PROVE  MapKept(Upserted(m, o), was, what, rest)
<1>1. /\ DOMAIN m \subseteq DOMAIN was
      /\ \A n \in DOMAIN was : IF n \in DOMAIN m THEN m[n] = was[n] ELSE Edit(what, n, was[n]) \in back
  BY DEF MapKept
<1> PICK p : p = Upserted(m, o)
  OBVIOUS
<1>2. /\ DOMAIN p = DOMAIN m \union {o.name}
      /\ \A n \in DOMAIN p : p[n] = IF n = o.name THEN o.to ELSE m[n]
  BY DEF Upserted
<1>3. ASSUME NEW n \in DOMAIN was, n \notin DOMAIN p PROVE Edit(what, n, was[n]) \in rest
  <2>1. Edit(what, n, was[n]) \in back /\ n # o.name
    BY <1>1, <1>2, <1>3
  <2>2. Edit(what, n, was[n]) # o
    BY <2>1, EditFields
  <2> QED
    BY <2>1, <2>2
<1>4. \A n \in DOMAIN p : n \in DOMAIN was /\ p[n] = was[n]
  BY <1>1, <1>2
<1> QED
  BY <1>3, <1>4 DEF MapKept

LEMMA KeptOther ==
  ASSUME NEW m, NEW was, NEW what, NEW back, MapKept(m, was, what, back), NEW o, o.what # what,
         NEW rest, back \subseteq {o} \union rest
  PROVE  MapKept(m, was, what, rest)
<1>1. \A n, x : Edit(what, n, x) # o
  BY EditFields
<1> QED
  BY <1>1 DEF MapKept

LEMMA KeptByDrop ==
  ASSUME NEW m, NEW was, NEW what, NEW back, MapKept(m, was, what, back), NEW o,
         o.name \in DOMAIN was, NEW more, Edit(what, o.name, was[o.name]) \in more, back \subseteq more
  PROVE  MapKept(Dropped(m, o), was, what, more)
<1> PICK p : p = Dropped(m, o)
  OBVIOUS
<1>1. DOMAIN p = DOMAIN m \ {o.name} /\ \A n \in DOMAIN p : p[n] = m[n]
  BY DEF Dropped
<1> QED
  BY <1>1 DEF MapKept

LEMMA InOrderTail ==
  ASSUME NEW todo \in Seq(Edits), todo # <<>>, NEW s, NEW b, InOrder(todo, s, b)
  PROVE  /\ InOrder(Tail(todo), s, b)
         /\ Head(todo).what \in {"unalias", "uncommand", "unlink", "service"}
         /\ Head(todo).what = "service" => Tail(todo) = <<>>
         /\ Head(todo).what = "unalias" => Edit("alias", Head(todo).name, Head(todo).to) \in Backs(s, b)
         /\ Head(todo).what \in {"uncommand", "unlink"} =>
              Edit("link", Head(todo).name, Head(todo).to) \in Backs(s, b)
<1> PICK t : t = Tail(todo)
  OBVIOUS
<1> PICK m \in Nat \ {0} : m = Len(todo)
  BY HeadTail
<1>1. /\ t \in Seq(Edits) /\ Head(todo) = todo[1] /\ Len(t) = m - 1 /\ DOMAIN todo = 1..m
      /\ DOMAIN t = 1..(m - 1) /\ \A i \in 1..(m - 1) : t[i] = todo[i + 1]
  BY HeadTail
<1>2. 1 \in 1..m /\ \A i \in 1..(m - 1) : i + 1 \in 1..m /\ (i + 1 = m <=> i = m - 1)
  OBVIOUS
<1> DEFINE Ok(o) == /\ o.what \in {"unalias", "uncommand", "unlink", "service"}
                    /\ o.what = "unalias" => Edit("alias", o.name, o.to) \in Backs(s, b)
                    /\ o.what \in {"uncommand", "unlink"} => Edit("link", o.name, o.to) \in Backs(s, b)
<1>3. \A i \in 1..m : Ok(todo[i]) /\ (todo[i].what = "service" <=> i = m)
  BY <1>1, Zenon DEF InOrder
<1>4. Ok(todo[1]) /\ (todo[1].what = "service" => t = <<>>)
  <2>1. todo[1].what = "service" => m = 1
    BY <1>2, <1>3
  <2>2. m = 1 => t = <<>>
    BY <1>1
  <2> QED
    BY <1>2, <1>3, <2>1, <2>2
<1>5. \A i \in 1..(m - 1) : Ok(t[i]) /\ (t[i].what = "service" <=> i = m - 1)
  <2> HIDE DEF Ok
  <2> QED
    BY <1>1, <1>2, <1>3
<1>6. InOrder(t, s, b)
  BY <1>1, <1>5, Zenon DEF InOrder
<1> QED
  BY <1>1, <1>4, <1>6

LEMMA UndertakeIs ==
  ASSUME NEW kind, NEW s, NEW todo \in Seq(Edits), Undertake(kind, s, todo)
  PROVE  /\ IsJob(job') /\ job'.kind = kind /\ job'.service = s /\ job'.todo = todo
         /\ job'.inverse = <<>> /\ job'.failed = "none" /\ job'.issues = FALSE
         /\ kind = "withdraw" => job'.before = Files
         /\ UNCHANGED <<aliases, commandAliases, links, activation>>
<1>1. <<>> \in Seq(Edits)
  OBVIOUS
<1> PICK x : x = IF kind = "withdraw" THEN Files ELSE << >>
  OBVIOUS
<1>2. job' = [kind |-> kind, service |-> s, todo |-> todo, inverse |-> <<>>, failed |-> "none",
              issues |-> FALSE, before |-> x]
  BY DEF Undertake, NoJob
<1>3. UNCHANGED <<aliases, commandAliases, links, activation>>
  BY DEF Undertake
<1> QED
  BY <1>1, <1>2, <1>3 DEF IsJob

LEMMA NamesInvInit == AliasInit => NamesInv
<1> SUFFICES ASSUME AliasInit PROVE NamesInv
  OBVIOUS
<1>1. aliases \in Maps(DOMAIN Catalog) /\ commandAliases \in Maps(Targets)
  BY NoMap DEF AliasInit
<1>2. IsJob(job) /\ job.kind = "none"
  BY DEF AliasInit, NoJob, IsJob
<1>3. links \in LinkStates
  BY DEF AliasInit, LinkStates
<1> QED
  BY <1>1, <1>2, <1>3 DEF NamesInv, NamesTyped, Withdrawn, AliasInit

\* A command of another kind begins.
LEMMA OthersBegin ==
  ASSUME NamesInv, NEW kind \in {"set", "remove", "activate"}, NEW s, NEW todo \in Seq(Edits),
         Undertake(kind, s, todo)
  PROVE  NamesInv'
<1>1. IsJob(job') /\ job'.kind = kind /\ UNCHANGED <<aliases, commandAliases, links, activation>>
  BY UndertakeIs
<1> QED
  BY <1>1 DEF NamesInv, NamesTyped, Withdrawn

LEMMA OneEdit == ASSUME NEW o \in Edits PROVE <<o>> \in Seq(Edits)
  OBVIOUS

LEMMA ActivateBegins ==
  ASSUME NamesInv, NEW s \in DOMAIN Catalog, NEW to \in {"absent", "disabled", "enabled"}, Activate(s, to)
  PROVE  NamesInv'
<1> PICK tail : tail = IF to = "enabled" THEN AutoAlias(s) \o Candidates(s) \o <<Edit("settle", s, s)>> ELSE <<>>
  OBVIOUS
<1>1. <<Edit("service", s, to)>> \in Seq(Edits) /\ <<Edit("settle", s, s)>> \in Seq(Edits)
  BY EditTyped
<1>2. AutoAlias(s) \in Seq(Edits) /\ Candidates(s) \in Seq(Edits)
  BY AutoAliasTyped, CandidatesTyped DEF NamesInv
<1>3. tail \in Seq(Edits)
  BY <1>1, <1>2
<1>4. Undertake("activate", s, <<Edit("service", s, to)>> \o tail)
  BY DEF Activate
<1>5. <<Edit("service", s, to)>> \o tail \in Seq(Edits)
  BY <1>1, <1>3
<1> QED
  BY <1>4, <1>5, OthersBegin

LEMMA SetBegins ==
  ASSUME NamesInv, NEW n \in ShortNames
  PROVE  /\ \A s \in DOMAIN Catalog : SetService(n, s) => NamesInv'
         /\ \A target \in Targets : SetAction(n, target) => NamesInv'
<1>1. ASSUME NEW s \in DOMAIN Catalog, SetService(n, s) PROVE NamesInv'
  <2>1. <<Edit("alias", n, s)>> \in Seq(Edits)
    BY EditTyped
  <2> QED
    BY <1>1, <2>1, OthersBegin DEF SetService
<1>2. ASSUME NEW target \in Targets, SetAction(n, target) PROVE NamesInv'
  <2>1. <<Edit("link", n, target), Edit("command", n, target)>> \in Seq(Edits)
    BY EditTyped
  <2> QED
    BY <1>2, <2>1, OthersBegin DEF SetAction
<1> QED
  BY <1>1, <1>2

LEMMA RemoveBegins == ASSUME NamesInv, NEW n \in ShortNames, RemoveAlias(n) PROVE NamesInv'
<1> PICK a : a = IF n \in DOMAIN aliases THEN <<Edit("unalias", n, aliases[n])>> ELSE <<>>
  OBVIOUS
<1> PICK c : c = IF n \in DOMAIN commandAliases
                 THEN [i \in 1..2 |-> Edit(<<"uncommand", "unlink">>[i], n, commandAliases[n])] ELSE <<>>
  OBVIOUS
<1>1. n \in DOMAIN aliases => aliases[n] \in DOMAIN Catalog
  BY MapIs DEF NamesInv, NamesTyped
<1>2. n \in DOMAIN commandAliases => commandAliases[n] \in Targets
  BY MapIs DEF NamesInv, NamesTyped
<1>3. a \in Seq(Edits)
  BY <1>1, EditTyped
<1>4. c \in Seq(Edits)
  <2>1. CASE n \in DOMAIN commandAliases
    <3>1. \A i \in 1..2 : <<"uncommand", "unlink">>[i] \in {"uncommand", "unlink"}
      OBVIOUS
    <3>2. \A i \in 1..2 : Edit(<<"uncommand", "unlink">>[i], n, commandAliases[n]) \in Edits
      BY <1>2, <2>1, <3>1, EditTyped
    <3>3. [i \in 1..2 |-> Edit(<<"uncommand", "unlink">>[i], n, commandAliases[n])] \in Seq(Edits)
      BY <3>2
    <3> QED
      BY <2>1, <3>3
  <2>2. CASE n \notin DOMAIN commandAliases
    BY <2>2
  <2> QED
    BY <2>1, <2>2
<1>5. Undertake("remove", "none", a \o c)
  BY DEF RemoveAlias
<1>6. a \o c \in Seq(Edits)
  BY <1>3, <1>4
<1> QED
  BY <1>5, <1>6, OthersBegin

\* Disabling or removing begins with everything as it was.
LEMMA WithdrawBegins ==
  ASSUME NamesInv, NEW s \in DOMAIN Catalog, NEW to \in {"disabled", "absent"}, Withdraw(s, to)
  PROVE  NamesInv'
<1> PICK b : b = Files
  OBVIOUS
<1> PICK A : A = ForAliases(s, b, "unalias")
  OBVIOUS
<1> PICK C : C = ForCommands(s, b, <<"uncommand", "unlink">>)
  OBVIOUS
<1> PICK e : e = Edit("service", s, to)
  OBVIOUS
<1> PICK todo : todo = A \o C \o <<e>>
  OBVIOUS
<1>0. /\ b.aliases = aliases /\ b.commands = commandAliases /\ b.links = links /\ b.state = activation
      /\ b.aliases \in Maps(DOMAIN Catalog) /\ b.commands \in Maps(Targets) /\ b.links \in LinkStates
  BY DEF Files, NamesInv, NamesTyped
<1>1. A \in Seq(Edits) /\ ToSet(A) = {Edit("unalias", n, s) : n \in {m \in DOMAIN b.aliases : b.aliases[m] = s}}
  <2>1. b.aliases \in Maps(DOMAIN Catalog)
    BY <1>0
  <2>2. ToSet(ForAliases(s, b, "unalias")) =
          {Edit("unalias", n, s) : n \in {m \in DOMAIN b.aliases : b.aliases[m] = s}}
    BY ONLY <2>1, ForAliasesAre
  <2>3. ForAliases(s, b, "unalias") \in Seq(Edits)
    BY ONLY <2>1, s \in DOMAIN Catalog, ForAliasesAre
  <2> QED
    BY <2>2, <2>3
<1>2. /\ C \in Seq(Edits)
      /\ \A o : o \in ToSet(C) <=>
            \E n \in DOMAIN b.commands :
              /\ b.commands[n][1] = s
              /\ o \in {Edit("uncommand", n, b.commands[n]), Edit("unlink", n, b.commands[n])}
  <2>1. /\ "uncommand" \in {"command", "uncommand", "link", "unlink"}
        /\ "unlink" \in {"command", "uncommand", "link", "unlink"}
        /\ b.commands \in Maps(Targets)
    BY <1>0
  <2> QED
    BY ONLY <2>1, ForCommandsAre, C = ForCommands(s, b, <<"uncommand", "unlink">>)
<1>3. e \in Edits /\ <<e>> \in Seq(Edits) /\ ToSet(<<e>>) = {e} /\ Len(<<e>>) = 1
  BY EditTyped DEF ToSet
<1> PICK AC : AC = A \o C
  OBVIOUS
<1>4. AC \in Seq(Edits) /\ ToSet(AC) = ToSet(A) \union ToSet(C)
  BY <1>1, <1>2, JoinedIsSet
<1>5. /\ todo \in Seq(Edits) /\ Len(todo) = Len(AC) + 1 /\ ToSet(todo) = ToSet(AC) \union {e}
      /\ \A i \in 1..Len(AC) : todo[i] = AC[i]
      /\ \A i \in 1..(Len(AC) + 1) : i <= Len(AC) \/ todo[i] \in {e}
  <2> PICK E : E = <<e>>
    OBVIOUS
  <2>1. todo = AC \o E /\ E \in Seq(Edits) /\ ToSet(E) = {e} /\ Len(E) = 1
    BY <1>3
  <2>2. /\ AC \o E \in Seq(Edits) /\ Len(AC \o E) = Len(AC) + Len(E)
        /\ \A i \in 1..Len(AC) : (AC \o E)[i] = AC[i]
        /\ \A i \in 1..(Len(AC) + Len(E)) : i <= Len(AC) \/ (AC \o E)[i] \in ToSet(E)
        /\ ToSet(AC \o E) = ToSet(AC) \union ToSet(E)
    BY ONLY <1>4, <2>1, JoinedIsSet, Zenon
  <2> QED
    BY ONLY <2>1, <2>2
<1>6. Undertake("withdraw", s, todo)
  BY DEF Withdraw
<1>7. /\ IsJob(job') /\ job'.kind = "withdraw" /\ job'.service = s /\ job'.todo = todo
      /\ job'.inverse = <<>> /\ job'.failed = "none" /\ job'.before = b
      /\ UNCHANGED <<aliases, commandAliases, links, activation>>
  BY ONLY <1>5, <1>6, UndertakeIs, b = Files
<1>8. InOrder(todo, s, b)
  <2> PICK m \in Nat : m = Len(AC)
    BY <1>4
  <2>1. DOMAIN AC = 1..m /\ DOMAIN todo = 1..(m + 1) /\ Len(todo) = m + 1
    BY <1>4, <1>5
  <2>2. ASSUME NEW o \in ToSet(A)
        PROVE  o.what = "unalias" /\ Edit("alias", o.name, o.to) \in Backs(s, b)
    <3>1. PICK n \in DOMAIN b.aliases : b.aliases[n] = s /\ o = Edit("unalias", n, s)
      BY <1>1, <2>2
    <3> QED
      BY <3>1, EditFields, BacksAre
  <2>3. ASSUME NEW o \in ToSet(C)
        PROVE  o.what \in {"uncommand", "unlink"} /\ Edit("link", o.name, o.to) \in Backs(s, b)
    <3>1. PICK n \in DOMAIN b.commands :
            /\ b.commands[n][1] = s
            /\ o \in {Edit("uncommand", n, b.commands[n]), Edit("unlink", n, b.commands[n])}
      BY <1>2, <2>3
    <3>2. o.what \in {"uncommand", "unlink"} /\ o.name = n /\ o.to = b.commands[n]
      BY <3>1, EditFields
    <3> QED
      BY <3>1, <3>2, BacksAre
  <2>4. ASSUME NEW i \in 1..m PROVE todo[i] \in ToSet(A) \union ToSet(C)
    BY <1>4, <1>5, <2>1 DEF ToSet
  <2>5. todo[m + 1] = e /\ e.what = "service"
    BY <1>5, EditFields
  <2>6. ASSUME NEW i \in 1..(m + 1)
        PROVE  LET o == todo[i] IN
               /\ o.what \in {"unalias", "uncommand", "unlink", "service"}
               /\ o.what = "service" <=> i = m + 1
               /\ o.what = "unalias" => Edit("alias", o.name, o.to) \in Backs(s, b)
               /\ o.what \in {"uncommand", "unlink"} => Edit("link", o.name, o.to) \in Backs(s, b)
    <3> PICK o : o = todo[i]
      OBVIOUS
    <3>1. CASE i = m + 1
      BY <2>5, <3>1
    <3>2. CASE i \in 1..m
      <4>1. o \in ToSet(A) \union ToSet(C) /\ i # m + 1
        BY <2>4, <3>2
      <4> QED
        BY <2>2, <2>3, <4>1
    <3> QED
      BY <3>1, <3>2
  <2> QED
    BY ONLY <2>1, <2>6 DEF InOrder
<1>9. ToGo(ToSet(todo), s)
  <2>1. \A n \in DOMAIN aliases : aliases[n] = s => Edit("unalias", n, s) \in ToSet(A)
    BY <1>0, <1>1
  <2>2. \A n \in DOMAIN commandAliases :
          commandAliases[n][1] = s => Edit("uncommand", n, commandAliases[n]) \in ToSet(C)
    BY <1>0, <1>2
  <2> QED
    BY <1>4, <1>5, <2>1, <2>2 DEF ToGo
<1>10. ToSet(<<>>) = {}
  BY DEF ToSet
<1>11. AllKept(b, {})
  BY <1>0 DEF AllKept, MapKept, LinksKept
<1>12. Withdrawing(s, b)'
  BY <1>0, <1>7, <1>8, <1>9, <1>10, <1>11
  DEF Withdrawing, ToGo, AllKept, LinksKept
<1> QED
  BY <1>0, <1>7, <1>12 DEF NamesInv, NamesTyped, Withdrawn

LEMMA ChangeIs ==
  ASSUME NamesInv, job.todo # <<>>
  PROVE  change \in Edits /\ later \in Seq(Edits) /\ ToSet(job.todo) = {change} \union ToSet(later)
  BY HeadTail DEF NamesInv, NamesTyped, IsJob, change, later

Taking(s, b) == job.kind = "withdraw" /\ job.failed = "none" /\ Withdrawing(s, b)
Putting(s, b) == job.kind = "withdraw" /\ job.failed # "none" /\ ~job.issues /\ Restoring(s, b)

\* What a change that was made must leave.
LEMMA MadeKeeps ==
  ASSUME NamesInv, job.todo # <<>>, NEW inverse \in Seq(Edits), Made(inverse),
         aliases' \in Maps(DOMAIN Catalog), commandAliases' \in Maps(Targets), links' \in LinkStates,
         activation' \in [DOMAIN Catalog -> {"absent", "disabled", "enabled"}],
         NEW s, s = job.service, NEW b, b = job.before,
         NEW rest, rest = ToSet(later), NEW gone, gone = ToSet(job.inverse),
         Taking(s, b) => /\ ToSet(inverse) \subseteq Backs(s, b)
                         /\ AllKept(b, gone \union ToSet(inverse))' /\ ToGo(rest, s)'
                         /\ later # <<>> => UNCHANGED activation,
         Putting(s, b) => AllKept(b, rest)' /\ UNCHANGED activation
  PROVE  NamesInv'
<1> PICK more : more = ToSet(inverse)
  OBVIOUS
<1> PICK todo : todo = later
  OBVIOUS
<1>0. NamesTyped /\ Withdrawn
  BY DEF NamesInv
<1>1. /\ IsJob(job') /\ job'.kind = job.kind /\ job'.service = s /\ job'.failed = job.failed
      /\ job'.issues = job.issues /\ job'.before = b
      /\ job.kind = "withdraw" => job'.todo = todo
      /\ job.failed = "none" => ToSet(job'.inverse) = gone \union more
  BY <1>0, MadeIs
<1>2. NamesTyped'
  BY <1>1 DEF NamesTyped
<1>3. ASSUME job.kind = "withdraw", job.failed = "none" PROVE Withdrawn'
  <2>1. Withdrawing(s, b) /\ Taking(s, b)
    BY <1>0, <1>3 DEF Withdrawn, Taking
  <2>2. InOrder(todo, s, b)
    <3>1. job.todo \in Seq(Edits) /\ InOrder(job.todo, s, b)
      BY <1>0, <2>1 DEF NamesTyped, IsJob, Withdrawing
    <3> QED
      BY <3>1, InOrderTail DEF later
  <2>3. InOrder(job'.todo, s, b) /\ rest = ToSet(job'.todo) /\ ToSet(job'.inverse) = gone \union more
    BY <1>1, <1>3, <2>2
  <2>4. todo # <<>> => activation' = b.state
    BY <2>1 DEF Withdrawing
  <2>5. gone \union more \subseteq Backs(s, b)
    BY <2>1 DEF Withdrawing
  <2>6. AllKept(b, gone \union more)' /\ ToGo(rest, s)'
    BY <2>1
  <2>7. Withdrawing(s, b)'
    BY <1>1, <1>3, <2>3, <2>4, <2>5, <2>6 DEF Withdrawing
  <2> QED
    BY <1>0, <1>1, <1>3, <2>7 DEF Withdrawn
<1>4. ASSUME job.kind = "withdraw", job.failed # "none" PROVE Withdrawn'
  <2>1. CASE job.issues
    BY <1>0, <1>1, <1>4, <2>1 DEF Withdrawn
  <2>2. CASE ~job.issues
    <3>1. Restoring(s, b) /\ Putting(s, b)
      BY <1>0, <1>4, <2>2 DEF Withdrawn, Putting
    <3>2. rest = ToSet(job'.todo) /\ rest \subseteq Backs(s, b)
      BY <1>1, <1>4, <3>1, ChangeIs DEF Restoring
    <3>3. AllKept(b, rest)' /\ activation' = b.state
      BY <3>1 DEF Restoring
    <3>4. Restoring(s, b)'
      BY <3>2, <3>3 DEF Restoring
    <3> QED
      BY <1>0, <1>1, <1>4, <3>4 DEF Withdrawn
  <2> QED
    BY <2>1, <2>2
<1>5. ASSUME job.kind # "withdraw" PROVE Withdrawn'
  BY <1>1, <1>5 DEF Withdrawn
<1>6. Withdrawn'
  BY <1>3, <1>4, <1>5
<1> QED
  BY <1>2, <1>6 DEF NamesInv

\* The change at hand while names are taken away, and while they are put back.
LEMMA TakingChange ==
  ASSUME NamesInv, job.todo # <<>>, NEW s, NEW b, Taking(s, b)
  PROVE  /\ change.what \in {"unalias", "uncommand", "unlink", "service"}
         /\ change.what = "unalias" =>
              change.name \in DOMAIN b.aliases /\ b.aliases[change.name] = s /\ change.to = s
         /\ change.what \in {"uncommand", "unlink"} =>
              /\ change.name \in DOMAIN b.commands /\ b.commands[change.name][1] = s
              /\ change.to = b.commands[change.name]
         /\ change.what = "service" => later = <<>>
         /\ AllKept(b, ToSet(job.inverse)) /\ ToGo({change} \union ToSet(later), s)
<1>1. job.todo \in Seq(Edits) /\ InOrder(job.todo, s, b)
  BY DEF NamesInv, NamesTyped, IsJob, Taking, Withdrawing
<1>2. /\ change.what \in {"unalias", "uncommand", "unlink", "service"}
      /\ change.what = "service" => later = <<>>
      /\ change.what = "unalias" => Edit("alias", change.name, change.to) \in Backs(s, b)
      /\ change.what \in {"uncommand", "unlink"} => Edit("link", change.name, change.to) \in Backs(s, b)
  BY <1>1, InOrderTail DEF change, later
<1>3. AllKept(b, ToSet(job.inverse)) /\ ToGo({change} \union ToSet(later), s)
  BY ChangeIs DEF Taking, Withdrawing
<1> QED
  BY <1>2, <1>3, BacksAre

LEMMA PuttingChange ==
  ASSUME NamesInv, job.todo # <<>>, NEW s, NEW b, Putting(s, b)
  PROVE  /\ change.what \in {"alias", "command", "link"}
         /\ change.what = "alias" =>
              change.name \in DOMAIN b.aliases /\ change.to = b.aliases[change.name]
         /\ change.what \in {"command", "link"} =>
              change.name \in DOMAIN b.commands /\ change.to = b.commands[change.name]
         /\ AllKept(b, {change} \union ToSet(later))
<1>1. change \in Backs(s, b) /\ AllKept(b, {change} \union ToSet(later))
  BY ChangeIs DEF Putting, Restoring
<1>2. change = Edit(change.what, change.name, change.to) /\ change.what \in {"alias", "command", "link"}
  BY <1>1, BacksAre
<1> PICK w, n, x : w = change.what /\ n = change.name /\ x = change.to
  OBVIOUS
<1>3. Edit(w, n, x) \in Backs(s, b)
  BY <1>1, <1>2
<1>4. w = "alias" => n \in DOMAIN b.aliases /\ b.aliases[n] = s /\ x = s
  BY <1>3, BacksAre
<1>5. w \in {"command", "link"} => n \in DOMAIN b.commands /\ x = b.commands[n]
  BY <1>3, BacksAre
<1> QED
  BY <1>1, <1>2, <1>4, <1>5

\* Links that do not change, whatever else is done.
LEMMA LinksKeptOther ==
  ASSUME NEW b, NEW back, LinksKept(b, back), UNCHANGED links, NEW o,
         NEW rest, back \subseteq {o} \union rest, o.what # "link" \/ back \subseteq rest
  PROVE  LinksKept(b, rest)'
<1>1. \A n, x : Edit("link", n, x) \in back => Edit("link", n, x) \in rest
  BY EditFields
<1> QED
  BY <1>1 DEF LinksKept

LEMMA SetAliasKeeps == ASSUME NamesInv, SetAlias PROVE NamesInv'
<1> PICK s, b, rest, gone : s = job.service /\ b = job.before /\ rest = ToSet(later) /\ gone = ToSet(job.inverse)
  OBVIOUS
<1> PICK o : o = change
  OBVIOUS
<1>1. /\ job.todo # <<>> /\ o.what = "alias" /\ aliases' = Upserted(aliases, o) /\ Made(<<>>)
      /\ UNCHANGED <<commandAliases, links, activation>>
  BY DEF SetAlias, Changing
<1>2. o.name \in ShortNames /\ o.to \in DOMAIN Catalog
  BY <1>1, ChangeIs, EditsAre
<1>3. NamesTyped
  BY DEF NamesInv
<1>4. aliases' \in Maps(DOMAIN Catalog)
  BY <1>1, <1>2, <1>3, MapUpserted DEF NamesTyped
<1>5. ~Taking(s, b)
  BY <1>1, TakingChange
<1>6. ASSUME Putting(s, b) PROVE AllKept(b, rest)'
  <2> PICK back : back = {o} \union rest
    OBVIOUS
  <2>1. AllKept(b, back) /\ o.name \in DOMAIN b.aliases /\ o.to = b.aliases[o.name]
    BY <1>1, <1>6, PuttingChange
  <2>2. MapKept(Upserted(aliases, o), b.aliases, "alias", rest)
    BY <2>1, KeptByPut DEF AllKept
  <2>3. MapKept(commandAliases, b.commands, "command", rest)
    BY <1>1, <2>1, KeptOther DEF AllKept
  <2>4. LinksKept(b, rest)'
    BY <1>1, <2>1, LinksKeptOther DEF AllKept
  <2> QED
    BY <1>1, <2>2, <2>3, <2>4 DEF AllKept
<1>7. <<>> \in Seq(Edits)
  OBVIOUS
<1> QED
  BY <1>1, <1>3, <1>4, <1>5, <1>6, <1>7, MadeKeeps DEF NamesTyped

LEMMA SetCommandKeeps == ASSUME NamesInv, SetCommand PROVE NamesInv'
<1> PICK s, b, rest, gone : s = job.service /\ b = job.before /\ rest = ToSet(later) /\ gone = ToSet(job.inverse)
  OBVIOUS
<1> PICK o : o = change
  OBVIOUS
<1>1. /\ job.todo # <<>> /\ o.what = "command" /\ commandAliases' = Upserted(commandAliases, o)
      /\ Made(<<Edit("unlink", o.name, o.to)>>)
      /\ UNCHANGED <<aliases, links, activation>>
  BY DEF SetCommand, Changing
<1>2. o.name \in ShortNames /\ o.to \in Targets
  BY <1>1, ChangeIs, EditsAre
<1>3. NamesTyped
  BY DEF NamesInv
<1>4. commandAliases' \in Maps(Targets)
  BY <1>1, <1>2, <1>3, MapUpserted DEF NamesTyped
<1>5. ~Taking(s, b)
  BY <1>1, TakingChange
<1>6. ASSUME Putting(s, b) PROVE AllKept(b, rest)'
  <2> PICK back : back = {o} \union rest
    OBVIOUS
  <2>1. AllKept(b, back) /\ o.name \in DOMAIN b.commands /\ o.to = b.commands[o.name]
    BY <1>1, <1>6, PuttingChange
  <2>2. MapKept(Upserted(commandAliases, o), b.commands, "command", rest)
    BY <2>1, KeptByPut DEF AllKept
  <2>3. MapKept(aliases, b.aliases, "alias", rest)
    BY <1>1, <2>1, KeptOther DEF AllKept
  <2>4. LinksKept(b, rest)'
    BY <1>1, <2>1, LinksKeptOther DEF AllKept
  <2> QED
    BY <1>1, <2>2, <2>3, <2>4 DEF AllKept
<1>7. <<Edit("unlink", o.name, o.to)>> \in Seq(Edits)
  BY <1>2, EditTyped
<1> QED
  BY <1>1, <1>3, <1>4, <1>5, <1>6, <1>7, MadeKeeps DEF NamesTyped

LEMMA DropAliasKeeps == ASSUME NamesInv, DropAlias PROVE NamesInv'
<1> PICK s, b, rest, gone : s = job.service /\ b = job.before /\ rest = ToSet(later) /\ gone = ToSet(job.inverse)
  OBVIOUS
<1> PICK o, e : o = change /\ e = Edit("alias", o.name, o.to)
  OBVIOUS
<1>1. /\ job.todo # <<>> /\ o.what = "unalias" /\ aliases' = Dropped(aliases, o) /\ Made(<<e>>)
      /\ UNCHANGED <<commandAliases, links, activation>>
  BY DEF DropAlias, Changing
<1>2. o.name \in ShortNames /\ o.to \in DOMAIN Catalog
  BY <1>1, ChangeIs, EditsAre
<1>3. NamesTyped
  BY DEF NamesInv
<1>4. aliases' \in Maps(DOMAIN Catalog) /\ DOMAIN aliases' = DOMAIN aliases \ {o.name}
      /\ \A n \in DOMAIN aliases' : aliases'[n] = aliases[n]
  <2> PICK p : p = Dropped(aliases, o)
    OBVIOUS
  <2>1. aliases \in Maps(DOMAIN Catalog)
    BY <1>3 DEF NamesTyped
  <2>2. p \in Maps(DOMAIN Catalog) /\ DOMAIN p = DOMAIN aliases \ {o.name} /\ \A n \in DOMAIN p : p[n] = aliases[n]
    BY ONLY <2>1, MapDropped, p = Dropped(aliases, o)
  <2> QED
    BY <1>1, <2>2
<1>5. <<e>> \in Seq(Edits) /\ ToSet(<<e>>) = {e}
  BY <1>2, EditTyped DEF ToSet
<1>6. ASSUME Taking(s, b)
      PROVE  e \in Backs(s, b) /\ AllKept(b, gone \union {e})' /\ ToGo(rest, s)'
  <2>1. /\ o.name \in DOMAIN b.aliases /\ b.aliases[o.name] = s /\ o.to = s
        /\ AllKept(b, gone) /\ ToGo({o} \union rest, s)
    BY <1>1, <1>6, TakingChange
  <2> PICK more : more = gone \union {e}
    OBVIOUS
  <2>2. e \in Backs(s, b)
    BY <2>1, BacksAre
  <2>3. Edit("alias", o.name, b.aliases[o.name]) \in more
    BY <2>1
  <2>4. MapKept(Dropped(aliases, o), b.aliases, "alias", more)
    BY <2>1, <2>3, KeptByDrop DEF AllKept
  <2>5. MapKept(commandAliases, b.commands, "command", more)
    BY <2>1, KeptMore DEF AllKept
  <2>6. LinksKept(b, more)'
    BY <1>1, <2>1 DEF AllKept, LinksKept
  <2>7. ASSUME NEW n \in DOMAIN aliases', aliases'[n] = s PROVE Edit("unalias", n, s) \in rest
    <3>1. n \in DOMAIN aliases /\ aliases[n] = s /\ n # o.name
      BY <1>4, <2>7
    <3>2. Edit("unalias", n, s) \in {o} \union rest /\ Edit("unalias", n, s).name = n
      BY <2>1, <3>1, EditFields DEF ToGo
    <3> QED
      BY <3>1, <3>2
  <2>8. ASSUME NEW n \in DOMAIN commandAliases, commandAliases[n][1] = s
        PROVE  Edit("uncommand", n, commandAliases[n]) \in rest
    <3>1. /\ Edit("uncommand", n, commandAliases[n]) \in {o} \union rest
          /\ Edit("uncommand", n, commandAliases[n]).what = "uncommand"
      BY <2>1, <2>8, EditFields DEF ToGo
    <3> QED
      BY <1>1, <3>1
  <2> QED
    BY <1>1, <2>2, <2>4, <2>5, <2>6, <2>7, <2>8 DEF AllKept, ToGo
<1>7. ~Putting(s, b)
  BY <1>1, PuttingChange
<1> QED
  BY <1>1, <1>3, <1>4, <1>5, <1>6, <1>7, MadeKeeps DEF NamesTyped

LEMMA DropCommandKeeps == ASSUME NamesInv, DropCommand PROVE NamesInv'
<1> PICK s, b, rest, gone : s = job.service /\ b = job.before /\ rest = ToSet(later) /\ gone = ToSet(job.inverse)
  OBVIOUS
<1> PICK o, e : o = change /\ e = Edit("command", o.name, o.to)
  OBVIOUS
<1>1. /\ job.todo # <<>> /\ o.what = "uncommand" /\ commandAliases' = Dropped(commandAliases, o) /\ Made(<<e>>)
      /\ UNCHANGED <<aliases, links, activation>>
  BY DEF DropCommand, Changing
<1>2. o.name \in ShortNames /\ o.to \in Targets
  BY <1>1, ChangeIs, EditsAre
<1>3. NamesTyped
  BY DEF NamesInv
<1>4. commandAliases' \in Maps(Targets) /\ DOMAIN commandAliases' = DOMAIN commandAliases \ {o.name}
      /\ \A n \in DOMAIN commandAliases' : commandAliases'[n] = commandAliases[n]
  <2> PICK p : p = Dropped(commandAliases, o)
    OBVIOUS
  <2>1. commandAliases \in Maps(Targets)
    BY <1>3 DEF NamesTyped
  <2>2. /\ p \in Maps(Targets) /\ DOMAIN p = DOMAIN commandAliases \ {o.name}
        /\ \A n \in DOMAIN p : p[n] = commandAliases[n]
    BY ONLY <2>1, MapDropped, p = Dropped(commandAliases, o)
  <2> QED
    BY <1>1, <2>2
<1>5. <<e>> \in Seq(Edits) /\ ToSet(<<e>>) = {e}
  BY <1>2, EditTyped DEF ToSet
<1>6. ASSUME Taking(s, b)
      PROVE  e \in Backs(s, b) /\ AllKept(b, gone \union {e})' /\ ToGo(rest, s)'
  <2>1. /\ o.name \in DOMAIN b.commands /\ b.commands[o.name][1] = s /\ o.to = b.commands[o.name]
        /\ AllKept(b, gone) /\ ToGo({o} \union rest, s)
    BY <1>1, <1>6, TakingChange
  <2> PICK more : more = gone \union {e}
    OBVIOUS
  <2>2. e \in Backs(s, b)
    BY <2>1, BacksAre
  <2>3. Edit("command", o.name, b.commands[o.name]) \in more
    BY <2>1
  <2>4. MapKept(Dropped(commandAliases, o), b.commands, "command", more)
    BY <2>1, <2>3, KeptByDrop DEF AllKept
  <2>5. MapKept(aliases, b.aliases, "alias", more)
    BY <2>1, KeptMore DEF AllKept
  <2>6. LinksKept(b, more)'
    BY <1>1, <2>1 DEF AllKept, LinksKept
  <2>7. ASSUME NEW n \in DOMAIN aliases, aliases[n] = s PROVE Edit("unalias", n, s) \in rest
    <3>1. Edit("unalias", n, s) \in {o} \union rest /\ Edit("unalias", n, s).what = "unalias"
      BY <2>1, <2>7, EditFields DEF ToGo
    <3> QED
      BY <1>1, <3>1
  <2>8. ASSUME NEW n \in DOMAIN commandAliases', commandAliases'[n][1] = s
        PROVE  Edit("uncommand", n, commandAliases'[n]) \in rest
    <3>1. n \in DOMAIN commandAliases /\ commandAliases'[n] = commandAliases[n] /\ n # o.name
      BY <1>4, <2>8
    <3>2. /\ Edit("uncommand", n, commandAliases[n]) \in {o} \union rest
          /\ Edit("uncommand", n, commandAliases[n]).name = n
      BY <2>1, <2>8, <3>1, EditFields DEF ToGo
    <3> QED
      BY <3>1, <3>2
  <2> QED
    BY <1>1, <2>2, <2>4, <2>5, <2>6, <2>7, <2>8 DEF AllKept, ToGo
<1>7. ~Putting(s, b)
  BY <1>1, PuttingChange
<1> QED
  BY <1>1, <1>3, <1>4, <1>5, <1>6, <1>7, MadeKeeps DEF NamesTyped

\* Nothing is left to go but what the change has taken away.
LEMMA ToGoOther ==
  ASSUME NEW s, NEW o, o.what \notin {"unalias", "uncommand"}, NEW rest, ToGo({o} \union rest, s),
         UNCHANGED <<aliases, commandAliases>>
  PROVE  ToGo(rest, s)'
<1>1. \A w \in {"unalias", "uncommand"} : \A n, x : Edit(w, n, x) # o
  BY EditFields
<1> QED
  BY <1>1 DEF ToGo

LEMMA MakeLinkKeeps == ASSUME NamesInv, MakeLink PROVE NamesInv'
<1> PICK s, b, rest, gone : s = job.service /\ b = job.before /\ rest = ToSet(later) /\ gone = ToSet(job.inverse)
  OBVIOUS
<1> PICK o : o = change
  OBVIOUS
<1> PICK u : u = IF links[o.name] = "kimbap" THEN <<>> ELSE <<Edit("unlink", o.name, o.to)>>
  OBVIOUS
<1>1. /\ job.todo # <<>> /\ o.what = "link" /\ links' = [links EXCEPT ![o.name] = "kimbap"] /\ Made(u)
      /\ UNCHANGED <<aliases, commandAliases, activation>>
  BY DEF MakeLink, Changing
<1>2. o.name \in ShortNames /\ o.to \in Targets
  BY <1>1, ChangeIs, EditsAre
<1>3. NamesTyped
  BY DEF NamesInv
<1>4. links' \in LinkStates /\ links'[o.name] = "kimbap" /\ \A n : n # o.name => links'[n] = links[n]
  BY <1>1, <1>2, <1>3 DEF NamesTyped, LinkStates
<1>5. ~Taking(s, b)
  BY <1>1, TakingChange
<1>6. ASSUME Putting(s, b) PROVE AllKept(b, rest)'
  <2> PICK back : back = {o} \union rest
    OBVIOUS
  <2>1. AllKept(b, back)
    BY <1>1, <1>6, PuttingChange
  <2>2. MapKept(aliases, b.aliases, "alias", rest)
    BY <1>1, <2>1, KeptOther DEF AllKept
  <2>3. MapKept(commandAliases, b.commands, "command", rest)
    BY <1>1, <2>1, KeptOther DEF AllKept
  <2>4. ASSUME NEW n \in DOMAIN b.commands, b.links[n] \in {"kimbap", "stale"}, n # o.name
        PROVE  links'[n] \in {"kimbap", "stale"} \/ Edit("link", n, b.commands[n]) \in rest
    <3>1. links'[n] \in {"kimbap", "stale"} \/ Edit("link", n, b.commands[n]) \in back
      BY <1>4, <2>1, <2>4 DEF AllKept, LinksKept
    <3>2. Edit("link", n, b.commands[n]) # o
      BY <2>4, EditFields
    <3> QED
      BY <3>1, <3>2
  <2>5. LinksKept(b, rest)'
    BY <1>4, <2>4 DEF LinksKept
  <2> QED
    BY <1>1, <2>2, <2>3, <2>5 DEF AllKept
<1>7. u \in Seq(Edits)
  BY <1>2, EditTyped
<1> QED
  BY <1>1, <1>3, <1>4, <1>5, <1>6, <1>7, MadeKeeps DEF NamesTyped

LEMMA DropLinkKeeps == ASSUME NamesInv, DropLink PROVE NamesInv'
<1> PICK s, b, rest, gone : s = job.service /\ b = job.before /\ rest = ToSet(later) /\ gone = ToSet(job.inverse)
  OBVIOUS
<1> PICK o, e : o = change /\ e = Edit("link", o.name, o.to)
  OBVIOUS
<1> PICK u : u = IF links' = links THEN <<>> ELSE <<e>>
  OBVIOUS
<1>1. /\ job.todo # <<>> /\ o.what = "unlink" /\ Made(u)
      /\ links' = [links EXCEPT ![o.name] = IF links[o.name] = "other" THEN links[o.name] ELSE "none"]
      /\ UNCHANGED <<aliases, commandAliases, activation>>
  BY DEF DropLink, Changing
<1>2. o.name \in ShortNames /\ o.to \in Targets
  BY <1>1, ChangeIs, EditsAre
<1>3. NamesTyped
  BY DEF NamesInv
<1>4. links' \in LinkStates /\ \A n : n # o.name => links'[n] = links[n]
  BY <1>1, <1>2, <1>3 DEF NamesTyped, LinkStates
<1>5. u \in Seq(Edits) /\ ToSet(u) = IF links' = links THEN {} ELSE {e}
  BY <1>2, EditTyped DEF ToSet
<1>6. ASSUME Taking(s, b)
      PROVE  ToSet(u) \subseteq Backs(s, b) /\ AllKept(b, gone \union ToSet(u))' /\ ToGo(rest, s)'
  <2>1. /\ o.name \in DOMAIN b.commands /\ b.commands[o.name][1] = s /\ o.to = b.commands[o.name]
        /\ AllKept(b, gone) /\ ToGo({o} \union rest, s)
    BY <1>1, <1>6, TakingChange
  <2> PICK more : more = gone \union ToSet(u)
    OBVIOUS
  <2>2. e \in Backs(s, b)
    BY <2>1, BacksAre
  <2>3. MapKept(aliases, b.aliases, "alias", more)
    BY <2>1, KeptMore DEF AllKept
  <2>4. MapKept(commandAliases, b.commands, "command", more)
    BY <2>1, KeptMore DEF AllKept
  <2>5. ASSUME NEW n \in DOMAIN b.commands, b.links[n] \in {"kimbap", "stale"}
        PROVE  links'[n] \in {"kimbap", "stale"} \/ Edit("link", n, b.commands[n]) \in more
    <3>1. links[n] \in {"kimbap", "stale"} \/ Edit("link", n, b.commands[n]) \in gone
      BY <2>1, <2>5 DEF AllKept, LinksKept
    <3>2. CASE links' = links
      BY <3>1, <3>2
    <3>3. CASE links' # links
      <4>1. e \in more
        BY <1>5, <3>3
      <4> QED
        BY <1>4, <2>1, <3>1, <4>1
    <3> QED
      BY <3>2, <3>3
  <2>6. LinksKept(b, more)'
    BY <2>5 DEF LinksKept
  <2>7. ToGo(rest, s)'
    BY <1>1, <2>1, ToGoOther
  <2> QED
    BY <1>1, <1>5, <2>2, <2>3, <2>4, <2>6, <2>7 DEF AllKept
<1>7. ~Putting(s, b)
  BY <1>1, PuttingChange
<1> QED
  BY <1>1, <1>3, <1>4, <1>5, <1>6, <1>7, MadeKeeps DEF NamesTyped

LEMMA PutServiceKeeps == ASSUME NamesInv, PutService PROVE NamesInv'
<1> PICK s, b, rest, gone : s = job.service /\ b = job.before /\ rest = ToSet(later) /\ gone = ToSet(job.inverse)
  OBVIOUS
<1> PICK o : o = change
  OBVIOUS
<1>1. /\ job.todo # <<>> /\ o.what = "service" /\ Made(<<>>)
      /\ activation' = [activation EXCEPT ![o.name] = o.to]
      /\ UNCHANGED <<aliases, commandAliases, links>>
  BY DEF PutService, Changing
<1>2. o.to \in {"absent", "disabled", "enabled"}
  BY <1>1, ChangeIs, EditsAre
<1>3. NamesTyped
  BY DEF NamesInv
<1>4. activation' \in [DOMAIN Catalog -> {"absent", "disabled", "enabled"}]
  BY <1>1, <1>2, <1>3 DEF NamesTyped
<1>5. <<>> \in Seq(Edits) /\ ToSet(<<>>) = {}
  BY DEF ToSet
<1>6. ASSUME Taking(s, b)
      PROVE  /\ ToSet(<<>>) \subseteq Backs(s, b) /\ AllKept(b, gone \union ToSet(<<>>))' /\ ToGo(rest, s)'
             /\ later = <<>>
  <2>1. AllKept(b, gone) /\ ToGo({o} \union rest, s) /\ later = <<>>
    BY <1>1, <1>6, TakingChange
  <2>2. ToGo(rest, s)'
    BY <1>1, <2>1, ToGoOther
  <2> PICK more : more = gone \union ToSet(<<>>)
    OBVIOUS
  <2>3. AllKept(b, more)
    BY <1>5, <2>1
  <2>4. AllKept(b, more)'
    BY <1>1, <2>3 DEF AllKept, LinksKept
  <2> QED
    BY <1>5, <2>1, <2>2, <2>4
<1>7. ~Putting(s, b)
  BY <1>1, PuttingChange
<1> QED
  BY <1>1, <1>3, <1>4, <1>5, <1>6, <1>7, MadeKeeps DEF NamesTyped

\* A step that only changes what is to be done, of another kind of command.
LEMMA OthersGoOn ==
  ASSUME NamesInv, job.todo # <<>>, change.what \in {"shortcut", "settle"}, NEW todo \in Seq(Edits),
         job' = [job EXCEPT !.todo = todo], UNCHANGED <<aliases, commandAliases, links, activation>>
  PROVE  NamesInv'
<1> PICK s, b : s = job.service /\ b = job.before
  OBVIOUS
<1>1. ~Taking(s, b) /\ ~Putting(s, b)
  BY TakingChange, PuttingChange
<1>2. IsJob(job') /\ job'.kind = job.kind /\ job'.service = s /\ job'.failed = job.failed
      /\ job'.issues = job.issues /\ job'.before = b
  BY DEF NamesInv, NamesTyped, IsJob
<1>3. Withdrawn'
  BY <1>1, <1>2 DEF NamesInv, Withdrawn, Taking, Putting
<1> QED
  BY <1>2, <1>3 DEF NamesInv, NamesTyped

LEMMA ShortcutKeeps == ASSUME NamesInv, Shortcut PROVE NamesInv'
<1> PICK tries : /\ tries \in {<<>>, <<Edit("link", change.name, change.to)>>,
                               <<Edit("link", change.name, change.to)>>
                                 \o <<Edit("command", change.name, change.to)>>}
                 /\ job' = [job EXCEPT !.todo = tries \o later]
  <2>1. <<Edit("link", change.name, change.to)>> \o <<>> = <<Edit("link", change.name, change.to)>>
    OBVIOUS
  <2> QED
    BY <2>1, Zenon DEF Shortcut
<1>1. /\ job.todo # <<>> /\ change.what = "shortcut" /\ UNCHANGED <<aliases, commandAliases, links, activation>>
  BY DEF Shortcut, Changing
<1>2. change.name \in ShortNames /\ change.to \in Targets /\ later \in Seq(Edits)
  BY <1>1, ChangeIs, EditsAre
<1>3. Edit("link", change.name, change.to) \in Edits /\ Edit("command", change.name, change.to) \in Edits
  BY <1>2, EditTyped
<1>4. tries \in Seq(Edits)
  <2> PICK l, c : l = Edit("link", change.name, change.to) /\ c = Edit("command", change.name, change.to)
    OBVIOUS
  <2>1. <<l>> \in Seq(Edits) /\ <<c>> \in Seq(Edits) /\ <<>> \in Seq(Edits)
    BY <1>3, OneEdit
  <2>2. <<l>> \o <<c>> \in Seq(Edits)
    BY <2>1
  <2> QED
    BY <2>1, <2>2
<1>5. tries \o later \in Seq(Edits)
  BY <1>2, <1>4
<1> QED
  BY <1>1, <1>5, OthersGoOn

LEMMA SettleKeeps == ASSUME NamesInv, Settle PROVE NamesInv'
<1> DEFINE rejected == {o \in ToSet(job.inverse) : o.to # Expected(job.service, o.name)}
<1>1. /\ job.todo # <<>> /\ change.what = "settle" /\ UNCHANGED <<aliases, commandAliases, links, activation>>
      /\ job' = [job EXCEPT !.todo = Selected(job.inverse, rejected)]
  BY DEF Settle, Changing
<1>2. Selected(job.inverse, rejected) \in Seq(Edits)
  <2>1. job.inverse \in Seq(Edits)
    BY DEF NamesInv, NamesTyped, IsJob
  <2> QED
    BY <2>1, SelectedIsSet
<1> QED
  BY <1>1, <1>2, OthersGoOn

LEMMA InversesAre ==
  ASSUME NamesInv, NEW w
  PROVE  Inverses(w) \in Seq(Edits) /\ ToSet(Inverses(w)) = {o \in ToSet(job.inverse) : o.what = w}
<1>1. job.inverse \in Seq(Edits)
  BY DEF NamesInv, NamesTyped, IsJob
<1> DEFINE S == {o \in ToSet(job.inverse) : o.what = w}
<1>2. Selected(job.inverse, S) \in Seq(Edits) /\ ToSet(Selected(job.inverse, S)) = ToSet(job.inverse) \intersect S
  BY <1>1, SelectedIsSet
<1> QED
  BY <1>2 DEF Inverses

LEMMA RecoveryIs ==
  ASSUME NamesInv, job.todo # <<>>
  PROVE  /\ Recovery \in Seq(Edits)
         /\ \A s, b : s = job.service /\ b = job.before /\ Taking(s, b) =>
              ToSet(Recovery) \subseteq Backs(s, b) /\ AllKept(b, ToSet(Recovery))
<1> PICK s, b : s = job.service /\ b = job.before
  OBVIOUS
<1> PICK gone : gone = ToSet(job.inverse)
  OBVIOUS
<1>1. \A w : Inverses(w) \in Seq(Edits) /\ ToSet(Inverses(w)) = {o \in gone : o.what = w}
  BY InversesAre
<1>2. Taking(s, b) => /\ change.what \in {"unalias", "uncommand", "unlink", "service"}
                      /\ gone \subseteq Backs(s, b) /\ AllKept(b, gone)
  BY TakingChange DEF Taking, Withdrawing
<1>3. AllKept(b, gone) => \A more : gone \subseteq more => AllKept(b, more)
  BY KeptMore DEF AllKept, LinksKept
<1>4. CASE job.kind = "withdraw" /\ change.what = "service"
  <2>1. Recovery = Restore
    BY <1>4 DEF Recovery
  <2>2. /\ s \in DOMAIN Catalog /\ b.aliases \in Maps(DOMAIN Catalog) /\ b.commands \in Maps(Targets)
    BY <1>4 DEF NamesInv, Withdrawn
  <2>3. Restore \in Seq(Edits) /\ ToSet(Restore) = Backs(s, b)
    BY <2>2, RestoreIs
  <2> QED
    BY <1>2, <1>3, <2>1, <2>3
<1>5. CASE job.kind = "withdraw" /\ change.what # "service"
  <2> PICK A, C, L : A = Inverses("alias") /\ C = Inverses("command") /\ L = Inverses("link")
    OBVIOUS
  <2>1. Recovery = A \o C \o L
    BY <1>5 DEF Recovery
  <2>2. A \in Seq(Edits) /\ C \in Seq(Edits) /\ L \in Seq(Edits)
    BY <1>1
  <2>3. A \o C \in Seq(Edits) /\ ToSet(A \o C) = ToSet(A) \union ToSet(C)
    BY <2>2, JoinedIsSet
  <2>4. (A \o C) \o L \in Seq(Edits) /\ ToSet((A \o C) \o L) = ToSet(A \o C) \union ToSet(L)
    <3> PICK J : J = A \o C
      OBVIOUS
    <3>1. J \in Seq(Edits)
      BY <2>3
    <3>2. J \o L \in Seq(Edits) /\ ToSet(J \o L) = ToSet(J) \union ToSet(L)
      BY ONLY <2>2, <3>1, JoinedIsSet
    <3> QED
      BY <3>2
  <2>5. ToSet(Recovery) = {o \in gone : o.what \in {"alias", "command", "link"}}
    BY <1>1, <2>1, <2>3, <2>4
  <2>6. gone \subseteq Backs(s, b) => ToSet(Recovery) = gone
    BY <2>5, BacksAre
  <2> QED
    BY <1>2, <2>1, <2>4, <2>6
<1>6. CASE job.kind # "withdraw"
  <2>1. Recovery \in {Inverses("command"), Inverses("unlink"), <<>>}
    BY <1>6 DEF Recovery
  <2>2. Recovery \in Seq(Edits)
    <3>1. Inverses("command") \in Seq(Edits) /\ Inverses("unlink") \in Seq(Edits)
      BY <1>1
    <3>2. <<>> \in Seq(Edits)
      OBVIOUS
    <3> QED
      BY ONLY <2>1, <3>1, <3>2
  <2>3. \A x, y : ~Taking(x, y)
    BY <1>6 DEF Taking
  <2> QED
    BY <2>2, <2>3
<1> QED
  BY <1>4, <1>5, <1>6

LEMMA ChangeFailsKeeps == ASSUME NamesInv, ChangeFails PROVE NamesInv'
<1> PICK s, b : s = job.service /\ b = job.before
  OBVIOUS
<1>1. /\ job.todo # <<>> /\ change.what \notin {"shortcut", "settle"}
      /\ job' = IF job.failed # "none" THEN [job EXCEPT !.todo = Following, !.issues = TRUE]
                ELSE IF Skips THEN [job EXCEPT !.todo = Following]
                ELSE [job EXCEPT !.todo = Recovery, !.failed = change.what]
      /\ UNCHANGED links \/ (change.what = "link" /\ links' = [links EXCEPT ![change.name] = "none"])
      /\ UNCHANGED <<aliases, commandAliases, activation>>
  BY DEF ChangeFails
<1>2. NamesTyped /\ Withdrawn /\ IsJob(job)
  BY DEF NamesInv, NamesTyped
<1>3. links' \in LinkStates
  BY <1>2, <1>1 DEF NamesTyped, LinkStates
<1>4. later \in Seq(Edits) /\ (later # <<>> => Tail(later) \in Seq(Edits))
  BY <1>1, ChangeIs, HeadTail
<1>5. Following \in Seq(Edits)
  BY <1>4 DEF Following, LinkFollows, EntryGoesToo, EntryFollows
<1>6. Recovery \in Seq(Edits)
  BY <1>1, RecoveryIs
<1>7. change \in Edits /\ change.what # "none"
  BY <1>1, ChangeIs, EditsAre
<1>8. CASE job.failed # "none"
  <2>1. IsJob(job') /\ job'.kind = job.kind /\ job'.service = s /\ job'.before = b
        /\ job'.failed # "none" /\ job'.issues
    BY <1>2, <1>1, <1>5, <1>8 DEF IsJob
  <2>2. Withdrawn'
    BY <1>2, <2>1 DEF Withdrawn
  <2> QED
    BY <1>2, <1>1, <1>3, <2>1, <2>2 DEF NamesInv, NamesTyped
<1>9. CASE job.failed = "none" /\ Skips
  <2>1. IsJob(job') /\ job'.kind = "activate"
    BY <1>2, <1>1, <1>5, <1>9 DEF IsJob, Skips
  <2>2. Withdrawn'
    BY <2>1 DEF Withdrawn
  <2> QED
    BY <1>2, <1>1, <1>3, <2>1, <2>2 DEF NamesInv, NamesTyped
<1>10. CASE job.failed = "none" /\ ~Skips
  <2>1. IsJob(job') /\ job'.kind = job.kind /\ job'.service = s /\ job'.before = b
        /\ job'.todo = Recovery /\ job'.failed = change.what /\ job'.issues = job.issues
    BY <1>2, <1>1, <1>6, <1>10 DEF IsJob
  <2> PICK back : back = ToSet(Recovery)
    OBVIOUS
  <2>2. ASSUME job.kind = "withdraw" PROVE Withdrawn'
    <3>1. Taking(s, b)
      BY <1>2, <1>10, <2>2 DEF Withdrawn, Taking
    <3>2. back \subseteq Backs(s, b) /\ AllKept(b, back)
      BY <1>1, <3>1, RecoveryIs
    <3>3. UNCHANGED links /\ activation = b.state
      BY <1>1, <3>1, TakingChange DEF Taking, Withdrawing
    <3>4. Restoring(s, b)'
      BY <1>1, <2>1, <3>2, <3>3 DEF Restoring, AllKept, LinksKept
    <3> QED
      BY <1>2, <1>7, <2>1, <2>2, <3>4 DEF Withdrawn
  <2>3. ASSUME job.kind # "withdraw" PROVE Withdrawn'
    BY <2>1, <2>3 DEF Withdrawn
  <2> QED
    BY <1>2, <1>1, <1>3, <2>1, <2>2, <2>3 DEF NamesInv, NamesTyped
<1> QED
  BY <1>8, <1>9, <1>10

LEMMA NamesInvStep == ASSUME NamesInv, [AliasNext]_aliasVars PROVE NamesInv'
<1>1. ASSUME NEW n \in ShortNames,
             (\E s \in DOMAIN Catalog : SetService(n, s)) \/ (\E target \in Targets : SetAction(n, target))
             \/ RemoveAlias(n)
      PROVE  NamesInv'
  BY <1>1, SetBegins, RemoveBegins
<1>2. ASSUME NEW s \in DOMAIN Catalog, Install(s) \/ Enable(s) \/ Update(s)
      PROVE  NamesInv'
  <2>1. activation[s] \in {"absent", "disabled", "enabled"}
    BY DEF NamesInv, NamesTyped
  <2>2. \E to \in {"absent", "disabled", "enabled"} : Activate(s, to)
    BY <1>2, <2>1 DEF Install, Enable, Update
  <2> QED
    BY <2>2, ActivateBegins
<1>3. ASSUME NEW s \in DOMAIN Catalog, Disable(s) \/ RemoveService(s) PROVE NamesInv'
  BY <1>3, WithdrawBegins DEF Disable, RemoveService
<1>4. CASE SetAlias \/ DropAlias \/ SetCommand \/ DropCommand \/ MakeLink \/ DropLink \/ PutService
  BY <1>4, SetAliasKeeps, DropAliasKeeps, SetCommandKeeps, DropCommandKeeps, MakeLinkKeeps,
     DropLinkKeeps, PutServiceKeeps
<1>5. CASE Shortcut \/ Settle \/ ChangeFails
  BY <1>5, ShortcutKeeps, SettleKeeps, ChangeFailsKeeps
<1>6. CASE EndCommand
  <2>1. IsJob(job') /\ job'.kind = "none" /\ UNCHANGED <<aliases, commandAliases, links, activation>>
    BY <1>6 DEF EndCommand, NoJob, IsJob
  <2> QED
    BY <2>1 DEF NamesInv, NamesTyped, Withdrawn
<1>7. CASE UNCHANGED aliasVars
  BY <1>7 DEF aliasVars, NamesInv, NamesTyped, Withdrawn, Withdrawing, Restoring, AllKept, LinksKept, ToGo
<1> QED
  BY <1>1, <1>2, <1>3, <1>4, <1>5, <1>6, <1>7 DEF AliasNext

LEMMA NamesInvGives == NamesInv => WithdrawIsAllOrNothing
<1> SUFFICES ASSUME NamesInv, Ended, job.kind = "withdraw" PROVE WithdrawIsAllOrNothing
  BY DEF WithdrawIsAllOrNothing
<1> PICK s, b : s = job.service /\ b = job.before
  OBVIOUS
<1>1. job.todo = <<>> /\ ToSet(<<>>) = {}
  BY DEF Ended, ToSet
<1>2. NamesTyped /\ Withdrawn
  BY DEF NamesInv
<1>3. ASSUME job.failed = "none"
      PROVE  AliasesOf(s, Files) = <<>> /\ CommandsOf(s, Files) = <<>>
  <2>1. ToGo({}, s)
    BY <1>1, <1>2, <1>3 DEF Withdrawn, Withdrawing
  <2>2. /\ {n \in DOMAIN aliases : aliases[n] = s} = {}
        /\ {n \in DOMAIN commandAliases : commandAliases[n][1] = s} = {}
    BY <2>1 DEF ToGo
  <2>3. SetToSeq({}) = <<>>
    BY SetToSeqIs, FS_EmptySet
  <2> QED
    BY <2>2, <2>3 DEF AliasesOf, CommandsOf, Files
<1>4. ASSUME job.failed # "none", ~job.issues
      PROVE  /\ aliases = b.aliases /\ commandAliases = b.commands /\ activation = b.state
             /\ \A n \in DOMAIN commandAliases :
                  b.links[n] \in {"kimbap", "stale"} => links[n] \in {"kimbap", "stale"}
  <2>1. AllKept(b, {}) /\ activation = b.state
    BY <1>1, <1>2, <1>4 DEF Withdrawn, Restoring
  <2>2. b.aliases \in Maps(DOMAIN Catalog) /\ b.commands \in Maps(Targets)
    BY <1>2 DEF Withdrawn
  <2>3. /\ aliases = [n \in DOMAIN aliases |-> aliases[n]] /\ b.aliases = [n \in DOMAIN b.aliases |-> b.aliases[n]]
        /\ commandAliases = [n \in DOMAIN commandAliases |-> commandAliases[n]]
        /\ b.commands = [n \in DOMAIN b.commands |-> b.commands[n]]
    BY <1>2, <2>2, MapIs DEF NamesTyped
  <2>4. aliases = b.aliases
    BY <2>1, <2>3 DEF AllKept, MapKept
  <2>5. commandAliases = b.commands
    BY <2>1, <2>3 DEF AllKept, MapKept
  <2> QED
    BY <2>1, <2>4, <2>5 DEF AllKept, LinksKept
<1> QED
  BY <1>3, <1>4 DEF WithdrawIsAllOrNothing

LEMMA NamesInvTyped == NamesInv => AliasTypeOK
  BY MapIs DEF NamesInv, NamesTyped, AliasTypeOK, LinkStates

\* Every short name in the configuration stands for a service or for an action of
\* one, whatever was set, suggested, taken away or put back (upsertConfigMapEntry).
THEOREM NamesTypeCorrect == AliasSpec => []AliasTypeOK
  BY NamesInvInit, NamesInvStep, NamesInvTyped, PTL DEF AliasSpec

\* Disabling or removing a service leaves none of its short names, or, when it fails
\* and what was done can be undone, all of them as they were, for any services,
\* any names and any order of the changes and failures (withServiceAliasCleanupRollback).
THEOREM NamesGoTogether == AliasSpec => []WithdrawIsAllOrNothing
  BY NamesInvInit, NamesInvStep, NamesInvGives, PTL DEF AliasSpec
=============================================================================
