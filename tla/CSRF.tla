-------------------------------- MODULE CSRF --------------------------------
(***************************************************************************)
(* The CSRF middleware of a site open in several tabs of one browser.  A   *)
(* read of a page stores a new token for the session, under one key, and   *)
(* returns it in a header and in a cookie; a write is accepted if its      *)
(* header carries the token stored.  Responses overtake one another, the   *)
(* store fails, tokens and cookies expire, and the user logs in while      *)
(* pages are open.  A refused write is retried after a reload, as the      *)
(* middleware's answer asks.  A request that the middleware passes on      *)
(* unseen (it is disabled, the path is excluded or a mobile one, there is  *)
(* a Bearer token or a WebSocket upgrade) is exempt.                       *)
(*                                                                         *)
(* Tokens are random; a new one is a value that nobody holds.              *)
(***************************************************************************)
EXTENDS Integers

CONSTANTS
  Tabs,
  Writers,          \* the tabs in which the user writes
  CsrfTokens,       \* more of them than anybody can hold at a time
  NoToken,          \* the empty string
  TokenExpiry,
  MaxLoads, MaxCsrfFaults, MaxCsrfTicks, MaxWishes   \* bounds

ASSUME CSRFAssumption ==
  Writers \subseteq Tabs /\ NoToken \notin CsrfTokens /\ TokenExpiry \in Nat

VARIABLES
  session,      \* the browser has a session (user_id or session_id)
  stored,       \* the session's token in Redis
  storedLife,   \* its time to live
  jar, jarLife, \* the _csrf cookie of the browser, with its Max-Age
  page,         \* the token a tab took from its last response's header
  tabPc,        \* "idle", "reading", "loading", "writing", "refused"
  carried,      \* header and cookie of the request or response on its way,
                \*   and whether the request is exempt
  wishes,       \* writes the user still wants to make, per tab
  spent,        \* [loads, faults, ticks, wishes] used up
  \* history
  current       \* the token of the last read whose Set took effect

csrfVars == <<session, stored, storedLife, jar, jarLife, page, tabPc, carried,
              wishes, spent, current>>

Nothing == [header |-> NoToken, cookie |-> NoToken, exempt |-> FALSE]

\* Nobody looks at the tokens of an exempt request.
Exempt == [Nothing EXCEPT !.exempt = TRUE]

CSRFInit ==
  /\ session = FALSE
  /\ stored = NoToken /\ storedLife = 0
  /\ jar = NoToken /\ jarLife = 0
  /\ page = [t \in Tabs |-> NoToken]
  /\ tabPc = [t \in Tabs |-> "idle"]
  /\ carried = [t \in Tabs |-> Nothing]
  /\ wishes = [t \in Tabs |-> 0]
  /\ spent = [loads |-> 0, faults |-> 0, ticks |-> 0, wishes |-> 0]
  /\ current = NoToken

Goto(t, pc, c) ==
  /\ tabPc' = [tabPc EXCEPT ![t] = pc]
  /\ carried' = [carried EXCEPT ![t] = c]

\* A fault happens, or not, within its bound.
Faulty(fault) ==
  /\ fault => spent.faults < MaxCsrfFaults
  /\ spent' = [spent EXCEPT !.faults = IF fault THEN @ + 1 ELSE @]

-----------------------------------------------------------------------------
(* The browser                                                             *)

LogIn ==
  /\ ~session /\ session' = TRUE
  /\ UNCHANGED <<stored, storedLife, jar, jarLife, page, tabPc, carried,
                 wishes, spent, current>>

\* The user opens a page in the tab, or wants to write from it.
Load(t) ==
  /\ tabPc[t] = "idle" /\ wishes[t] = 0 /\ spent.loads < MaxLoads
  /\ spent' = [spent EXCEPT !.loads = @ + 1]
  /\ \E c \in {Nothing, Exempt} : Goto(t, "reading", c)
  /\ UNCHANGED <<session, stored, storedLife, jar, jarLife, page, wishes,
                 current>>

Wish(t) ==
  /\ t \in Writers /\ spent.wishes < MaxWishes
  /\ spent' = [spent EXCEPT !.wishes = @ + 1]
  /\ wishes' = [wishes EXCEPT ![t] = @ + 1]
  /\ UNCHANGED <<session, stored, storedLife, jar, jarLife, page, tabPc,
                 carried, current>>

\* The page's script sends the token of the last response or of the cookie.
Write(t) ==
  /\ tabPc[t] = "idle" /\ wishes[t] > 0
  /\ \/ \E token \in {page[t], jar} :
          Goto(t, "writing", [Nothing EXCEPT !.header = token, !.cookie = jar])
     \/ Goto(t, "writing", Exempt)
  /\ UNCHANGED <<session, stored, storedLife, jar, jarLife, page, wishes,
                 spent, current>>

\* "Please refresh the page and try again."  The page is not an exempt one, or
\* the reload would give no token.
Reload(t) ==
  /\ tabPc[t] = "refused" /\ Goto(t, "reading", Nothing)
  /\ UNCHANGED <<session, stored, storedLife, jar, jarLife, page, wishes,
                 spent, current>>

\* A response arrives.  One without a token leaves the tab and the jar alone.
Loaded(t) ==
  /\ tabPc[t] = "loading"
  /\ IF carried[t] = Nothing THEN UNCHANGED <<page, jar, jarLife>>
     ELSE /\ page' = [page EXCEPT ![t] = carried[t].header]
          /\ jar' = carried[t].cookie /\ jarLife' = TokenExpiry
  /\ Goto(t, "idle", Nothing)
  /\ UNCHANGED <<session, stored, storedLife, wishes, spent, current>>

-----------------------------------------------------------------------------
(* The middleware                                                          *)

Held == {stored, jar} \cup {page[t] : t \in Tabs}
          \cup {carried[t].header : t \in Tabs}
          \cup {carried[t].cookie : t \in Tabs}
GenerateCSRFToken == CHOOSE token \in CsrfTokens : token \notin Held

\* Mutant: store.Set keeps a token that is there (SET NX).
StoreSetIfAbsent(token) ==
  IF stored = NoToken
  THEN stored' = token /\ storedLife' = TokenExpiry /\ current' = token
  ELSE UNCHANGED <<stored, storedLife>> /\ current' = token

\* store.Set overwrites the session's token.
StoreSet(token) ==
  stored' = token /\ storedLife' = TokenExpiry /\ current' = token

\* An exempt request goes on to the handler: no token for a read, no check of
\* a write.
ServeExempt(t) ==
  /\ carried[t].exempt
  /\ \/ /\ tabPc[t] = "reading" /\ Goto(t, "loading", Nothing)
        /\ UNCHANGED wishes
     \/ /\ tabPc[t] = "writing" /\ Goto(t, "idle", Nothing)
        /\ wishes' = [wishes EXCEPT ![t] = @ - 1]
  /\ UNCHANGED <<session, stored, storedLife, jar, jarLife, page, spent,
                 current>>

\* A read: the token is returned whether or not store.Set reports an error,
\* and is not stored at all without a session; where rand.Read fails there is
\* none.  A Set that reports an error may have taken effect.
ServeRead(t) ==
  /\ tabPc[t] = "reading" /\ ~carried[t].exempt
  /\ \E rand, set, reported \in BOOLEAN :
       LET token == GenerateCSRFToken IN
       /\ Faulty(~rand \/ reported) /\ (~set => reported)
       /\ IF rand /\ set /\ session THEN StoreSet(token)
          ELSE UNCHANGED <<stored, storedLife, current>>
       /\ Goto(t, "loading",
               IF rand THEN [Nothing EXCEPT !.header = token, !.cookie = token]
               ELSE Nothing)
  /\ UNCHANGED <<session, jar, jarLife, page, wishes>>

\* Mutant: the fallback compares header and cookie only.
ValidateCSRFTokenDoubleSubmit(r) ==
  \/ r.header # NoToken /\ r.header = stored
  \/ r.header # NoToken /\ r.cookie # NoToken /\ r.header = r.cookie

\* The header's token is the stored one, or the cookie's and the stored one.
ValidateCSRFToken(r) ==
  \/ r.header # NoToken /\ r.header = stored
  \/ /\ r.header # NoToken /\ r.cookie # NoToken
     /\ r.header = r.cookie /\ r.header = stored

\* A write: not checked without a session; refused if store.Get fails.
ServeWrite(t) ==
  /\ tabPc[t] = "writing" /\ ~carried[t].exempt
  /\ \E get \in BOOLEAN :
       /\ Faulty(~get)
       /\ IF ~session \/ (get /\ stored # NoToken
                              /\ ValidateCSRFToken(carried[t]))
          THEN /\ Goto(t, "idle", Nothing)
               /\ wishes' = [wishes EXCEPT ![t] = @ - 1]
          ELSE Goto(t, "refused", Nothing) /\ UNCHANGED wishes
  /\ UNCHANGED <<session, stored, storedLife, jar, jarLife, page, current>>

\* Redis drops the token, and the browser the cookie, at their time.
CSRFTick ==
  /\ spent.ticks < MaxCsrfTicks /\ storedLife + jarLife > 0
  /\ spent' = [spent EXCEPT !.ticks = @ + 1]
  /\ storedLife' = IF storedLife > 0 THEN storedLife - 1 ELSE 0
  /\ stored' = IF storedLife > 1 THEN stored ELSE NoToken
  /\ current' = IF storedLife > 1 THEN current ELSE NoToken
  /\ jarLife' = IF jarLife > 0 THEN jarLife - 1 ELSE 0
  /\ jar' = IF jarLife > 1 THEN jar ELSE NoToken
  /\ UNCHANGED <<session, page, tabPc, carried, wishes>>

CSRFNext ==
  \/ LogIn \/ CSRFTick
  \/ \E t \in Tabs : \/ Load(t) \/ Wish(t) \/ Write(t) \/ Reload(t) \/ Loaded(t)
                     \/ ServeExempt(t) \/ ServeRead(t) \/ ServeWrite(t)

CSRFSpec == CSRFInit /\ [][CSRFNext]_csrfVars

\* A write of a session that is not exempt is accepted only with the token of
\* the latest read of that session that was stored and has not expired, also
\* when the store reported an error for it: no token that an earlier
\* page, a response that came late, or a page from before the login still
\* holds gets through, and the cookie fallback of validateCSRFToken admits
\* nothing that the comparison with the store refuses.
AcceptedIsCurrent ==
  [][\A t \in Tabs :
       (/\ session /\ ~carried[t].exempt
        /\ tabPc[t] = "writing" /\ tabPc'[t] = "idle")
         => carried[t].header = current /\ current # NoToken]_csrfVars

\* Refreshing and trying again works: while the store's faults and the loads
\* of other tabs come to an end, every write the user wants to make is
\* accepted at last, also from a page that was open before the login.
WriteSucceeds == \A t \in Writers : wishes[t] > 0 ~> wishes[t] = 0

\* The inductive invariant: the store holds the latest token or none.
CSRFInv ==
  /\ tabPc \in [Tabs -> {"idle", "reading", "loading", "writing", "refused"}]
  /\ stored = current
=============================================================================
