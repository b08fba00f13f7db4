---------------------------- MODULE ServiceToken ----------------------------
(***************************************************************************)
(* jwt.ServiceTokenProvider: one cached service token, shared by the       *)
(* goroutines that call other services (InjectAuth, Token), and minted     *)
(* anew under the provider's mutex when it is missing or within            *)
(* RefreshBuffer of its expiry.  A token is represented by the number of   *)
(* ticks it has left; 0 stands for no token and for an expired one.  Its   *)
(* exp claim is the expiry that Mint returns, cut to whole seconds, so the *)
(* server sees up to Truncated ticks less than the provider reckons with.  *)
(***************************************************************************)
EXTENDS Integers

CONSTANTS
  Requesters,      \* goroutines
  NoRequester,     \* the mutex is free
  TokenTTL,        \* lifetime of a minted token
  RefreshBuffer,
  MintDelay,       \* bound: ticks from the issue of a token to its arrival
  Truncated        \* what NewNumericDate may cut off

ASSUME ServiceTokenAssumption ==
  /\ NoRequester \notin Requesters
  /\ TokenTTL \in Nat /\ RefreshBuffer \in Nat /\ MintDelay \in Nat
  /\ Truncated \in Nat /\ RefreshBuffer > Truncated
  /\ TokenTTL > RefreshBuffer + MintDelay \* the issuer's TTL fits the buffer

VARIABLES
  tokenMu,     \* holder of p.mu while it is minting
  cachedLife,  \* ticks left to p.expiresAt
  cachedClaim, \* ticks left of p.token by its exp claim
  tokenPc,     \* "idle", "locking", "asking", "receiving" (a mint), "calling"
  heldLife,    \* ticks left of the token in the goroutine's hands
  heldFor      \* ticks since Token returned it, or since it was issued

cachedVars == <<cachedLife, cachedClaim>>
tokenVars == <<tokenMu, cachedLife, cachedClaim, tokenPc, heldLife, heldFor>>

TokenInit ==
  /\ tokenMu = NoRequester /\ cachedLife = 0 /\ cachedClaim = 0
  /\ tokenPc = [c \in Requesters |-> "idle"]
  /\ heldLife = [c \in Requesters |-> 0]
  /\ heldFor = [c \in Requesters |-> 0]

Holds(c, pc, life) ==
  /\ tokenPc' = [tokenPc EXCEPT ![c] = pc]
  /\ heldLife' = [heldLife EXCEPT ![c] = life]
  /\ heldFor' = [heldFor EXCEPT ![c] = 0]

\* InjectAuth is called and waits for p.mu.
TokenCall(c) ==
  /\ tokenPc[c] = "idle" /\ Holds(c, "locking", 0)
  /\ UNCHANGED <<tokenMu, cachedVars>>

\* Mutant: !now.Add(buffer).After(expiresAt).
CacheUsableAtBoundary == cachedLife >= RefreshBuffer

\* now.Add(buffer).Before(expiresAt)
CacheUsable == cachedLife > RefreshBuffer

\* Locked, and the cached token serves.
TokenCached(c) ==
  /\ tokenPc[c] = "locking" /\ tokenMu = NoRequester /\ CacheUsable
  /\ Holds(c, "calling", cachedClaim)
  /\ UNCHANGED <<tokenMu, cachedVars>>

\* p.mu stays locked during Mint.
MintLocks(c) == tokenMu' = c

\* Locked, and Mint is called.
MintBegins(c) ==
  /\ tokenPc[c] = "locking" /\ tokenMu = NoRequester /\ ~CacheUsable
  /\ MintLocks(c)
  /\ Holds(c, "asking", 0)
  /\ UNCHANGED cachedVars

\* The issuer issues the token; its answer is on the way.
MintIssues(c) ==
  /\ tokenPc[c] = "asking" /\ Holds(c, "receiving", TokenTTL)
  /\ UNCHANGED <<tokenMu, cachedVars>>

\* The deferred Unlock where Mint failed.
MintUnlocks(c) == tokenMu' = IF tokenMu = c THEN NoRequester ELSE tokenMu

\* Mint fails: Token returns the error and p.token stays as it was.
MintFails(c) ==
  /\ tokenPc[c] \in {"asking", "receiving"}
  /\ MintUnlocks(c)
  /\ Holds(c, "idle", 0)
  /\ UNCHANGED cachedVars

\* The issuer has put the expiry into the claim, and cut it there.
MintReturns(c) ==
  /\ tokenPc[c] = "receiving"
  /\ \E cut \in 0..Truncated :
       /\ cachedLife' = heldLife[c] /\ cachedClaim' = heldLife[c] - cut
       /\ Holds(c, "calling", heldLife[c] - cut)
  /\ tokenMu' = IF tokenMu = c THEN NoRequester ELSE tokenMu

\* The call that carries the token has reached the server and ends.
TokenCallEnds(c) ==
  /\ tokenPc[c] = "calling" /\ Holds(c, "idle", 0)
  /\ UNCHANGED <<tokenMu, cachedVars>>

\* A call reaches its server within RefreshBuffer, less what the claim lost, an
\* issued token its caller within MintDelay: time does not pass beyond that.
TokenTick ==
  /\ \A c \in Requesters :
       /\ tokenPc[c] = "calling" => heldFor[c] < RefreshBuffer - Truncated
       /\ tokenPc[c] = "receiving" => heldFor[c] < MintDelay
  /\ cachedLife' = IF cachedLife > 0 THEN cachedLife - 1 ELSE 0
  /\ cachedClaim' = IF cachedClaim > 0 THEN cachedClaim - 1 ELSE 0
  /\ heldLife' = [c \in Requesters |->
                    IF heldLife[c] > 0 THEN heldLife[c] - 1 ELSE 0]
  /\ heldFor' = [c \in Requesters |->
                   IF tokenPc[c] \in {"calling", "receiving"}
                   THEN heldFor[c] + 1 ELSE 0]
  /\ UNCHANGED <<tokenMu, tokenPc>>

TokenNext ==
  \/ \E c \in Requesters :
       \/ TokenCall(c) \/ TokenCached(c) \/ MintBegins(c) \/ MintIssues(c)
       \/ MintFails(c) \/ MintReturns(c) \/ TokenCallEnds(c)
  \/ TokenTick

TokenSpec == TokenInit /\ [][TokenNext]_tokenVars

Minting(c) == tokenPc[c] \in {"asking", "receiving"}

\* Types; a goroutine is in Mint exactly while it holds the mutex.
TokenTypeOK ==
  /\ tokenMu \in Requesters \cup {NoRequester}
  /\ cachedLife \in 0..TokenTTL /\ cachedClaim \in 0..TokenTTL
  /\ tokenPc \in [Requesters -> {"idle", "locking", "asking", "receiving",
                                 "calling"}]
  /\ heldLife \in [Requesters -> 0..TokenTTL]
  /\ heldFor \in [Requesters -> Nat]
  /\ \A c \in Requesters : tokenMu = c <=> Minting(c)

\* A mint in flight is the only one, and it is needed: no goroutine asks the
\* issuer for a token while another one does, or when a token with more than
\* RefreshBuffer left has been cached in the meantime.
MintsShared ==
  /\ \A c, d \in Requesters : Minting(c) /\ Minting(d) => c = d
  /\ \A c \in Requesters : Minting(c) => ~(cachedLife > RefreshBuffer)

\* Whatever Token returns, from the cache or just minted by a slow issuer, is
\* not expired when the call that carries it is checked, up to RefreshBuffer
\* less Truncated later: this is what the buffer is for.  The second that the
\* claim is short of expiresAt comes off the buffer.
TokenOutlivesCall ==
  \A c \in Requesters : tokenPc[c] = "calling" => heldLife[c] > 0

=============================================================================
