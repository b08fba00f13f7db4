------------------------------ MODULE Webhook -------------------------------
(***************************************************************************)
(* The guards of a webhook endpoint, in the order their comments demand:   *)
(* IPAllowlistMiddleware, HMACSignatureMiddleware, the handler.  A request *)
(* passes through them one step at a time.  A body is the number of bytes  *)
(* it has, a prefix of it a smaller number, and a signature the body it    *)
(* was made for, so that a truncated body is told from the one sent.       *)
(***************************************************************************)
EXTENDS Integers, Sequences

CONSTANTS
  Addresses,      \* values of address headers; some do not parse as an IP
  Parsable,       \* those that do
  Listed,         \* those inside one of the CIDRs
  NoHeader,
  MaxBodySize     \* maxBodySize, scaled down

ASSUME WebhookAssumption ==
  /\ Listed \subseteq Parsable /\ Parsable \subseteq Addresses
  /\ NoHeader \notin Addresses /\ MaxBodySize \in Nat

Bodies == 0..(MaxBodySize + 2)
Signatures == [kind : {"missing", "nothex", "forged"}, of : {0}]
                \cup [kind : {"made"}, of : Bodies]

\* Requests: X-Forwarded-For (its list of addresses), X-Real-IP, the address of
\* the connection, the signature, and the bytes of the body.
HookRequests ==
  [xff : {<<>>} \cup {<<a, b>> : a, b \in Addresses},
   xri : Addresses \cup {NoHeader}, remote : Parsable,
   signature : Signatures, body : Bodies]

VARIABLES
  hook,       \* the request
  unread,     \* bytes that c.Request.Body still yields
  restored,   \* it has been replaced by a reader of the bytes read
  hookPc      \* "allowlist", "hmac", "handler", or the status answered

hookVars == <<hook, unread, restored, hookPc>>

HookInit ==
  /\ hook \in HookRequests
  /\ unread = hook.body /\ restored = FALSE /\ hookPc = "allowlist"

\* GetClientIP and extractFirstIP; ClientIP of gin is the connection's address.
GetClientIP(r) ==
  IF r.xff # <<>> THEN r.xff[1]
  ELSE IF r.xri # NoHeader THEN r.xri
  ELSE r.remote

IPAllowlistMiddleware ==
  /\ hookPc = "allowlist"
  /\ hookPc' = IF GetClientIP(hook) \in Parsable \cap Listed
               THEN "hmac" ELSE "403"
  /\ UNCHANGED <<hook, unread, restored>>

\* Mutant: io.LimitReader(c.Request.Body, maxBodySize).
LimitReaderCuts == IF unread < MaxBodySize THEN unread ELSE MaxBodySize

\* The bytes that io.LimitReader(c.Request.Body, maxBodySize+1) lets through.
LimitReader == IF unread < MaxBodySize + 1 THEN unread ELSE MaxBodySize + 1

AbortWith(status) == hookPc' = status /\ UNCHANGED hook

\* The body is read before the signature is decoded, and restored unless it
\* was too large; reading may fail part of the way.
HMACSignatureMiddleware ==
  /\ hookPc = "hmac"
  /\ IF hook.signature.kind = "missing"
     THEN AbortWith("401") /\ UNCHANGED <<unread, restored>>
     ELSE LET body == LimitReader IN
       \/ /\ \E n \in 0..body : unread' = unread - n
          /\ AbortWith("400") /\ UNCHANGED restored
       \/ /\ body > MaxBodySize
          /\ unread' = unread - body
          /\ AbortWith("413") /\ UNCHANGED restored
       \/ /\ body <= MaxBodySize
          /\ unread' = body /\ restored' = TRUE
          /\ IF hook.signature = [kind |-> "made", of |-> body]
             THEN hookPc' = "handler" /\ UNCHANGED hook
             ELSE AbortWith("401")

HookNext == IPAllowlistMiddleware \/ HMACSignatureMiddleware

HookSpec == HookInit /\ [][HookNext]_hookVars

\* What the handler reads from the restored body is the whole body that was
\* sent and signed, never a prefix: the limit of the reader lies one byte above
\* the largest body.
HandlerReadsSigned ==
  hookPc = "handler" =>
    /\ unread = hook.body /\ hook.signature = [kind |-> "made", of |-> unread]
    /\ restored

\* The inductive invariant: until the signature is checked the body is whole.
HookInv ==
  /\ hook \in HookRequests
  /\ hookPc \in {"allowlist", "hmac"} => unread = hook.body
  /\ HandlerReadsSigned
=============================================================================
