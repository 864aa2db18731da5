---------------------------- MODULE OidcServer ----------------------------
(***************************************************************************)
(* The OIDC provider of the local server (internal/oidcserver): signing    *)
(* key, authorization codes and the token endpoint.  The provider approves *)
(* every authorization at once.  Codes live in memory, the key in a file.  *)
(***************************************************************************)
EXTENDS Integers

CONSTANTS
    ClientIDs,   \* client IDs that validateClientID accepts: local clusters
    CodeTTL,     \* ticks for which a code is good (authCodeTTL)
    MaxTime,     \* bound: ticks of the clock
    MaxCodes,    \* bound: codes handed out
    MaxKeys      \* bound: keys ever generated

VARIABLES
    clock,
    provider,    \* "down", or the signing key of the running server
    keyFile,     \* oidc-key.pem: "none", "torn" or a key
    nextKey,     \* the next key that rsa.GenerateKey returns
    codes,       \* codeStore.codes
    nextCode

oidcVars == <<clock, provider, keyFile, nextKey, codes, nextCode>>

NoKey == 0
OidcDown == NoKey
NoKeyFile == NoKey
Torn == -1

OidcInit ==
    /\ clock = 0 /\ provider = OidcDown
    /\ keyFile = NoKeyFile /\ nextKey = 1
    /\ codes = [c \in {} |-> 0] /\ nextCode = 1

\* Mutant: the key pair is generated again by every server.
MutantLoadOrCreateKeypair ==
    /\ keyFile # Torn /\ nextKey <= MaxKeys
    /\ keyFile' \in {nextKey, Torn} /\ nextKey' = nextKey + 1
    /\ provider' = IF keyFile' = Torn THEN OidcDown ELSE keyFile'

\* LoadOrCreateKeypair: a file without a PEM block is an error for good; a
\* server that dies while it writes the file leaves it so.
LoadOrCreateKeypair ==
    \/ /\ keyFile \notin {NoKeyFile, Torn}
       /\ provider' = keyFile /\ UNCHANGED <<keyFile, nextKey>>
    \/ /\ keyFile = NoKeyFile /\ nextKey <= MaxKeys
       /\ keyFile' \in {nextKey, Torn} /\ nextKey' = nextKey + 1
       /\ provider' = IF keyFile' = Torn THEN OidcDown ELSE keyFile'

\* Handler: a new server knows no codes.
ProviderStarts ==
    /\ provider = OidcDown
    /\ LoadOrCreateKeypair
    /\ codes' = [c \in {} |-> 0]
    /\ UNCHANGED <<clock, nextCode>>

ProviderStops ==
    /\ provider # OidcDown /\ provider' = OidcDown
    /\ UNCHANGED <<clock, keyFile, nextKey, codes, nextCode>>

\* authorizeHandler: the code that a request gets, put into the store.
Authorize(client, redirect, challenge) ==
    /\ provider # OidcDown /\ nextCode <= MaxCodes
    /\ codes' = [c \in DOMAIN codes \cup {nextCode} |->
                   IF c = nextCode
                   THEN [client |-> client, redirect |-> redirect,
                         challenge |-> challenge, expires |-> clock + CodeTTL]
                   ELSE codes[c]]
    /\ nextCode' = nextCode + 1
    /\ UNCHANGED <<clock, provider, keyFile, nextKey>>

\* verifyAuthCode and validateClientID.  A plain challenge is never sent by
\* the CLI; the challenge of a verifier is modelled by the verifier.
Accepts(code, client, redirect, verifier) ==
    /\ code \in DOMAIN codes
    /\ clock <= codes[code].expires
    /\ client = codes[code].client
    /\ redirect = codes[code].redirect
    /\ verifier = codes[code].challenge
    /\ client \in ClientIDs

\* take: a code is gone with the first request that names it, right or wrong.
Take(code) == codes' = [c \in DOMAIN codes \ {code} |-> codes[c]]

Tick ==
    /\ clock < MaxTime /\ clock' = clock + 1
    /\ UNCHANGED <<provider, keyFile, nextKey, codes, nextCode>>
=============================================================================
