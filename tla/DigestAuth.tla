----------------------------- MODULE DigestAuth -----------------------------
(***************************************************************************)
(* The nonce cache of sip/digest_auth.rs: DigestCredentials, used with     *)
(* what a registrar challenges it with: any nonce, new or used before,     *)
(* stale or not, with any other parameters, and any of it again.  A digest *)
(* is the tuple that is hashed.                                            *)
(***************************************************************************)
EXTENDS Integers, Sequences

CONSTANTS
    Nonces,       \* nonces of the registrar
    Kinds,        \* the other parameters: realm, opaque, algorithm and qop as one value
    WithQop,      \* the kinds that have a qop
    NonceTtl,     \* nonce_ttl
    MaxHeaders    \* bound: headers built (TLC)

ASSUME DigestAssumption == NonceTtl \in Nat /\ MaxHeaders \in Nat /\ WithQop \subseteq Kinds

VARIABLES
    cache,      \* cached_nonce, the parameters cached with it, nc, cached_at (age)
    headers,    \* nonce, parameters and count of each header built, and what it was built from
    life        \* how often the count was given up for the nonce in the cache (history)

digestVars == <<cache, headers, life>>

EmptyCache == [nonce |-> {}, kind |-> {}, nc |-> 0, age |-> 0]
DigestInit == cache = EmptyCache /\ headers = <<>> /\ life = 0

\* The registrar's challenges, as the caller has parsed them.
Challenges == [nonce : Nonces, kind : Kinds, stale : BOOLEAN]

Expired(c) == c.nonce # {} /\ c.age > NonceTtl
Unexpired(c) == IF Expired(c) THEN EmptyCache ELSE c

\* update_challenge: a stale nonce is replaced and keeps the rest, whatever the stale
\* challenge says of it; the same nonce goes on counting; any other challenge replaces
\* everything.
Replaces(c, o) == o.stale /\ c.nonce # {}
Updated(c, o) ==
    IF Replaces(c, o) THEN [c EXCEPT !.nonce = {o.nonce}, !.nc = 0, !.age = 0]
    ELSE IF c.nonce = {o.nonce} THEN c
    ELSE [nonce |-> {o.nonce}, kind |-> {o.kind}, nc |-> 0, age |-> 0]

\* A bug that would pass the tests: each challenge starts to count afresh.
MutantCountedUp(c, o) ==
    LET u == [Updated(c, o) EXCEPT !.nc = 0] IN [u EXCEPT !.nc = IF o.kind \in WithQop THEN @ + 1 ELSE @]

\* authorize: the count goes up when the challenge has a qop.
CountedUp(c, o) ==
    LET u == Updated(c, o) IN [u EXCEPT !.nc = IF o.kind \in WithQop THEN @ + 1 ELSE @]

\* build_auth_header over compute_response: what the challenge says, not what is cached.
Header(o, cached) ==
    [nonce |-> o.nonce, kind |-> o.kind, nc |-> cache'.nc, life |-> life', stale |-> o.stale,
     cached |-> cached]
Authorized(o, cached) ==
    /\ Len(headers) < MaxHeaders
    /\ cache' = CountedUp(Unexpired(cache), o)
    /\ life' = IF Expired(cache) \/ Replaces(cache, o) THEN life + 1 ELSE life
    /\ headers' = Append(headers, Header(o, cached))

\* authorize with a challenge, a new one or one answered before.
Authorize == \E o \in Challenges : Authorized(o, FALSE)

Emptied == cache' = EmptyCache /\ life' = life + 1 /\ UNCHANGED headers

\* authorize_cached: the challenge is rebuilt from the cache.
AuthorizeCached ==
    IF Expired(cache) THEN Emptied
    ELSE \E n \in cache.nonce, k \in cache.kind :
            Authorized([nonce |-> n, kind |-> k, stale |-> FALSE], TRUE)

ClearCache == cache.nonce # {} /\ Emptied

Age == /\ cache.nonce # {} /\ cache.age <= NonceTtl
       /\ cache' = [cache EXCEPT !.age = @ + 1] /\ UNCHANGED <<headers, life>>

DigestNext == Authorize \/ AuthorizeCached \/ ClearCache \/ Age
DigestSpec == DigestInit /\ [][DigestNext]_digestVars

----------------------------------------------------------------------------
(* Properties.                                                             *)

DigestTypeOK ==
    /\ cache.nonce \subseteq Nonces /\ cache.kind \subseteq Kinds /\ cache.nc \in 0 .. MaxHeaders
    /\ life <= 2 * MaxHeaders

\* The headers from i to j use one nonce, and nothing between them has cleared the cache,
\* let it expire or replaced it as stale.
OneUse(i, j) == \A k \in i .. j : headers[k].nonce = headers[j].nonce /\ headers[k].life = headers[j].life
Counts(i) == headers[i].kind \in WithQop

\* As long as the cache keeps a nonce, the counts sent with it are 1, 2, 3 in the order of
\* the requests, whether the headers are built from challenges that repeat the nonce or
\* from the cache (RFC 2617 3.2.2); and what is built from the cache repeats the nonce and
\* the parameters of one challenge, unless the nonce came as stale.
CountsOnce ==
    /\ \A i, j \in DOMAIN headers :
          (i < j /\ OneUse(i, j) /\ Counts(i) /\ Counts(j)) => headers[i].nc < headers[j].nc
    /\ \A j \in DOMAIN headers : (Counts(j) /\ headers[j].nc # 1) =>
          \E i \in 1 .. j - 1 : OneUse(i, j) /\ Counts(i) /\ headers[i].nc = headers[j].nc - 1
    /\ \A j \in DOMAIN headers : headers[j].cached =>
          \E i \in 1 .. j - 1 :
              \/ ~headers[i].cached /\ headers[i].nonce = headers[j].nonce /\ headers[i].kind = headers[j].kind
              \/ OneUse(i, j) /\ headers[i].stale

----------------------------------------------------------------------------
(* Statements of the repository's comments that the code does not keep.    *)

\* A second authorize with the same challenge increments the count: the nonce is the same
\* as the cached one, nothing is reset.
SecondCounts == [][
    LET h == headers'[Len(headers')]
        g == headers[Len(headers)]
    IN  (/\ headers' # headers /\ ~Expired(cache) /\ cache.nonce = {h.nonce} /\ h.kind \in WithQop
         /\ headers # <<>> /\ h = [g EXCEPT !.nc = h.nc, !.life = h.life])
           => h.nc > cache.nc]_digestVars

\* The opaque of a challenge is returned unchanged: a header built from the cache has the
\* parameters that came with its nonce.
ReturnedUnchanged == \A j \in DOMAIN headers : headers[j].cached =>
    \E i \in 1 .. j - 1 : ~headers[i].cached /\ headers[i].nonce = headers[j].nonce
                                             /\ headers[i].kind = headers[j].kind
=============================================================================
