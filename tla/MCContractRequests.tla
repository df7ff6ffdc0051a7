------------------------ MODULE MCContractRequests --------------------------
(***************************************************************************)
(* One request of each kind, and a domain that gets its key later.         *)
(***************************************************************************)
EXTENDS ContractRequests

Key(d, purpose, k) == [domain_id |-> d, purpose |-> purpose, key |-> k]

Req(kind, d, p) == [kind |-> kind, domain_id |-> d, payload |-> p]

ForeignReq(d, p, chain) == [kind |-> "ForeignTx", domain_id |-> d, payload |-> p, chain |-> chain]

\* One request of each kind; the domain for signatures has no key yet.
InitialKeys == {Key(0, "CKD", "k1"), Key(1, "ForeignTx", "k2")}
AllKeys == InitialKeys \union {Key(2, "Sign", "k1")}
AllRequests == {Req("CKD", 0, "p"), ForeignReq(1, "q", "chain"), Req("Sign", 2, "q")}
=============================================================================
