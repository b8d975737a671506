---------------------------- MODULE Authorization ----------------------------
(***************************************************************************)
(* Who may read what: the authorizer's decision on one document, the scope *)
(* a search is filtered by, and the check of a batch of references against *)
(* the policies that PostgreSQL holds at that moment. A principal is       *)
(* [known, tenant, id, roles, groups], a reference <<tenant, document,     *)
(* version>>, a policy row [tenant, document, version, policy, deleted]    *)
(* whose entries are pairs such as <<"role", r>>.                          *)
(***************************************************************************)
EXTENDS Naturals

Public == <<"public", "public">>

Named(kind, values) == {<<kind, v>> : v \in values}

AuthorizeReason(principal, resource) ==
  CASE ~principal.known                                   -> "unknown_principal"
    [] principal.tenant # resource.tenant                 -> "cross_tenant"
    [] Public \in resource.policy                         -> "public"
    [] <<"principal", principal.id>> \in resource.policy  -> "principal"
    [] Named("role", principal.roles) \cap resource.policy # {}   -> "role"
    [] Named("group", principal.groups) \cap resource.policy # {} -> "group"
    [] OTHER                                              -> "policy_denied"

\* What the index is asked to filter by; no scope, and no search, for a stranger.
SearchScope(principal) ==
  IF principal.known
  THEN {Public, <<"principal", principal.id>>}
       \cup Named("role", principal.roles) \cup Named("group", principal.groups)
  ELSE {}

Allowed == {"public", "principal", "role", "group"}

\* The references this principal may read, by the rows in force now.
AuthorizeReads(principal, references, policies) ==
  {r \in references :
     /\ principal.known /\ r[1] = principal.tenant
     /\ \E p \in policies : /\ <<p.tenant, p.document, p.version>> = r
                            /\ ~p.deleted
                            /\ AuthorizeReason(principal, p) \in Allowed}
=============================================================================
