-------------------------- MODULE MCApiDescription --------------------------
(* ApiDescription with routes of both apps: roots, routes below routes, routes below nodes that *)
(* have no resource, one root that is "/".                                                      *)
EXTENDS ApiDescription

MCAdminRoutes ==
  {<<"identifiers">>, <<"identifiers", "{name}">>, <<"identifiers", "{name}", "multisig", "join">>,
   <<"multisig", "request", "{said}">>, <<"escrows", "rpy">>,
   <<"credentials", "query">>, <<"credentials", "{said}">>}

MCHttpRoutes == {<<"">>, <<"oobi">>, <<"oobi", "{aid}">>, <<"oobi", "{aid}", "{role}">>}

MCSpecRoute == <<"spec.yaml">>

MCHandled ==
  [r \in MCAdminRoutes \cup MCHttpRoutes |->
     CASE r = <<"identifiers">> -> {"get", "post", "options"}
       [] r = <<"">>            -> {"post", "put"}
       [] r = <<"credentials", "query">> -> {"post"}
       [] OTHER                 -> {"get"}]

MCValid == {"get", "post", "put", "delete", "options"}

=============================================================================
