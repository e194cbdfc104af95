------------------------------- MODULE ScopeAuthz -------------------------------
(***************************************************************************)
(* ScopeRoleAuthorizer of platform-token-runtime (inmemory_runtime.go):    *)
(* the scope a route requires, and whether the scopes of a token grant it. *)
(* A scope "area:verb" is the pair <<area, verb>>; "area:*" is             *)
(* <<area, "*">>.                                                          *)
(***************************************************************************)

Roles == {"owner", "viewer", "admin"}

\* "adjacent" is a path that shares a protected prefix without being below it
\* (/api/v1/supplyX): the middleware protects it, but no scope is required.
Areas == {"supply", "platform", "adjacent"}
Route == [area : Areas, write : BOOLEAN]

NoScope == <<"", "">>

requiredScopeForRoute(route) ==
  CASE route.area = "supply"   -> <<"supply", IF route.write THEN "write" ELSE "read">>
    [] route.area = "platform" -> <<"platform", "admin">>
    [] OTHER                   -> NoScope

hasScope(scopes, required) ==
  required \in scopes \/ <<required[1], "*">> \in scopes

Authorize(route, role, scopes) ==
  \/ role = "admin"
  \/ requiredScopeForRoute(route) = NoScope
  \/ hasScope(scopes, requiredScopeForRoute(route))
================================================================================
