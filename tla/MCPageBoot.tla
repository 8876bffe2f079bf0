----------------------------- MODULE MCPageBoot -----------------------------
EXTENDS PageBoot, TLC
CONSTANTS home, about, ping1, ping2, body, none

\* Two pages, and two renders of one component, which load when they are seen.
Renders == {home, about, ping1, ping2}
Pages == {home, about}
WasmOf == (home :> "index") @@ (about :> "about") @@ (ping1 :> "ping") @@ (ping2 :> "ping")
CompilerOf == (home :> "Golang") @@ (about :> "GothicTinyGo")
                @@ (ping1 :> "GothicTinyGo") @@ (ping2 :> "GothicTinyGo")
FuncsOf == (home :> {"save"}) @@ (about :> {"save", "send"})
             @@ (ping1 :> {"send"}) @@ (ping2 :> {"send"})
==============================================================================
