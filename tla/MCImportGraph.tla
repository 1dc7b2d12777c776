--------------------------- MODULE MCImportGraph ---------------------------
(* Three files, the entry among them, under every set of use declarations.   *)
(* All declare f, which is no duplicate, and extends may repeat; one file    *)
(* declares f twice.                                                         *)
EXTENDS ImportGraph

CONSTANTS A, B

MCFiles == {Entry, A, B}
MCPaths == {"src", "src/main", "main", "a", "a/f", "a/b"}

MCResolve ==
    [p \in MCPaths |-> CASE p = "a" -> A
                         [] p = "a/b" -> B
                         [] p \in {"main", "src/main"} -> Entry
                         [] OTHER -> NoFile]

UseModule(m)    == [kind |-> "module", modulePath |-> m, fullPath |-> m]
UseSymbol(m, p) == [kind |-> "symbol", modulePath |-> m, fullPath |-> p]

(* use src::main, use main, use a::f, use a::b; of the last both a and a/b   *)
(* are files.                                                                *)
MCUseDecls == {UseSymbol("src", "src/main"), UseModule("main"),
               UseSymbol("a", "a/f"), UseSymbol("a", "a/b")}

Symbol(n) == [name |-> n, kind |-> "symbol"]
Block(n)  == [name |-> n, kind |-> "block"]

MCDecls ==
    [f \in MCFiles |-> CASE f = Entry -> <<Symbol("f"), Block("T")>>
                         [] f = A     -> <<Symbol("f"), Block("f"), Block("f")>>
                         [] f = B     -> <<Symbol("f"), Symbol("g"), Symbol("f")>>]
=============================================================================
