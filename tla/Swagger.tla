------------------------------ MODULE Swagger ------------------------------
(***************************************************************************)
(* The documentation pages that main.ts sets up and the select box on each *)
(* of them, made by loops of their own.  AppModule's imports are a list of *)
(* records: registered as a class or as a dynamic module, type, and path.  *)
(***************************************************************************)
EXTENDS Integers

Whole == ""   \* behind swagger_path: nothing for the page of all modules

\* rawModules.filter: dynamic modules are objects.
Modules(imports) == {i \in DOMAIN imports : imports[i].class}

Option(imports, i) == [to |-> imports[i].path, of |-> i]
WholeOption == [to |-> Whole, of |-> 0]

UntargetedOptions(imports, env) ==   \* slip: the loop for the box forgets the targets
    LET api == {i \in Modules(imports) : imports[i].type = "API"}
    IN  {Option(imports, i) : i \in api} \cup (IF env.select THEN {} ELSE {WholeOption})

\* The entries of the box, with and without SWAGGER_TARGET_SELECT.
Options(imports, env) ==
    IF env.select
    THEN {Option(imports, i) : i \in {i \in Modules(imports) :
              imports[i].type = "API" /\ imports[i].path \in env.targets}}
    ELSE {WholeOption} \cup
         {Option(imports, i) : i \in {i \in Modules(imports) : imports[i].type = "API"}}

OwnPage(imports, i) == [at |-> imports[i].path, order |-> i, include |-> {i}]
WholePage(imports) ==
    [at |-> Whole, order |-> 0, include |-> {i \in Modules(imports) : imports[i].type = "API"}]

\* The pages set up, in the order of the list, that of all modules first.
Pages(imports, env) ==
    IF env.select
    THEN {OwnPage(imports, i) : i \in {i \in Modules(imports) :
              imports[i].type = "API" /\ imports[i].path \in env.targets}}
    ELSE {WholePage(imports)} \cup
         {OwnPage(imports, i) : i \in {i \in Modules(imports) : imports[i].type = "API"}}

\* Of the pages at an address the router serves the one that was set up first.
Opened(pages, at) ==
    CHOOSE p \in pages : p.at = at /\ \A q \in pages : q.at = at => p.order <= q.order
=============================================================================
