------------------------- MODULE MCDecoratorService -------------------------
\* Two calls of the package to a function, from two modules, in a project; one of the
\* package to a function of a tool that is named like their model; an upsert of the
\* SDK for the first function in no project, and a call of the copy of the package.
EXTENDS DecoratorService, TLC
CONSTANT Absent
Call(by, project, fn, path, model, status) ==
  [by |-> by, project |-> project, tool |-> IF fn = "g" THEN "m" ELSE "t", fn |-> fn,
   path |-> path, model |-> model, status |-> status]
MCOf ==
  "c1" :> Call("package", "p", "f", "x", "m", "success") @@
  "c2" :> Call("package", "p", "f", "y", "m", "error") @@
  "c3" :> Call("package", "p", "g", "x", Absent, "success") @@
  "c4" :> Call("sdk", Absent, "f", "x", Absent, "error") @@
  "c5" :> Call("module", "p", "f", "x", "m", "success")
MCCalls == DOMAIN MCOf
\* The tables the service creates, and those of the migrations.
MCSchemas == {{}, {"registration", "function", "no_project"}}
=============================================================================
