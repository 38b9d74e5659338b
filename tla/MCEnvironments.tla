-------------------------- MODULE MCEnvironments --------------------------
(***************************************************************************)
(* Scripts small enough for every order of calls: nested blocks, named and *)
(* anonymous functions, methods, callbacks, imports, and the declarations  *)
(* that the resolver misreads.                                             *)
(***************************************************************************)
EXTENDS EnvironmentsProperties

Block == [op |-> "block"]
End == [op |-> "end"]
Var(w) == [op |-> "var", name |-> Plain(w)]
Id(w) == [op |-> "use", name |-> Plain(w)]
Fn(w, args) == [op |-> "function", anonymous |-> FALSE, name |-> Plain(w),
                args |-> [i \in DOMAIN args |-> Plain(args[i])], static |-> FALSE]
Static(w) == [Fn(w, <<>>) EXCEPT !.static = TRUE]
Anon(args) == [Fn("", args) EXCEPT !.anonymous = TRUE]
Class(w) == [op |-> "class", name |-> Plain(w)]
Attr(w) == [op |-> "attribute", name |-> Plain(w)]
On(op, w) == [op |-> op, name |-> Plain(w)]
From(m, w, ns) == [op |-> "import", module |-> m, word |-> w, namespaced |-> ns]

MCModuleNames == [std |-> <<>>, io |-> <<"print", "x">>, math |-> <<"abs", "x">>]
MCSubModules == [std |-> <<"io", "math">>, io |-> <<>>, math |-> <<>>]

MCPrograms == {
  \* blocks, shadowing, a loop, a catch; names over names
  <<Var("x"), Block, Id("x"), Var("x"), Id("x"), On("foreach", "y"), Id("y"), Id("x"), Var("z"), End, End,
    On("catch", "e"), Id("e"), Var("x"), Id("x"), Block, Var("e"), Id("e"), End, Id("e"), End, Var("y"), Id("y"), Id("x")>>,
  <<On("catch", "e"), Id("e"), Var("e"), Id("e"), End>>,
  <<On("catch", "e"), Class("e"), End, Var("y"), Id("y"), End>>,
  <<On("foreach", "y"), Var("y"), Id("y"), Fn("y", <<>>), End, End>>,
  <<Fn("f", <<"a", "b", "a">>), Id("a"), End>>,
  <<Class("A"), End, Class("A"), End, Var("y"), Id("y"), Id("A")>>,
  <<From("io", "", FALSE), From("math", "", FALSE), Var("z"), Id("z"), Id("abs")>>,
  <<From("io", "print", FALSE), Id("print"), From("io", "x", FALSE), Id("x")>>,
  <<From("io", "", TRUE), [op |-> "use", name |-> <<"io", "x">>], Fn("x", <<>>), End, Id("x"), Id("print")>>,
  <<From("std", "", FALSE), [op |-> "use", name |-> <<"math", "abs">>], From("io", "", FALSE), Id("print")>>,
  <<Block, From("std", "", TRUE), [op |-> "use", name |-> <<"std:io", "x">>], End, [op |-> "use", name |-> <<"std:io", "x">>]>>,
  <<Var("x"), Fn("x", <<>>), End>>,
  <<Class("A"), Attr("p"), Fn("m", <<>>), Class("B"), End, End, Attr("q"), End>>,
  <<Class("A"), Attr("p"), Fn("p", <<>>), End, End>>,
  <<Class("A"), Fn("m", <<>>), Fn("h", <<>>), End, Id("h"), End, End>>,
  <<Class("A"), Static("s"), Id("this"), End, End>>,
  \* recursion and a closure that reads its argument; a block around both
  <<Var("g"), Fn("f", <<"n">>), Var("v"), Block, Anon(<<>>), Id("n"), Id("v"), Id("g"), End, Id("v"), End, Id("f"), End, Id("f")>>,
  \* two levels of anonymous functions
  <<Var("g"), Anon(<<"x">>), Anon(<<>>), Id("x"), Id("g"), End, End>>,
  \* a named function inside a function
  <<Fn("f", <<"n">>), Fn("h", <<>>), Id("n"), End, Id("h"), End, Id("f")>>,
  \* methods, their instance, a closure in a method, a static method
  <<Var("g"), Class("A"), Fn("m", <<"x">>), Id("this"), Id("g"), Anon(<<>>), Id("x"), Id("this"), End, End,
    Static("s"), Id("g"), End, End, Id("A")>>,
  \* a function inside a method
  <<Var("g"), Class("A"), Fn("m", <<"x">>), Fn("h", <<>>), Id("x"), Id("g"), End, End, End>>,
  \* a class inside a function
  <<Fn("f", <<"n">>), Class("A"), Fn("m", <<>>), Id("n"), End, End, Id("A"), End, Id("f")>> }
=============================================================================
