------------------------------- MODULE Natives -------------------------------
(***************************************************************************)
(* The functions and methods that the modules give to scripts, each by the *)
(* four things its caller depends on: the specification that check_args    *)
(* gets, what the body then takes from the arguments and as which type,    *)
(* with how many arguments it fills the result, and how else it may end.   *)
(*                                                                         *)
(* A module is a set of such records, one for every group of bodies that   *)
(* are alike.  What the bodies compute is not here: strings and operators  *)
(* have modules of their own, as have the containers, events and threads.  *)
(***************************************************************************)
EXTENDS Arguments

Many   == 6            \* more arguments than any native takes
Every  == 0 .. Many
Never  == {}
Number == {"Int", "Double"}

\* Takes: argument `at', or all from there on, is used as one of the types `as'
\* when the number of arguments is in `counts'.
Takes(at, rest, as, counts) == [at |-> at, rest |-> rest, as |-> as, counts |-> counts]
Arg(i, as)     == Takes(i, FALSE, as, Every)        \* whatever the number
Given(i, as)   == Takes(i, FALSE, as, i .. Many)    \* when there is one
Rest(i, as)    == Takes(i, TRUE, as, i .. Many)
Strs(n)        == {Arg(i, {"String"}) : i \in 1 .. n}
Ints(S)        == {Arg(i, {"Int"}) : i \in S}

Group(module, names, spec, takes, fills, may) ==
  {[module |-> module, name |-> n, spec |-> spec, takes |-> takes, fills |-> fills, may |-> may] : n \in names}

\* The body touches what is not there, or an object as one of another type.
Misses(native, args) ==
  \E r \in native.takes :
    /\ Len(args) \in r.counts
    /\ \/ Len(args) < r.at
       \/ \E i \in r.at .. IF r.rest THEN Len(args) ELSE r.at : i <= Len(args) /\ args[i] \notin r.as

Outcomes(native, args) ==
  IF ~CheckArgs(args, native.spec) THEN {"thrown"}
  ELSE IF Misses(native, args) THEN {"stray"}
  ELSE {IF Len(args) \in native.fills THEN "answer" ELSE "kept"} \cup native.may

-------------------------------------------------------------------------------
(* std.math: a function of one number answers an Int for an Int.           *)
MathRounding ==
  Group("math", {"round"}, <<"d">>, {Arg(1, {"Double"})}, Every, {})
  \cup Group("math", {"ceil", "sqrt", "floor", "abs", "cos", "acos", "cosh", "sin"}, <<"n">>, {Arg(1, Number)}, Every, {})
MathFunctions ==
  Group("math", {"asin", "sinh", "tan", "tanh", "log", "exp"}, <<"n">>, {Arg(1, Number)}, Every, {})
  \cup Group("math", {"atan"}, <<"n", "|", "n">>, {Arg(1, Number), Given(2, Number)}, Every, {})
  \cup Group("math", {"rand"}, Void, {}, Every, {})
  \cup Group("math", {"srand"}, <<"i">>, {Arg(1, {"Int"})}, Never, {})

(* std.sys: exit does not come back.                                       *)
SysFunctions ==
  Group("sys", {"system", "get_env"}, <<"s">>, Strs(1), Every, {})
  \cup Group("sys", {"put_env"}, <<"s">>, Strs(1), Never, {})
  \cup Group("sys", {"get_cwd", "clock", "time", "microtime"}, Void, {}, Every, {})
  \cup Group("sys", {"sleep"}, <<"i">>, Ints({1}), Never, {})
SysProcess ==
  Group("sys", {"get_pid", "get_ppid", "get_uid", "get_sid", "info"}, Void, {}, Every, {})
  \cup Group("sys", {"exit"}, <<"i">>, Ints({1}), Never, {"fatal"})

(* std.file: rename and remove throw for a file that is not there.         *)
FileFunctions ==
  Group("file", {"rename"}, <<"s", "s">>, Strs(2), Every, {"thrown"})
  \cup Group("file", {"remove"}, <<"s">>, Strs(1), Every, {"thrown"})
  \cup Group("file", {"file_exists", "is_dir", "glob", "basename", "dirname"}, <<"s">>, Strs(1), Every, {})
FileMethods ==
  Group("File", {"new"}, <<"s", "i">>, Strs(1) \cup Ints({2}), Every, {})
  \cup Group("File", {"open"}, <<"s", "i">>, Strs(1) \cup Ints({2}), Never, {})
  \cup Group("File", {"read", "readLine", "eof", "isOpen"}, Void, {}, Every, {})
  \cup Group("File", {"write"}, <<"s">>, Strs(1), Never, {})
  \cup Group("File", {"close"}, Void, {}, Never, {})

(* std.io: printf reads its format without having looked for it.           *)
IoFunctions ==
  Group("io", {"flush"}, Void, {}, Never, {})
  \cup Group("io", {"print", "println"}, Free, {}, Never, {})
  \cup Group("io", {"printf"}, Free, Strs(1), Never, {})
  \cup Group("io", {"read", "readi", "readd"}, Void, {}, Every, {})
SerializerMethods ==
  Group("Serializer", {"serialize"}, <<".">>, {Arg(1, NotNull)}, Every, {})
  \cup Group("Serializer", {"unserialize"}, <<".">>, {Arg(1, NotNull)}, Every, {"thrown"})

(* std.date, std.json, std.getopt, std.crypto, std.clever.                 *)
DateMethods ==
  Group("Date", {"new"}, <<"|", "i">>, {Given(1, {"Int"})}, Every, {})
  \cup Group("Date", {"format", "uformat"}, <<"s">>, Strs(1), Every, {})
  \cup Group("Date", {"getTime"}, Free, {}, Every, {})
JsonFunctions == Group("json", {"to_json"}, <<".">>, {Arg(1, NotNull)}, Every, {})
GetoptFunctions ==
  Group("getopt", {"getopt"}, <<"a", "s", "|", "a">>,
        {Arg(1, {"Array"}), Arg(2, {"String"}), Takes(3, FALSE, {"Array"}, {3})}, Every, {})
CryptoFunctions == Group("crypto", {"md5", "base64_encode", "base64_decode"}, <<"s">>, Strs(1), Every, {})
CleverMethods ==
  Group("Clever", {"buildDate", "hasThreads", "getVersion", "getStringVersion"}, Void, {}, Every, {})

(* std.regex.                                                              *)
PcreMethods ==
  Group("Pcre", {"new"}, <<"s", "|", "i">>, Strs(1) \cup {Takes(2, FALSE, {"Int"}, {2})}, Every, {"thrown"})
  \cup Group("Pcre", {"test", "match", "quote"}, <<"s">>, Strs(1), Every, {})
  \cup Group("Pcre", {"group"}, <<"i">>, Ints({1}), Every, {})
  \cup Group("Pcre", {"replace", "replaceAll"}, <<"s", "s">>, Strs(2), Every, {})
  \cup Group("Pcre", {"getPattern", "getError"}, Void, {}, Every, {})

(* std.unicode: with two positions only where the switch has a case; replace*)
(* sets nothing, and a string that is gone answers null or nothing.        *)
UnicodeSearch ==
  Group("UString", {"new"}, <<"s">>, Strs(1), Every, {})
  \cup Group("UString", {"size"}, Free, {}, Every, {})
  \cup Group("UString", {"startsWith", "endsWith"}, <<"s", "|", "i", "i">>,
             Strs(1) \cup {Takes(2, FALSE, {"Int"}, {3}), Takes(3, FALSE, {"Int"}, {3})}, {1, 3}, {})
UnicodeIndex ==
  Group("UString", {"indexOf", "lastIndexOf"}, <<"s", "|", "i", "i">>,
        Strs(1) \cup {Takes(2, FALSE, {"Int"}, {2, 3}), Takes(3, FALSE, {"Int"}, {3})}, 1 .. 3, {})
UnicodeChanges ==
  Group("UString", {"toLower", "toUpper", "reverse", "trim"}, Free, {}, Every, {})
  \cup Group("UString", {"truncate"}, <<"i">>, Ints({1}), Every, {})
  \cup Group("UString", {"append"}, <<"s", "|", "i", "i">>,
             Strs(1) \cup {Takes(2, FALSE, {"Int"}, {3}), Takes(3, FALSE, {"Int"}, {3})}, Every, {})
  \cup Group("UString", {"replace"}, <<"s", "s">>, Strs(2), Never, {})

(* std.reflection: what is asked of a function is asked in vain of others. *)
ReflectTypes ==
  Group("Reflect", {"new"}, <<".">>, {Arg(1, NotNull)}, Every, {})
  \cup Group("Reflect", {"getType", "isFunction", "isBool", "isString", "isInt", "isDouble", "isArray", "isMap"},
             Void, {}, Every, {})
ReflectFunctions ==
  Group("Reflect", {"getName", "isStatic", "isVariadic", "isUserDefined", "isInternal", "getNumArgs", "getNumReqArgs"},
        Void, {}, Every, {"kept"})
ReflectMembers == Group("Reflect", {"getMethods", "getProperties"}, Void, {}, Every, {})
ReflectSizes == Group("Reflect", {"getInternClassSizes"}, Free, {}, Never, {})
ReflectionFunctions ==
  Group("reflection", {"type", "refcount"}, <<".">>, {Arg(1, NotNull)}, Every, {})
  \cup Group("reflection", {"eval"}, <<"s">>, Strs(1), Never, {})
  \cup Group("reflection", {"isnull", "isconst", "isint", "isdouble", "isnumber", "isstr", "isfunc", "isarray", "ismap"},
             <<"p">>, {Arg(1, Types)}, Every, {})

(* std.ffi: anything that is not a basic value is passed as a struct.      *)
Passed == {"Int", "Bool", "String", "Double", "Self"}
FfiCalls ==
  Group("FFI", {"exec"}, <<"s", "s", "*">>, Strs(2) \cup Ints({3}) \cup {Rest(4, Passed)}, Every, {"thrown", "kept"})
  \cup Group("FFI", {"call"}, <<"s", "*">>, Strs(1) \cup Ints({2}) \cup {Rest(3, Passed)}, Every, {"thrown", "kept"})
FfiLibrary ==
  Group("FFI", {"new"}, <<"s">>, Strs(1), Every, {"thrown"})
  \cup Group("FFI", {"callThisFunction"}, Free, Ints({1}) \cup {Rest(2, Passed)}, Every, {"thrown", "kept"})
FfiLoading ==
  Group("FFI", {"load"}, <<"s">>, Strs(1), Every, {})
  \cup Group("FFI", {"unload"}, Free, {}, Never, {})
FfiStructs ==
  Group("FFIStruct", {"new"}, <<"s">>, Strs(1), Every, {})
  \cup Group("FFIStruct", {"getMember"}, <<"s">>, Strs(1), Every, {"kept"})
  \cup Group("FFIStruct", {"setMember"}, <<"s", "*">>, Strs(1) \cup {Arg(2, Number)}, Never, {})
FfiTypes ==
  Group("FFITypes", {"new"}, <<"s">>, Strs(1), Every, {})
  \cup Group("FFITypes", {"addMember"}, <<"s", "i">>, Strs(1) \cup Ints({2}), Never, {})
  \cup Group("FFITypes", {"addFunction"}, <<"s", "i", "*">>, Strs(1) \cup {Rest(2, {"Int"})}, Never, {})

(* gui.ncurses: the constructor tells its five forms apart by their length.*)
NCursesConstructor ==
  Group("NCurses", {"new"}, Free,
        {Takes(1, FALSE, {"Bool"}, {2}), Takes(2, FALSE, {"Int"}, {2}), Takes(1, FALSE, {"Self"}, {5, 6})}
        \cup {Takes(i, FALSE, {"Int"}, {5, 6}) : i \in 2 .. 5} \cup {Takes(6, FALSE, {"Int"}, {6})}, Every, {})
NCursesOutput ==
  Group("NCurses", {"addStr", "addChar", "printStr"}, <<"i", "i", "s">>, Ints({1, 2}) \cup {Arg(3, {"String"})}, Never, {})
  \cup Group("NCurses", {"refresh", "sleep", "hide", "close", "exit", "startColor"}, Void, {}, Never, {})
  \cup Group("NCurses", {"setColor"}, <<"i">>, Ints({1}), Never, {})
  \cup Group("NCurses", {"addColor"}, <<"i", "i", "i">>, Ints(1 .. 3), Never, {})
NCursesInput ==
  Group("NCurses", {"nColors", "hasColors", "isChild", "getKey"}, Void, {}, Every, {})
  \cup Group("NCurses", {"enableKeyPad", "noEcho", "deleteLine"}, Void, {}, Never, {})
  \cup Group("NCurses", {"isPrintable", "getKeyName"}, <<"i">>, Ints({1}), Every, {})
  \cup Group("NCurses", {"box", "move"}, <<"i", "i">>, Ints({1, 2}), Never, {})
  \cup Group("NCurses", {"posX", "posY", "width", "height"}, Void, {}, Every, {})
KeyMethods ==
  Group("Key", {"new"}, <<"i">>, Ints({1}), Every, {})
  \cup Group("Key", {"getChar", "getInt"}, Void, {}, Every, {})

(* db.mysql: connect has no case for more than five arguments, and reads   *)
(* nothing then.                                                           *)
MysqlMethods ==
  Group("Mysql", {"new"}, Free, {}, Every, {})
  \cup Group("Mysql", {"connect"}, <<"s", "s", "s", "s", "|", "i">>,
             {Takes(i, FALSE, {"String"}, {4, 5}) : i \in 1 .. 4} \cup {Takes(5, FALSE, {"Int"}, {5})}, Every, {})
  \cup Group("Mysql", {"query"}, <<"s">>, Strs(1), Every, {})
  \cup Group("Mysql", {"fetchRow", "getErrorNumber", "getError"}, Void, {}, Every, {})

(* db.sqlite3: the objects behind these are those of the module Sqlite.    *)
SqliteMethods ==
  Group("SQLite3", {"new"}, <<"s">>, Strs(1), Every, {"thrown"})
  \cup Group("SQLite3", {"exec", "query", "prepare"}, <<"s">>, Strs(1), Every, {"thrown"})
  \cup Group("SQLite3", {"getLastId", "close", "fetch"}, Void, {}, Every, {})
SqliteStatement ==
  Group("SQLite3", {"bindValue"}, <<"i", ".">>, Ints({1}) \cup {Arg(2, NotNull)}, Never, {})
  \cup Group("SQLite3", {"execute"}, Void, {}, Every, {"thrown"})
  \cup Group("SQLite3", {"finalize"}, Void, {}, Never, {})

(* std.net.                                                                *)
SocketSettings ==
  Group("TcpSocket", {"new"}, <<"|", "s", "i">>,
        {Takes(1, FALSE, {"String"}, {1, 2}), Takes(2, FALSE, {"Int"}, {2})}, Every, {})
  \cup Group("TcpSocket", {"setHost"}, <<"s">>, Strs(1), Never, {})
  \cup Group("TcpSocket", {"setPort", "setTimeout"}, <<"i">>, Ints({1}), Never, {})
SocketMethods ==
  Group("TcpSocket", {"connect", "close"}, Void, {}, Never, {})
  \cup Group("TcpSocket", {"receive"}, <<"i">>, Ints({1}), Every, {})
  \cup Group("TcpSocket", {"send"}, <<"s">>, Strs(1), Never, {})
  \cup Group("TcpSocket", {"isOpen", "poll", "good", "getError", "getErrorMessage"}, Void, {}, Every, {})

(* std.fcgi.                                                               *)
ServerRequest ==
  Group("Server", {"new"}, Void, {}, Every, {"thrown"})
  \cup Group("Server", {"accept"}, Void, {}, Every, {})
ServerOutput ==
  Group("Server", {"print"}, <<"s", "*">>, {Arg(1, {"String"})}, Every, {})
  \cup Group("Server", {"flush", "finish"}, Void, {}, Every, {})
ServerFields ==
  Group("Server", {"getEnvironment"}, <<"|", "s">>, {Given(1, {"String"})}, Every, {"kept"})
  \cup Group("Server", {"getParam", "getHeader"}, <<"s">>, Strs(1), Every, {})
  \cup Group("Server", {"getCookie"}, <<"s">>, Strs(1), Every, {"kept"})
ServerMaps ==
  Group("Server", {"getParams", "getHeaders", "getCookies"}, Void, {}, Every, {"kept"})
  \cup Group("Server", {"setHeader", "setCookie"}, <<"s", "s">>, Strs(2), Never, {})

(* std.core and std.collection.  erase fills the result only with what it  *)
(* takes away: not of an empty array, or from outside of it.               *)
ArrayMethods ==
  Group("Array", {"append"}, Free, {}, Every, {})
  \cup Group("Array", {"at", "resize", "reserve"}, <<"i">>, Ints({1}), Every, {})
  \cup Group("Array", {"size", "reverse", "shift", "pop"}, Void, {}, Every, {})
ArrayParts ==
  Group("Array", {"erase"}, <<"i">>, Ints({1}), Every, {"kept"})
  \cup Group("Array", {"begin", "end"}, Void, {}, Every, {})
  \cup Group("Array", {"range"}, <<"i", "i">>, Ints({1, 2}), Every, {})
  \cup Group("Array", {"each"}, <<"f">>, {Arg(1, {"Function"})}, Every, {"thrown"})
MapMethods ==
  Group("Map", {"insert"}, <<"s", "*">>, Strs(1) \cup {Arg(2, Types)}, Every, {})
  \cup Group("Map", {"exists"}, <<"s">>, Strs(1), Every, {})
  \cup Group("Map", {"each"}, <<"f">>, {Arg(1, {"Function"})}, Every, {"thrown"})
BasicConstructors ==
  Group("Int", {"new"}, <<"|", "n">>, {Given(1, Number)}, Every, {})
  \cup Group("String", {"new"}, <<"|", "s">>, {Given(1, {"String"})}, Every, {})
  \cup Group("Double", {"new"}, Free, {}, Every, {})
  \cup Group("Bool", {"new"}, Free, {}, Every, {})
SetMethods ==
  Group("Set", {"new"}, <<"f">>, {Arg(1, {"Function"})}, Every, {"thrown"})
  \cup Group("Set", {"insert"}, <<".">>, {Arg(1, NotNull)}, Never, {})
  \cup Group("Set", {"find"}, <<".">>, {Arg(1, NotNull)}, Every, {})

(* std.events and std.concurrent.                                          *)
EventsMethods ==
  Group("Events", {"new"}, <<"|", "i">>, {Given(1, {"Int"})}, Every, {})
  \cup Group("Events", {"connect"}, <<".", "f">>, {Arg(1, NotNull), Arg(2, {"Function"})}, Never, {})
  \cup Group("Events", {"emit"}, <<"s", "*">>, Strs(1) \cup {Rest(2, Types)}, Never, {})
  \cup Group("Events", {"set"}, <<"m", "*">>, {Arg(1, {"Map"}), Rest(2, Types)}, Never, {})
ConditionMethods ==
  Group("Condition", {"new"}, Void, {}, Every, {})
  \cup Group("Condition", {"signal", "broadcast"}, Free, {}, Every, {})
  \cup Group("Condition", {"wait"}, <<"*">>, {Arg(1, {"Mutex"})}, Every, {})
SyncMethods ==
  Group("Sync", {"new"}, <<"i">>, Ints({1}), Every, {})
  \cup Group("Sync", {"status", "getID", "getNIDs", "nextID"}, Void, {}, Every, {})
  \cup Group("Sync", {"setStatus"}, <<"b">>, {Arg(1, {"Bool"})}, Never, {})
  \cup Group("Sync", {"setID"}, <<"i">>, Ints({1}), Never, {})

Library ==
  MathRounding \cup MathFunctions \cup SysFunctions \cup SysProcess \cup FileFunctions \cup FileMethods
  \cup IoFunctions \cup SerializerMethods \cup DateMethods \cup JsonFunctions \cup GetoptFunctions
  \cup CryptoFunctions \cup CleverMethods \cup PcreMethods \cup UnicodeSearch \cup UnicodeIndex
  \cup UnicodeChanges \cup ReflectTypes \cup ReflectFunctions \cup ReflectMembers \cup ReflectSizes
  \cup ReflectionFunctions \cup FfiCalls \cup FfiLibrary \cup FfiLoading \cup FfiStructs \cup FfiTypes
  \cup NCursesConstructor \cup NCursesOutput \cup NCursesInput \cup KeyMethods \cup MysqlMethods
  \cup SqliteMethods \cup SqliteStatement \cup SocketSettings \cup SocketMethods \cup ServerRequest
  \cup ServerOutput \cup ServerFields \cup ServerMaps \cup ArrayMethods \cup ArrayParts \cup MapMethods
  \cup BasicConstructors \cup SetMethods \cup EventsMethods \cup ConditionMethods \cup SyncMethods

=============================================================================
