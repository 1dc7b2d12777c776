------------------------ MODULE MCExceptionHandling ------------------------
(* Instances of ExceptionHandling for TLC: the built-in Error, a type that   *)
(* inherits from it and one that inherits from that.                         *)
EXTENDS ExceptionHandling

CONSTANTS ErrorT, AppT, SubT

MCTypes  == {ErrorT, AppT, SubT}
MCParent == [t \in MCTypes |-> CASE t = SubT -> AppT [] t = AppT -> ErrorT
                                 [] t = ErrorT -> NoType]

(* Every try statement catches the root of the hierarchy. *)
CatchAll  == {{ErrorT}, {ErrorT, AppT}}
(* Some catch only the type in the middle. *)
CatchSome == {{ErrorT}, {AppT}}
=============================================================================
