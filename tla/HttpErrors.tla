----------------------------- MODULE HttpErrors -----------------------------
(***************************************************************************)
(* The program's error classes and the HTTP status that errorMiddleware    *)
(* answers for each: the first handler whose class the error is an         *)
(* instance of.  Bodies, codes and the log are left out.                   *)
(***************************************************************************)
EXTENDS Integers, Sequences

(* class X extends Y *)
Parent ==
    [ UnauthorizedError       |-> "ApplicationError",
      ServiceOverloadedError  |-> "ApplicationError",
      WhatsAppConnectionError |-> "ApplicationError",
      InfrastructureError     |-> "ApplicationError",
      RuntimeError            |-> "ApplicationError",
      ValidationError         |-> "DomainError",
      NotFoundError           |-> "DomainError",
      ConflictError           |-> "DomainError",
      DomainError             |-> "Error",
      ApplicationError        |-> "Error",
      Error                   |-> "Error" ]

ErrorClass == DOMAIN Parent

InstanceOf(e, c) == c \in {e, Parent[e], Parent[Parent[e]]}

ERROR_HANDLERS ==
    << <<"UnauthorizedError", 401>>, <<"ServiceOverloadedError", 503>>,
       <<"WhatsAppConnectionError", 400>>, <<"InfrastructureError", 403>>,
       <<"ValidationError", 400>>, <<"DomainError", 422>>, <<"ApplicationError", 401>> >>

errorMiddleware(e) ==
    LET supports == SelectSeq(ERROR_HANDLERS, LAMBDA h : InstanceOf(e, h[1]))
    IN  IF supports = <<>> THEN 500 ELSE supports[1][2]
=============================================================================
