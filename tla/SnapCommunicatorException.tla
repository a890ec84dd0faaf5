--------------------- MODULE SnapCommunicatorException ---------------------
(***************************************************************************)
(* The exception classes of namespace sc (snapcommunicator/exception.h)    *)
(* and how a C++ handler catches them.                                     *)
(*                                                                         *)
(* Each declaration is a libexcept macro that defines one class with one   *)
(* direct base:                                                            *)
(*   DECLARE_LOGIC_ERROR(n)      class n : public libexcept::logic_exception_t *)
(*   DECLARE_MAIN_EXCEPTION(n)   class n : public libexcept::exception_t   *)
(*   DECLARE_EXCEPTION(b, n)     class n : public b                        *)
(* The libexcept and standard classes above them are the environment      *)
(* (constant LibBases).  A class is a string, its name.                    *)
(***************************************************************************)
EXTENDS Naturals, TLC, FiniteSetsExt

CONSTANTS
    LogicExceptionT,  \* libexcept::logic_exception_t
    ExceptionT,       \* libexcept::exception_t
    LibBases          \* LibBases[c]: direct bases of a libexcept/std class

DeclareLogicError(n)        == n :> {LogicExceptionT}
DeclareMainException(n)     == n :> {ExceptionT}
DeclareException(base, n)   == n :> {base}

\* The declarations of namespace sc, in the order of the header.
ScBases ==
    DeclareLogicError("snapcommunicator_logic_error")
    @@ DeclareMainException("snapcommunicator_error")
    @@ DeclareException("snapcommunicator_error", "address_missing")
    @@ DeclareException("snapcommunicator_error", "connection_unavailable")
    @@ DeclareException("snapcommunicator_error", "unexpected_message")
    @@ DeclareException("snapcommunicator_error", "unexpected_message_parameter")
    @@ DeclareException("snapcommunicator_error", "unknown_command")
    @@ DeclareException("snapcommunicator_error", "unknown_exception")
    @@ DeclareException("snapcommunicator_error", "switching_to_user_failed")
    @@ DeclareException("snapcommunicator_error", "user_missing")

\* The classes the header declares.
ScClasses == DOMAIN ScBases

\* The whole inheritance graph: direct bases of every class.
Bases == ScBases @@ LibBases

Classes == DOMAIN Bases

(***************************************************************************)
(* The number of base-class subobjects of type b in an object of class c:  *)
(* the number of paths from c up to b (all inheritance is non-virtual).    *)
(***************************************************************************)
RECURSIVE Subobjects(_, _)
Subobjects(c, b) ==
    IF c = b THEN 1
    ELSE MapThenSumSet(LAMBDA x : Subobjects(x, b), Bases[c])

\* catch(h const &) matches a thrown c when h is c or an unambiguous
\* base of c ([except.handle]): a base reached along two paths does not
\* match, and the exception goes on to the next handler.
Catches(h, c) == Subobjects(c, h) = 1

=============================================================================
