------------------------------ MODULE LLVMValues ------------------------------
(***************************************************************************)
(* The values that LLVM's code generation (src/src/backends/llvm/          *)
(* codegen.cc) makes of expressions, each as the type whose representation *)
(* it has: what to_llvm(Int) is i32, what to_llvm of a class is a pointer  *)
(* to its struct. The rules of LLVM's IR that the instructions are under   *)
(* are external.                                                           *)
(***************************************************************************)
EXTENDS StaticTypes

NoValue == T("none")      \* expr_values holds a null pointer
Invalid == T("invalid")   \* IR that breaks a rule, a failed assertion or a crash

\* Two operands of one instruction have the same type.
Instruction(t, l, r, result) == IF l = t /\ r = t THEN result ELSE Invalid

\* A pointer may be cast to any other one; everything else stays what it is.
BitCast(v, t) ==
  IF v = t THEN t
  ELSE IF v.name \in ClassNames /\ t.name \in ClassNames THEN t
  ELSE IF v.dims > 0 /\ t.dims > 0 THEN t
  ELSE Invalid

\* A store gives no value.
Store(v, t) == IF v = t THEN Void ELSE Invalid

UnaryValue(t, v) == IF t \in Numbers THEN Instruction(t, t, v, t) ELSE NoValue

\* An Int meets a Float as a Float.
SIToFP(v) == IF v = IntType THEN Float ELSE Invalid

\* Mutant: only the right operand is converted.
BinaryValueOneCast(op, lt, rt, l, r) ==
  LET rv == IF lt = Float /\ rt = IntType THEN SIToFP(r) ELSE r
      result == IF op = "+" THEN lt ELSE Bool
  IN  IF NoValue \in {l, rv} THEN NoValue
      ELSE IF lt \in Numbers THEN Instruction(lt, l, rv, result)
      ELSE NoValue

\* The instruction is chosen by the left operand's type.
BinaryValue(op, lt, rt, l, r) ==
  LET mixed == {lt, rt} = Numbers
      t == IF mixed THEN Float ELSE lt
      lv == IF mixed /\ lt = IntType THEN SIToFP(l) ELSE l
      rv == IF mixed /\ rt = IntType THEN SIToFP(r) ELSE r
      result == IF op = "+" THEN t ELSE Bool
  IN  IF NoValue \in {lv, rv} THEN NoValue
      ELSE IF t \in Numbers THEN Instruction(t, lv, rv, result)
      ELSE NoValue

LogicalValue(l, r) == IF NoValue \in {l, r} THEN NoValue ELSE Instruction(l, l, r, l)

\* The value is stored as it is; the assignment's value is what was stored.
AssignmentValue(var, v) == IF Store(v, var) = Invalid THEN Invalid ELSE v

\* A member of a class by its name has a value only if it is init.
GetClassValue(class, member) ==
  IF member = "init" /\ HasMethod(T(class), "init") THEN Method(class, "init") ELSE NoValue

\* Loaded from the vtable of the object, or from its slot.
GetValue(t, v, member) ==
  IF ~IsObject(v) THEN Invalid
  ELSE IF HasMethod(t, member) THEN Method(t.name, member)
  ELSE FieldsOf[t.name][member]

SetValue(t, v, field, value) ==
  IF IsObject(v) THEN Store(value, FieldsOf[t.name][field]) ELSE Invalid

GetIndexValue(t, v, index) ==
  IF v = t /\ index = IntType THEN NextEnclosed(t) ELSE Invalid

SetIndexValue(v, index, value) ==
  IF v.dims > 0 /\ index = IntType THEN Store(value, NextEnclosed(v)) ELSE Invalid

\* this is supplied to a method called as a member, and to an init.
CallValue(t, v, kind, args) ==
  LET params == Signature(t).args
      this == kind = "field" \/ t.member = "init" \/ t.name = "fn"
  IN  IF /\ v = t /\ this /\ Len(args) = Len(params)
         /\ \A i \in DOMAIN params : BitCast(args[i], params[i]) = params[i]
      THEN Signature(t).result ELSE Invalid
===============================================================================
