SPECIFICATION Spec
CONSTANTS
  W = 3
  Base = 8
  BitMod = 5
  CarryMult = 2
  Numbers <- Lengths124
  Moduli <- Divisors
  Elements <- FiveBits
CHECK_DEADLOCK FALSE
INVARIANTS SumsExact ProductsExact DivisionExact ModularExact FieldSumsExact FieldProductsExact
