CONSTANTS
  Tokens = {"FN", "CLASS", "VAR", "IF", "ELSE", "WHILE", "FOR", "RETURN", "PRINT",
            "IDENTIFIER", "INIT", "NUMBER", "COLON", "SEMICOLON", "COMMA", "DOT", "EQUAL",
            "LESS", "PLUS", "BANG", "LEFT_PAREN", "RIGHT_PAREN", "LEFT_BRACE",
            "RIGHT_BRACE", "LEFT_BRACKET", "RIGHT_BRACKET"}
  Prefixes <- Starts
  MaxParams = 1
  MaxTokens = 5
SPECIFICATION Spec
CHECK_DEADLOCK FALSE
INVARIANTS
  OuterClassIsInnermost
  BracketsMatch
PROPERTIES
  ErrorsAdvance
  ParseEnds
