CONSTANTS
    Glyph = 2
    Width = 4
    Height = 10
    Chars = {"a", "b"}
    Places <- Written
SPECIFICATION Spec
INVARIANTS
    TypeOK
    LinesRise
