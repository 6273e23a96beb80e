SPECIFICATION ProjectThemeSpec
CONSTANTS
    ThemeAuthors = {p1, p2}
    MaxSaves = 3
PROPERTY StatedVersionProtects
