----------------------------- MODULE MCEditing -----------------------------
\* Documents that use every rule of the grammar, laid out badly.
EXTENDS Editing

MCSources == {
  <<"let", " ", "x", ":", "T", " ", "=", " ", "-", "1", ";", "\n", "//a", "\n", "\n",
    "x", "+=", "2", "*", "(", "x", "+", "1", ")", ";", "//b", "\n">>,
  <<"if", "(", "x", " ", "<", "y", ">", "(", "1", ")", ")", "{", "//a", "\n", "print", " ", "x",
    ";", "}", "else", "{", "return", ";", "}">>,
  <<"struct", " ", "S", "<", "T", ">", "{", "a", ":", "T", ",", "private", " ", "b", ":", "[",
    "T", "]", "}", "let", " ", "x", "=", "S", "<", "T", ">", "{", "a", ":", "1", "}", ";">>,
  <<"enum", " ", "E", "{", "A", "(", "x", ":", "T", ")", ",", "B", ",", "}", "match", " ", "e",
    "{", "E", ".", "A", "(", "x", ")", " ", "if", " ", "x", "=>", "{", "}", "}">>,
  <<"for", " ", "let", " ", "i", "=", "1", ";", "i", "<", "2", ";", "i", "+=", "1", "{",
    "break", ";", "}", "for", " ", "k", " ", "in", " ", "m", "{", "continue", ";", "}">>,
  <<"let", " ", "f", "=", "fun", "(", "a", ",", "b", ")", ":", "fun", "(", "T", ")", ":", "T",
    "{", "return", " ", "a", "[", "b", "]", ";", "}", ";", "f", "(", "1", ",", "[", "2", ",",
    "1", "]", ",", "g", "<", "T", ">", "(", "2", ")", ")", ";">>,
  <<"impl", " ", "S", "{", "operator", "<", "(", "o", ")", "{", "}", "fun", " ", "m", "(", ")",
    "{", "this", ".", "a", "=", "!", "x", ";", "}", "}">>,
  <<"let", " ", "v", "=", "match", " ", "x", "{", "1", "=>", "2", ",", "_", "=>", "{", "1", ":",
    "x", "}", "}", ";", "import", " ", "s", " ", "as", " ", "x", ";">>,
  <<"while", " ", "x", "{", "if", " ", "S", "{", "}", "{", "}", "}", "export", " ", "x", " ",
    "from", " ", "s", ";", "match", "(", "x", ")", "{", "R", "{", "a", ":", "1", "|", "_", "}",
    "=>", "{", "fun", " ", "f", "(", ")", "{", "}", "}", "}">> }

MCTyped ==
  {"\n", " ", "//c", "}", "{", "(", "<", ">", ",", ";", ":", ".", "-", "!", "x", "1", "=", "import"}
=============================================================================
